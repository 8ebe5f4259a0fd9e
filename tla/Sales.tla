------------------------------- MODULE Sales -------------------------------
(***************************************************************************)
(* Section2/homeworks/H2.  A ticket office keeps three counters in shared  *)
(* memory and polls them; companies attach to the memory and buy.  Nothing *)
(* protects the counters: a purchase is three unlocked updates, each a     *)
(* load and a store, after two reads that cap the request.  When calm, no  *)
(* two companies type at the same time.                                    *)
(***************************************************************************)
EXTENDS Integers, Sequences, Course

CONSTANTS
    STOCK,              \* 20 in the source
    MAX_PURCHASE,       \* 5
    Companies,          \* processes that run buyer
    Requests            \* numbers that are typed in

ASSUME SalesAssumption == STOCK \in Nat /\ MAX_PURCHASE \in Nat \ {0} /\ Requests \subseteq Int

VARIABLES
    memory,            \* "none", "there", or "removed": only those attached have it
    shared_data,        \* struct memory
    sales_pc, filled,  \* fields initialised so far
    final_report,       \* the last TICKET REPORT, as far as it is printed
    company_pc, requested,
    updating,           \* the field a company updates, by number
    loaded              \* the value it has read from it

salesVars == <<memory, shared_data, sales_pc, filled, final_report,
               company_pc, requested, updating, loaded>>

Fields == <<"available_tickets", "purchased_tickets", "transactions">>
Opening == <<STOCK, 0, 0>>

\* A report has the fields in another order.
Reported == <<"purchased_tickets", "available_tickets", "transactions">>

SalesTypeOK ==
    /\ memory \in {"none", "there", "removed"}
    /\ shared_data \in [{Fields[f] : f \in 1 .. 3} -> Int]
    /\ sales_pc \in {"create", "fill", "poll", "report", "remove", "exit"}
    /\ filled \in 0 .. 3 /\ final_report \in Seq(Int) /\ Len(final_report) <= 3
    /\ company_pc \in [Companies -> {"attach", "loop", "ask", "compare", "clamp", "load", "store", "exit"}]
    /\ requested \in [Companies -> Int] /\ updating \in [Companies -> 1 .. 3]
    /\ loaded \in [Companies -> Int]

\* The memory is new, or that of an office that was killed with a ticket left.
SalesInit ==
    /\ \/ memory = "none" /\ shared_data = [f \in {Fields[i] : i \in 1 .. 3} |-> 0]
       \/ memory = "there" /\ shared_data = [f \in {Fields[i] : i \in 1 .. 3} |-> 1]
    /\ sales_pc = "create" /\ filled = 0 /\ final_report = <<>>
    /\ company_pc = [c \in Companies |-> "attach"]
    /\ requested = [c \in Companies |-> 0]
    /\ updating = [c \in Companies |-> 1]
    /\ loaded = [c \in Companies |-> 0]

\* In BuyTickets.
Purchasing(c) == company_pc[c] \in {"compare", "clamp", "load", "store"}

-----------------------------------------------------------------------------
(* The ticket office *)

SalesOffice(from, to) == sales_pc = from /\ sales_pc' = to

\* shmget without IPC_EXCL, shmat.
CreateSegment ==
    /\ SalesOffice("create", "fill")
    /\ memory' = "there"
    /\ UNCHANGED <<shared_data, filled, final_report>>

FillSegment ==
    /\ SalesOffice("fill", IF filled = 2 THEN "poll" ELSE "fill")
    /\ shared_data' = [shared_data EXCEPT ![Fields[filled + 1]] = Opening[filled + 1]]
    /\ filled' = filled + 1
    /\ UNCHANGED <<memory, final_report>>

\* It polls once a second, whatever the companies do.
SoldOut ==
    /\ SalesOffice("poll", "report")
    /\ shared_data.available_tickets <= 0
    /\ UNCHANGED <<memory, shared_data, filled, final_report>>

ReportField ==
    /\ SalesOffice("report", IF Len(final_report) = 2 THEN "remove" ELSE "report")
    /\ final_report' = Append(final_report, shared_data[Reported[Len(final_report) + 1]])
    /\ UNCHANGED <<memory, shared_data, filled>>

RemoveSegment ==
    /\ SalesOffice("remove", "exit")
    /\ memory' = "removed"
    /\ UNCHANGED <<shared_data, filled, final_report>>

TicketOffice ==
    /\ program = "sales"
    /\ CreateSegment \/ FillSegment \/ SoldOut \/ ReportField \/ RemoveSegment
    /\ UNCHANGED <<company_pc, requested, updating, loaded>>

-----------------------------------------------------------------------------
(* A company *)

Company(c, from, to) == company_pc[c] = from /\ company_pc' = [company_pc EXCEPT ![c] = to]

\* shmget without IPC_CREAT; without a memory the program ends.
AttachMemory(c) ==
    /\ Calm => sales_pc \notin {"create", "fill"}
    /\ Company(c, "attach", IF memory = "there" THEN "loop" ELSE "exit")
    /\ UNCHANGED <<shared_data, requested, updating, loaded>>

AnyLeft(c) ==
    /\ Company(c, "loop", IF shared_data.available_tickets > 0 THEN "ask" ELSE "exit")
    /\ UNCHANGED <<shared_data, requested, updating, loaded>>

\* scanf, and the first two tests of BuyTickets.  A number below 1 is refused.
Ask(c, n) ==
    /\ Calm => ~\E d \in Companies : Purchasing(d)
    /\ Company(c, "ask", IF n <= 0 THEN "loop" ELSE "compare")
    /\ requested' = [requested EXCEPT ![c] = IF n > MAX_PURCHASE THEN MAX_PURCHASE ELSE n]
    /\ UNCHANGED <<shared_data, updating, loaded>>

\* Mutant of Compare: the request is capped to what one may buy only.
CompareNever(c) ==
    /\ Company(c, "compare", "load")
    /\ UNCHANGED <<shared_data, requested, updating, loaded>>

Compare(c) ==
    /\ Company(c, "compare", IF requested[c] > shared_data.available_tickets THEN "clamp" ELSE "load")
    /\ UNCHANGED <<shared_data, requested, updating, loaded>>

\* A second read of the counter.
ClampRequest(c) ==
    /\ Company(c, "clamp", "load")
    /\ requested' = [requested EXCEPT ![c] = shared_data.available_tickets]
    /\ UNCHANGED <<shared_data, updating, loaded>>

Load(c) ==
    /\ Company(c, "load", "store")
    /\ loaded' = [loaded EXCEPT ![c] = shared_data[Fields[updating[c]]]]
    /\ UNCHANGED <<shared_data, requested, updating>>

\* What a purchase adds to each field.
Change(c) == <<-requested[c], requested[c], 1>>

Store(c) ==
    LET f == updating[c] IN
    /\ Company(c, "store", IF f = 3 THEN "loop" ELSE "load")
    /\ shared_data' = [shared_data EXCEPT ![Fields[f]] = loaded[c] + Change(c)[f]]
    /\ updating' = [updating EXCEPT ![c] = IF f = 3 THEN 1 ELSE f + 1]
    /\ loaded' = [loaded EXCEPT ![c] = 0]
    /\ UNCHANGED requested

BuyerProcess(c) ==
    /\ program = "sales"
    /\ \/ AttachMemory(c) \/ AnyLeft(c) \/ Compare(c) \/ ClampRequest(c) \/ Load(c) \/ Store(c)
       \/ \E n \in Requests : Ask(c, n)
    /\ UNCHANGED <<memory, sales_pc, filled, final_report>>

SalesNext == TicketOffice \/ \E c \in Companies : BuyerProcess(c)

\* Every company is scheduled, and those that are asked again and again how many
\* they want do not refuse for ever, all of them.
CompanyFairness ==
    /\ \A c \in Companies : WF_salesVars(BuyerProcess(c))
    /\ SF_salesVars(\E c \in Companies : BuyerProcess(c) /\ company_pc[c] = "ask" /\ company_pc'[c] = "compare")

SalesSpec == SalesInit /\ CourseTypeOK /\ [][SalesNext /\ UNCHANGED courseVars]_<<salesVars, courseVars>>

-----------------------------------------------------------------------------
(* Properties *)

\* If no two purchases overlap, no ticket is sold twice or lost between them; and
\* the last report, which test_performance.sh:82 expects to say that all are
\* sold, misses one purchase at most: the last one, if the office looks between
\* its two updates (functions.c:62-63).
SalesAddUp ==
    Calm =>
        /\ (filled = 3 /\ \A c \in Companies : ~Purchasing(c))
              => /\ shared_data.available_tickets >= 0
                 /\ shared_data.available_tickets + shared_data.purchased_tickets = STOCK
        /\ Len(final_report) >= 1 => final_report[1] \in STOCK - MAX_PURCHASE .. STOCK
        /\ Len(final_report) >= 2 => final_report[2] = 0

\* The office closes and every company leaves.
SalesEnd == sales_pc = "exit" /\ \A c \in Companies : company_pc[c] = "exit"
=============================================================================
