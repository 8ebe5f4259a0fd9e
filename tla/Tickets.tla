------------------------------- MODULE Tickets -------------------------------
(***************************************************************************)
(* Section3/H1.  The ticket office creates a shared segment with tickets,  *)
(* a log of purchases and a mutex, reports once a second, and removes      *)
(* everything when it has seen no tickets SOLD_OUT_POLLS times.  The       *)
(* threads of the buyer program attach and buy until nothing is left.      *)
(*                                                                         *)
(* A new segment is all zero bytes: no tickets, and a mutex that works     *)
(* (zero is PTHREAD_MUTEX_INITIALIZER).  After pthread_mutex_destroy,      *)
(* pthread_mutex_lock fails, nobody looks, and the caller goes on.  A      *)
(* removed segment stays for those attached to it.                         *)
(***************************************************************************)
EXTENDS Integers, FiniteSetsExt, Course

CONSTANTS
    TICKETS,            \* 100 in the source
    LOG_SIZE,           \* entries of purchases_log (100)
    MAX_BUY,            \* a buyer asks for 1 to MAX_BUY tickets (5)
    SOLD_OUT_POLLS,     \* 5
    Buyers,             \* the threads of the buyer program (3)
    NoBuyer             \* holder of a free mutex

ASSUME TicketsAssumption ==
    /\ TICKETS \in Nat /\ LOG_SIZE \in Nat /\ TICKETS <= LOG_SIZE
    /\ MAX_BUY \in Nat
    /\ SOLD_OUT_POLLS \in Nat \ {0}
    /\ NoBuyer \notin Buyers

VARIABLES
    segment,            \* "none", "present" or "removed"
    available_tickets, purchases_log, transactions,
    mutex,              \* "works" or "destroyed"
    holder,             \* the buyer that holds it; the office never keeps it
    office_pc, sold_out_count,
    report,             \* the numbers of the last ticket report
    buyer_pc, tickets_to_buy

officeVars == <<office_pc, sold_out_count, report>>
buyerVars == <<buyer_pc, tickets_to_buy>>
ticketVars == <<segment, available_tickets, purchases_log, transactions,
                mutex, holder, officeVars, buyerVars>>

\* Labels of BuyerThread between the test and the unlock: in the middle of a purchase.
Buying == {"take", "log", "count"}
Inside == {"test", "unlock", "leave"} \cup Buying

TicketsTypeOK ==
    /\ segment \in {"none", "present", "removed"}
    /\ available_tickets \in Int
    /\ purchases_log \in [0 .. LOG_SIZE - 1 -> Nat]
    /\ transactions \in Nat
    /\ mutex \in {"works", "destroyed"}
    /\ holder \in Buyers \cup {NoBuyer}
    /\ office_pc \in {"create", "counters", "mutex", "log", "poll", "report", "destroy", "remove", "exit"}
    /\ sold_out_count \in 0 .. SOLD_OUT_POLLS
    /\ report \in [tickets : Int, transactions : Nat]
    /\ buyer_pc \in [Buyers -> {"start", "lock", "exit", "dead"} \cup Inside]
    /\ tickets_to_buy \in [Buyers -> 0 .. MAX_BUY]

TicketsInit ==
    /\ segment = "none"
    /\ available_tickets = 0
    /\ purchases_log = [i \in 0 .. LOG_SIZE - 1 |-> 0]
    /\ transactions = 0
    /\ mutex = "works"
    /\ holder = NoBuyer
    /\ office_pc = "create"
    /\ sold_out_count = 0
    /\ report = [tickets |-> 0, transactions |-> 0]
    /\ buyer_pc = [b \in Buyers |-> "start"]
    /\ tickets_to_buy = [b \in Buyers |-> 0]

-----------------------------------------------------------------------------
(* The ticket office *)

Office(from, to) == office_pc = from /\ office_pc' = to

\* shmget and shmat.
CreateSharedMemory ==
    /\ Office("create", "counters")
    /\ segment' = "present"
    /\ UNCHANGED <<available_tickets, purchases_log, transactions, mutex, holder, sold_out_count, report>>

\* InitializeSharedMemory, in the order of the source.
InitCounters ==
    /\ Office("counters", "mutex")
    /\ available_tickets' = TICKETS
    /\ transactions' = 0
    /\ UNCHANGED <<segment, purchases_log, mutex, holder, sold_out_count, report>>

InitMutex ==
    /\ Office("mutex", "log")
    /\ holder' = NoBuyer
    /\ UNCHANGED <<segment, available_tickets, purchases_log, transactions, mutex, sold_out_count, report>>

ClearLog ==
    /\ Office("log", "poll")
    /\ purchases_log' = [i \in 0 .. LOG_SIZE - 1 |-> 0]
    /\ UNCHANGED <<segment, available_tickets, transactions, mutex, holder, sold_out_count, report>>

\* Mutant of Poll: sold out when the largest purchase no longer fits.
PollAlmostSoldOut ==
    /\ holder = NoBuyer
    /\ IF available_tickets < MAX_BUY
       THEN /\ sold_out_count' = sold_out_count + 1
            /\ Office("poll", IF sold_out_count' >= SOLD_OUT_POLLS THEN "destroy" ELSE "report")
       ELSE sold_out_count' = 0 /\ Office("poll", "report")
    /\ UNCHANGED <<segment, available_tickets, purchases_log, transactions, mutex, holder, report>>

\* Mutant of Poll: reports only as long as there are tickets.
PollSilent ==
    /\ holder = NoBuyer
    /\ IF available_tickets = 0
       THEN /\ sold_out_count' = sold_out_count + 1
            /\ Office("poll", IF sold_out_count' >= SOLD_OUT_POLLS THEN "destroy" ELSE "poll")
       ELSE sold_out_count' = 0 /\ Office("poll", "report")
    /\ UNCHANGED <<segment, available_tickets, purchases_log, transactions, mutex, holder, report>>

\* The main loop: lock, read, unlock.
Poll ==
    /\ holder = NoBuyer
    /\ IF available_tickets = 0
       THEN /\ sold_out_count' = sold_out_count + 1
            /\ Office("poll", IF sold_out_count' >= SOLD_OUT_POLLS THEN "destroy" ELSE "report")
       ELSE sold_out_count' = 0 /\ Office("poll", "report")
    /\ UNCHANGED <<segment, available_tickets, purchases_log, transactions, mutex, holder, report>>

PrintTicketReport ==
    /\ Office("report", "poll")
    /\ holder = NoBuyer
    /\ report' = [tickets |-> available_tickets, transactions |-> transactions]
    /\ UNCHANGED <<segment, available_tickets, purchases_log, transactions, mutex, holder, sold_out_count>>

\* pthread_mutex_destroy refuses (EBUSY) while a buyer holds the mutex.
DestroyMutex ==
    /\ Office("destroy", "remove")
    /\ mutex' = IF holder = NoBuyer THEN "destroyed" ELSE mutex
    /\ UNCHANGED <<segment, available_tickets, purchases_log, transactions, holder, sold_out_count, report>>

CleanupSharedMemory ==
    /\ Office("remove", "exit")
    /\ segment' = "removed"
    /\ UNCHANGED <<available_tickets, purchases_log, transactions, mutex, holder, sold_out_count, report>>

OfficeNext ==
    /\ program = "tickets"
    /\ \/ CreateSharedMemory \/ InitCounters \/ InitMutex \/ ClearLog
       \/ Poll \/ PrintTicketReport \/ DestroyMutex \/ CleanupSharedMemory
    /\ UNCHANGED buyerVars

-----------------------------------------------------------------------------
(* BuyerThread *)

Buyer(b, from, to) == buyer_pc[b] = from /\ buyer_pc' = [buyer_pc EXCEPT ![b] = to]

\* shmget finds the segment by its key; without one exit(1) ends all buyer
\* threads.  The buyers are started when the office says it is initialised.
AttachToSharedMemory(b) ==
    /\ Calm => office_pc \notin {"create", "counters", "mutex", "log"}
    /\ \/ segment = "present" /\ Buyer(b, "start", "lock")
       \/ /\ segment # "present" /\ buyer_pc[b] = "start"
          /\ buyer_pc' = [c \in Buyers |-> IF buyer_pc[c] = "exit" THEN "exit" ELSE "dead"]
    /\ UNCHANGED <<available_tickets, purchases_log, transactions, holder, tickets_to_buy>>

\* Mutant of Lock: does not wait for the one who has the mutex.
LockAnyway(b, n) ==
    /\ Buyer(b, "lock", "test")
    /\ holder' = b
    /\ tickets_to_buy' = [tickets_to_buy EXCEPT ![b] = n]
    /\ UNCHANGED <<available_tickets, purchases_log, transactions>>

\* rand() % 5 + 1, then the lock, which a destroyed mutex does not give.
Lock(b, n) ==
    /\ Buyer(b, "lock", "test")
    /\ \/ mutex = "works" /\ holder = NoBuyer /\ holder' = b
       \/ mutex = "destroyed" /\ UNCHANGED holder
    /\ tickets_to_buy' = [tickets_to_buy EXCEPT ![b] = n]
    /\ UNCHANGED <<available_tickets, purchases_log, transactions>>

\* Mutant of LockAndAsk: rand() % 5 without the one.
LockAndAskFromZero(b) == \E n \in 0 .. MAX_BUY - 1 : Lock(b, n)

LockAndAsk(b) == \E n \in 1 .. MAX_BUY : Lock(b, n)

\* Mutant of TestAvailable: whatever is asked for, as long as there is a ticket.
TestAnyAvailable(b) ==
    /\ Buyer(b, "test", IF available_tickets = 0 THEN "leave" ELSE "take")
    /\ UNCHANGED <<available_tickets, purchases_log, transactions, holder, tickets_to_buy>>

TestAvailable(b) ==
    /\ Buyer(b, "test", IF available_tickets = 0 THEN "leave"
                        ELSE IF available_tickets >= tickets_to_buy[b] THEN "take" ELSE "unlock")
    /\ UNCHANGED <<available_tickets, purchases_log, transactions, holder, tickets_to_buy>>

TakeTickets(b) ==
    /\ Buyer(b, "take", "log")
    /\ available_tickets' = available_tickets - tickets_to_buy[b]
    /\ UNCHANGED <<purchases_log, transactions, holder, tickets_to_buy>>

LogPurchase(b) ==
    /\ Buyer(b, "log", "count")
    /\ purchases_log' = [purchases_log EXCEPT ![transactions] = tickets_to_buy[b]]
    /\ UNCHANGED <<available_tickets, transactions, holder, tickets_to_buy>>

CountTransaction(b) ==
    /\ Buyer(b, "count", "unlock")
    /\ transactions' = transactions + 1
    /\ UNCHANGED <<available_tickets, purchases_log, holder, tickets_to_buy>>

\* Mutant of Leave: leaves without giving the mutex back.
LeaveLocked(b) ==
    /\ Buyer(b, "leave", "exit")
    /\ UNCHANGED <<available_tickets, purchases_log, transactions, holder, tickets_to_buy>>

Unlocked(b) == holder' = IF holder = b THEN NoBuyer ELSE holder

\* The exit from the loop, and shmdt.
Leave(b) ==
    /\ Buyer(b, "leave", "exit")
    /\ Unlocked(b)
    /\ UNCHANGED <<available_tickets, purchases_log, transactions, tickets_to_buy>>

Unlock(b) ==
    /\ Buyer(b, "unlock", "lock")
    /\ Unlocked(b)
    /\ UNCHANGED <<available_tickets, purchases_log, transactions, tickets_to_buy>>

BuyerThread(b) ==
    /\ program = "tickets"
    /\ \/ AttachToSharedMemory(b) \/ LockAndAsk(b) \/ TestAvailable(b)
       \/ TakeTickets(b) \/ LogPurchase(b) \/ CountTransaction(b)
       \/ Unlock(b) \/ Leave(b)
    /\ UNCHANGED <<segment, mutex, officeVars>>

TicketsNext == OfficeNext \/ \E b \in Buyers : BuyerThread(b)

\* Threads that can run do run, and rand() comes to 1 again and again, for one
\* of the buyers at least.  (Those who find nothing left go, so that the mutex
\* needs to be no fairer.)
TicketsFairness ==
    /\ WF_ticketVars(OfficeNext)
    /\ \A b \in Buyers : WF_ticketVars(BuyerThread(b))
    /\ SF_ticketVars(\E b \in Buyers : BuyerThread(b) /\ Lock(b, 1))

TicketsSpec == TicketsInit /\ CourseTypeOK /\ [][TicketsNext /\ UNCHANGED courseVars]_<<ticketVars, courseVars>>

-----------------------------------------------------------------------------
(* Properties *)

\* office main.c:17: buyers come when the memory is initialised.
Opened == Calm /\ office_pc \notin {"create", "counters", "mutex", "log"}

Logged == SumFunctionOnSet(purchases_log, 0 .. transactions - 1)

\* Whenever nobody is inside, every ticket is either available or in the log,
\* under an index below transactions (buyer/functions.c:75-78).
TicketsConserved ==
    Opened /\ (\A b \in Buyers : buyer_pc[b] \notin Buying)
        => available_tickets + Logged = TICKETS

\* purchases_log has as many entries as the office has tickets, and the index
\* is not checked (buyer/functions.c:77): each purchase must take a ticket.
LogInBounds ==
    Calm => \A b \in Buyers : buyer_pc[b] = "log" => transactions < LOG_SIZE

\* The office destroys the mutex and the segment without a word to the buyers
\* (office main.c:48-49).  By then nobody is in a purchase and nobody can
\* begin one, so that what a late buyer does without the mutex changes nothing.
ClosedForGood ==
    Calm /\ (mutex = "destroyed" \/ segment = "removed")
        => /\ available_tickets = 0
           /\ \A b \in Buyers : buyer_pc[b] \notin Buying

\* The last report is complete: it says SOLD OUT (test_performance.sh:119) and
\* has all transactions.
LastReportComplete ==
    Calm /\ SOLD_OUT_POLLS > 1 /\ segment = "removed"
        => report = [tickets |-> 0, transactions |-> transactions]

\* What the buyer in a purchase has taken and not yet counted as a transaction.
InHand == IF holder \in Buyers /\ buyer_pc[holder] \in {"log", "count"} THEN tickets_to_buy[holder] ELSE 0

\* A purchase is made when it is counted; before the office opens it has its tickets.
Counter == INSTANCE Shop WITH
              STOCK <- TICKETS,
              MOST <- MAX_BUY,
              LAST_REPORT <- SOLD_OUT_POLLS > 1,
              stock <- IF office_pc \in {"create", "counters", "mutex", "log"} THEN TICKETS
                       ELSE available_tickets + InHand,
              sales <- [i \in 1 .. transactions |-> purchases_log[i - 1]],
              printed <- report,
              closed <- segment = "removed"

\* Office and buyers are a shop that sells one whole purchase after the other,
\* although a purchase is three updates of shared memory, by threads of which the
\* office knows nothing (buyer/functions.c:62-85, office main.c:21-50).
SoldOneByOne ==
    /\ Calm => Counter!ShopInit
    /\ [][Calm => Counter!ShopNext]_(Counter!shopVars)

\* Everything is sold in the end, the office closes and the buyers are gone.
Closed == segment = "removed" /\ \A b \in Buyers : buyer_pc[b] \in {"exit", "dead"}
=============================================================================
