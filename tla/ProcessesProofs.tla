--------------------------- MODULE ProcessesProofs ---------------------------
(***************************************************************************)
(* The programs with processes, for all values of their constants: the     *)
(* reader and the writer of the semaphore example, the ticket office       *)
(* without locks of Section2/H2, the memory blocks of Section4/L2, and     *)
(* four that wait in pause(): the director and the actor, the manager and  *)
(* its workers, the time plotter and the data processor.                   *)
(***************************************************************************)
EXTENDS ShmExample, Sales, Blocks, Processor, Commands, Play, Plotter, SumProofs, SequenceTheorems, TLAPS

-----------------------------------------------------------------------------
(* The semaphore example *)

\* The semaphore for which the reader waits is its own, and only a writer that
\* has written everything posts it.  The block of that writer is the reader's
\* own too, unless one was left, which it does not open at a calm pace.
Posted ==
    /\ value \in [Versions -> Nat] /\ floats \in [Versions -> Nat]
    /\ reader_pc \in {"shm_unlink", "shm_open", "ftruncate", "sem_unlink", "sem_open", "wait",
                      "print", "clean", "exit"}
    /\ reader_pc = "sem_open" => sem_name = "none"
    /\ reader_pc \in {"wait", "print", "clean", "exit"} => sem_name = "new"
    /\ reader_pc \in {"ftruncate", "sem_unlink", "sem_open", "wait", "print", "clean"} => shm_name = "new"
    /\ shm_name = "old" => left_block
    /\ shm_name \in Versions \cup {"none"}
    /\ writer_pc \in {"sem_open", "write"} => writer_shm \in Versions
    /\ writer_shm \in Versions \cup {"none"}
    /\ writer_shm = "old" => left_block /\ ~Calm
    /\ value["new"] > 0 \/ reader_pc \in {"print", "clean", "exit"}
          => writer_pc = "exit" /\ writer_shm \in Versions /\ floats[writer_shm] = N_FLOATS

shmSteps == ShmExampleNext /\ UNCHANGED courseVars

LEMMA PostedStep == ASSUME Posted, shmSteps PROVE Posted'
<1> USE ShmExampleAssumption DEF Posted, Versions
<1>0. Calm' <=> Calm BY DEF shmSteps, courseVars, Calm
<1>1. CASE ShmReader
  <2>0. UNCHANGED <<floats, writer_pc, writer_shm, writer_sem, left_block>> BY <1>1 DEF ShmReader
  <2> USE DEF Reading
  <2>1. CASE UnlinkShm("shm_unlink", "shm_open") BY <1>0, <2>0, <2>1 DEF UnlinkShm
  <2>2. CASE CreateShm BY <1>0, <2>0, <2>2 DEF CreateShm
  <2>3. CASE SizeShm BY <1>0, <2>0, <2>3 DEF SizeShm
  <2>4. CASE UnlinkSem BY <1>0, <2>0, <2>4 DEF UnlinkSem
  <2>5. CASE CreateSem BY <1>0, <2>0, <2>5 DEF CreateSem
  <2>6. CASE WaitSem BY <1>0, <2>0, <2>6 DEF WaitSem
  <2>7. CASE PrintFloats BY <1>0, <2>0, <2>7 DEF PrintFloats
  <2>8. CASE UnlinkShm("clean", "exit") BY <1>0, <2>0, <2>8 DEF UnlinkShm
  <2> QED BY <1>1, <2>1, <2>2, <2>3, <2>4, <2>5, <2>6, <2>7, <2>8 DEF ShmReader
<1>2. CASE ShmWriter
  <2>0. UNCHANGED <<shm_name, sem_name, sized, reader_pc, left_block>> BY <1>2 DEF ShmWriter
  <2> USE DEF Writing
  <2>1. CASE OpenShm BY <1>0, <2>0, <2>1 DEF OpenShm
  <2>2. CASE OpenSem BY <1>0, <2>0, <2>2 DEF OpenSem
  <2>3. CASE WriteFloat BY <1>0, <2>0, <2>3 DEF WriteFloat
  <2>4. CASE PostSem BY <1>0, <2>0, <2>4 DEF PostSem
  <2> QED BY <1>2, <2>1, <2>2, <2>3, <2>4 DEF ShmWriter
<1> QED BY <1>1, <1>2 DEF shmSteps, ShmExampleNext

\* For any number of floats, and whatever an earlier run has left: a reader that
\* gets past sem_wait sees all numbers, unless the writer has a block of that run.
THEOREM ReaderIsServed == ShmExampleSpec => []ReaderSeesAll
<1>1. ShmExampleInit => Posted
  <2> SUFFICES ASSUME ShmExampleInit PROVE Posted OBVIOUS
  <2>1. value \in [Versions -> Nat] /\ floats \in [Versions -> Nat] BY DEF ShmExampleInit
  <2>2. value["new"] = 0 /\ reader_pc = "shm_unlink" /\ writer_pc = "shm_open" /\ writer_shm = "none"
    BY DEF ShmExampleInit
  <2>3. shm_name \in {"none", "old"} /\ (left_block <=> shm_name = "old") BY DEF ShmExampleInit
  <2> QED BY <2>1, <2>2, <2>3 DEF Posted, Versions
<1>2. Posted /\ [shmSteps]_<<exampleVars, courseVars>> => Posted'
  <2> SUFFICES ASSUME Posted, [shmSteps]_<<exampleVars, courseVars>> PROVE Posted' OBVIOUS
  <2>1. CASE shmSteps BY <2>1, PostedStep
  <2>2. CASE UNCHANGED <<exampleVars, courseVars>> BY <2>2 DEF exampleVars, courseVars, Posted, Calm
  <2> QED BY <2>1, <2>2
<1>3. Posted => ReaderSeesAll BY DEF Posted, ReaderSeesAll, Versions
<1> QED BY <1>1, <1>2, <1>3, PTL DEF ShmExampleSpec, shmSteps

-----------------------------------------------------------------------------
(* The ticket office without locks *)

Sold == shared_data["purchased_tickets"]
Left == shared_data["available_tickets"]

FieldNames == {"available_tickets", "purchased_tickets", "transactions"}

SalesTyped ==
    /\ shared_data \in [FieldNames -> Int]
    /\ sales_pc \in {"create", "fill", "poll", "report", "remove", "exit"}
    /\ memory \in {"none", "there", "removed"}
    /\ filled \in 0 .. 3 /\ final_report \in Seq(Int) /\ Len(final_report) <= 3
    /\ sales_pc \in {"create", "fill"} => filled < 3
    /\ sales_pc \notin {"report", "remove", "exit"} => Len(final_report) = 0
    /\ sales_pc = "report" => Len(final_report) < 3
    /\ company_pc \in [Companies -> {"attach", "loop", "ask", "compare", "clamp", "load", "store", "exit"}]
    /\ requested \in [Companies -> Int] /\ updating \in [Companies -> 1 .. 3]
    /\ loaded \in [Companies -> Int]

\* The office fills the segment before it polls it, and companies attach then.
Filling ==
    /\ filled = 3 <=> sales_pc \notin {"create", "fill"}
    /\ filled >= 1 /\ filled < 3 => Left = STOCK
    /\ filled = 2 => Sold = 0
    /\ filled < 3 => \A c \in Companies : company_pc[c] = "attach"

\* Tickets not sold and sold, with those that the purchase of c moves from the
\* one counter to the other.
OnTheWay(c) ==
    /\ Left >= 0
    /\ requested[c] \in 0 .. MAX_PURCHASE
    /\ company_pc[c] \in {"compare", "clamp"} => updating[c] = 1
    /\ Left + Sold + (IF updating[c] = 2 THEN requested[c] ELSE 0) = STOCK
    /\ updating[c] = 1 /\ company_pc[c] \in {"load", "store"} => requested[c] <= Left
    /\ company_pc[c] = "clamp" => Left < requested[c]
    /\ company_pc[c] = "store"
          => loaded[c] = IF updating[c] = 1 THEN Left ELSE IF updating[c] = 2 THEN Sold ELSE loaded[c]

\* At a calm pace: one purchase at a time, and the last report is made when
\* nothing is left, which stays so.
OneSale ==
    /\ \A c, d \in Companies : Purchasing(c) /\ Purchasing(d) => c = d
    /\ \A c \in Companies : Purchasing(c) => OnTheWay(c)
    /\ \A c \in Companies : ~Purchasing(c) => updating[c] = 1
    /\ (filled = 3 /\ \A c \in Companies : ~Purchasing(c)) => Left >= 0 /\ Left + Sold = STOCK
    /\ sales_pc \in {"report", "remove", "exit"} => Left = 0
    /\ Len(final_report) >= 1 => final_report[1] \in STOCK - MAX_PURCHASE .. STOCK
    /\ Len(final_report) >= 2 => final_report[2] = 0

SalesInv == SalesTyped /\ (Calm => Filling /\ OneSale)

salesSteps == SalesNext /\ UNCHANGED courseVars

LEMMA FieldAt ==
    ASSUME NEW f \in 1 .. 3
    PROVE  Fields[f] \in FieldNames /\ Reported[f] \in FieldNames /\ Opening[f] \in Int
BY SalesAssumption DEF Fields, Reported, Opening, FieldNames

LEMMA SalesTypedStep == ASSUME SalesTyped, SalesNext PROVE SalesTyped'
<1> USE SalesAssumption DEF SalesTyped
<1>1. CASE TicketOffice
  <2>0. UNCHANGED <<company_pc, requested, updating, loaded>> BY <1>1 DEF TicketOffice
  <2> USE DEF SalesOffice
  <2>1. CASE CreateSegment BY <2>0, <2>1 DEF CreateSegment
  <2>2. CASE FillSegment
    <3>1. filled \in 0 .. 2 /\ sales_pc = "fill" /\ filled' = filled + 1 BY <2>2 DEF FillSegment
    <3>2. shared_data' \in [FieldNames -> Int] BY <2>2, <3>1, FieldAt DEF FillSegment
    <3>3. sales_pc' = IF filled = 2 THEN "poll" ELSE "fill" BY <2>2 DEF FillSegment
    <3> QED BY <2>0, <2>2, <3>1, <3>2, <3>3 DEF FillSegment
  <2>3. CASE SoldOut BY <2>0, <2>3 DEF SoldOut
  <2>4. CASE ReportField
    <3> DEFINE n == Len(final_report)
    <3>0. sales_pc = "report" /\ sales_pc' = IF n = 2 THEN "remove" ELSE "report"
      BY <2>4 DEF ReportField
    <3>1. n \in Nat /\ n < 3 BY <3>0
    <3>2. n + 1 \in 1 .. 3 BY <3>1
    <3>3. shared_data[Reported[n + 1]] \in Int BY <3>2, FieldAt
    <3>4. final_report' \in Seq(Int) /\ Len(final_report') = n + 1
      BY <2>4, <3>3 DEF ReportField
    <3>5. UNCHANGED <<memory, shared_data, filled>> /\ sales_pc' \in {"remove", "report"} BY <2>4, <3>0 DEF ReportField
    <3> HIDE DEF n
    <3>6. sales_pc' = "report" => n + 1 < 3 BY <3>0, <3>1
    <3>7. n + 1 <= 3 BY <3>1
    <3> QED BY <2>0, <3>0, <3>1, <3>4, <3>5, <3>6, <3>7
  <2>5. CASE RemoveSegment BY <2>0, <2>5 DEF RemoveSegment
  <2> QED BY <1>1, <2>1, <2>2, <2>3, <2>4, <2>5 DEF TicketOffice
<1>2. ASSUME NEW c \in Companies, BuyerProcess(c) PROVE SalesTyped'
  <2>0. UNCHANGED <<memory, sales_pc, filled, final_report>> BY <1>2 DEF BuyerProcess
  <2> USE DEF Company
  <2>1. CASE AttachMemory(c) BY <2>0, <2>1 DEF AttachMemory
  <2>2. CASE AnyLeft(c) BY <2>0, <2>2 DEF AnyLeft
  <2>3. CASE Compare(c) BY <2>0, <2>3 DEF Compare
  <2>4. CASE ClampRequest(c)
    <3>1. shared_data["available_tickets"] \in Int BY DEF FieldNames
    <3> QED BY <2>0, <2>4, <3>1 DEF ClampRequest
  <2>5. CASE Load(c)
    <3>1. shared_data[Fields[updating[c]]] \in Int BY FieldAt
    <3> QED BY <2>0, <2>5, <3>1 DEF Load
  <2>6. CASE Store(c)
    <3>1. updating[c] \in 1 .. 3 /\ loaded[c] \in Int /\ requested[c] \in Int OBVIOUS
    <3>2. loaded[c] + Change(c)[updating[c]] \in Int BY <3>1 DEF Change
    <3>3. (IF updating[c] = 3 THEN 1 ELSE updating[c] + 1) \in 1 .. 3 BY <3>1
    <3>4. shared_data' \in [FieldNames -> Int] BY <2>6, <3>2 DEF Store
    <3>5. /\ company_pc' \in [Companies -> {"attach", "loop", "ask", "compare", "clamp", "load", "store", "exit"}]
          /\ updating' \in [Companies -> 1 .. 3] /\ loaded' \in [Companies -> Int] /\ UNCHANGED requested
      BY <2>6, <3>3 DEF Store
    <3> QED BY <2>0, <3>4, <3>5
  <2>7. ASSUME NEW n \in Requests, Ask(c, n) PROVE SalesTyped'
    BY <2>0, <2>7 DEF Ask
  <2> QED BY <1>2, <2>1, <2>2, <2>3, <2>4, <2>5, <2>6, <2>7 DEF BuyerProcess
<1> QED BY <1>1, <1>2 DEF SalesNext

\* Nothing of this is about what the office does while the counters stay.
LEMMA SalesSame ==
    ASSUME UNCHANGED <<shared_data, company_pc, requested, updating, loaded>>
    PROVE  /\ Left' = Left /\ Sold' = Sold
           /\ \A c \in Companies : (OnTheWay(c)' <=> OnTheWay(c)) /\ (Purchasing(c)' <=> Purchasing(c))
BY DEF Left, Sold, OnTheWay, Purchasing

LEMMA NeverBelowZero ==
    ASSUME SalesTyped, Filling, OneSale, filled = 3
    PROVE  Left >= 0 /\ Left \in Int /\ Sold \in STOCK - Left - MAX_PURCHASE .. STOCK - Left
<1>0. Left \in Int /\ Sold \in Int BY DEF SalesTyped, Left, Sold, FieldNames
<1>1. CASE \A c \in Companies : ~Purchasing(c) BY <1>0, <1>1, SalesAssumption DEF OneSale
<1>2. ASSUME NEW c \in Companies, Purchasing(c)
      PROVE  Left >= 0 /\ Sold \in STOCK - Left - MAX_PURCHASE .. STOCK - Left
  <2>1. OnTheWay(c) BY <1>2 DEF OneSale
  <2>2. requested[c] \in 0 .. MAX_PURCHASE /\ Left >= 0 BY <2>1 DEF OnTheWay
  <2>3. CASE updating[c] = 2
    <3>1. Left + Sold + requested[c] = STOCK BY <2>1, <2>3 DEF OnTheWay
    <3> QED BY <1>0, <2>2, <3>1, SalesAssumption
  <2>4. CASE updating[c] # 2
    <3>1. Left + Sold + 0 = STOCK BY <2>1, <2>4 DEF OnTheWay
    <3> QED BY <1>0, <2>2, <3>1, SalesAssumption
  <2> QED BY <2>3, <2>4
<1> QED BY <1>0, <1>1, <1>2

LEMMA SalesOfficeStep ==
    ASSUME SalesTyped, Filling, OneSale, TicketOffice PROVE (Filling /\ OneSale)'
<1>0. UNCHANGED <<company_pc, requested, updating, loaded>> BY DEF TicketOffice
<1> USE SalesAssumption DEF SalesOffice
<1>1. CASE CreateSegment
  <2>1. UNCHANGED <<shared_data, filled, final_report>> /\ sales_pc = "create" /\ sales_pc' = "fill"
    BY <1>1 DEF CreateSegment
  <2>2. Filling' BY <1>0, <2>1, SalesSame DEF Filling
  <2>3. OneSale' BY <1>0, <2>1, SalesSame DEF OneSale
  <2> QED BY <2>2, <2>3
<1>2. CASE FillSegment
  <2>1. /\ sales_pc = "fill" /\ sales_pc' = IF filled = 2 THEN "poll" ELSE "fill"
        /\ filled \in 0 .. 2 /\ filled' = filled + 1 /\ UNCHANGED final_report
    BY <1>2 DEF FillSegment, SalesTyped
  <2>2. Len(final_report) = 0 BY <2>1 DEF SalesTyped
  <2>3. \A c \in Companies : ~Purchasing(c) /\ ~Purchasing(c)' /\ company_pc'[c] = "attach"
    BY <1>0, <2>1 DEF Filling, Purchasing
  <2>4. \A c \in Companies : updating'[c] = 1 BY <1>0, <2>3 DEF OneSale
  <2>5. /\ filled = 0 => Left' = STOCK
        /\ filled = 1 => Left' = Left /\ Sold' = 0
        /\ filled = 2 => Left' = Left /\ Sold' = Sold
    BY <1>2, <2>1 DEF FillSegment, Left, Sold, Fields, Opening, SalesTyped, FieldNames
  <2>6. Filling' BY <2>1, <2>3, <2>5 DEF Filling
  <2>7. filled = 2 => Left' = STOCK /\ Sold' = 0 BY <2>5 DEF Filling
  <2>8. filled' = 3 => Left' >= 0 /\ Left' + Sold' = STOCK BY <2>1, <2>7
  <2>9. Len(final_report') = 0 /\ sales_pc' \notin {"report", "remove", "exit"} BY <2>1, <2>2
  <2> QED BY <2>3, <2>4, <2>6, <2>8, <2>9 DEF OneSale
<1>3. CASE SoldOut
  <2>1. /\ UNCHANGED <<shared_data, filled, final_report>> /\ sales_pc = "poll" /\ sales_pc' = "report"
        /\ Left <= 0
    BY <1>3 DEF SoldOut, Left
  <2>2. filled = 3 /\ Left = 0 BY <2>1, NeverBelowZero DEF Filling
  <2>3. Filling' BY <1>0, <2>1, SalesSame DEF Filling
  <2>4. OneSale' BY <1>0, <2>1, <2>2, SalesSame DEF OneSale
  <2> QED BY <2>3, <2>4
<1>4. CASE ReportField
  <2> DEFINE n == Len(final_report)
  <2>1. /\ UNCHANGED <<shared_data, filled>> /\ sales_pc = "report" /\ sales_pc' \in {"report", "remove"}
        /\ final_report' = Append(final_report, shared_data[Reported[n + 1]])
    BY <1>4 DEF ReportField
  <2>2. filled = 3 /\ Left = 0 BY <2>1 DEF Filling, OneSale
  <2>3. Sold \in STOCK - MAX_PURCHASE .. STOCK BY <2>2, NeverBelowZero
  <2>4. Filling' BY <1>0, <2>1, SalesSame DEF Filling
  <2>5. n \in 0 .. 2 /\ n + 1 \in 1 .. 3 /\ final_report \in Seq(Int)
    <3>1. final_report \in Seq(Int) /\ n < 3 BY <2>1 DEF SalesTyped
    <3>2. n \in Nat BY <3>1
    <3> HIDE DEF n
    <3>3. n \in 0 .. 2 /\ n + 1 \in 1 .. 3 BY <3>1, <3>2
    <3> QED BY <3>1, <3>3
  <2>6. /\ Len(final_report') = n + 1 /\ \A i \in 1 .. n : final_report'[i] = final_report[i]
        /\ final_report'[n + 1] = shared_data[Reported[n + 1]]
    <3>1. shared_data[Reported[n + 1]] \in Int BY <2>5, FieldAt DEF SalesTyped
    <3> QED BY <2>1, <2>5, <3>1
  <2>7. n = 0 => final_report'[1] = Sold BY <2>6 DEF Reported, Sold
  <2>8. n = 1 => final_report'[2] = Left BY <2>6 DEF Reported, Left
  <2> HIDE DEF n
  <2>9. Len(final_report') >= 1 => final_report'[1] \in STOCK - MAX_PURCHASE .. STOCK
    BY <2>3, <2>5, <2>6, <2>7 DEF OneSale, n
  <2>10. Len(final_report') >= 2 => final_report'[2] = 0
    <3>1. CASE n = 1 BY <2>2, <2>8, <3>1
    <3>2. CASE n = 2
      <4>1. final_report[2] = 0 BY <3>2 DEF OneSale, n
      <4> QED BY <2>6, <3>2, <4>1
    <3> QED BY <2>5, <2>6, <3>1, <3>2
  <2>11. OneSale' BY <1>0, <2>1, <2>2, <2>9, <2>10, SalesSame DEF OneSale
  <2> QED BY <2>4, <2>11
<1>5. CASE RemoveSegment
  <2>1. UNCHANGED <<shared_data, filled, final_report>> /\ sales_pc = "remove" /\ sales_pc' = "exit"
    BY <1>5 DEF RemoveSegment
  <2>2. Filling' BY <1>0, <2>1, SalesSame DEF Filling
  <2>3. OneSale' BY <1>0, <2>1, SalesSame DEF OneSale
  <2> QED BY <2>2, <2>3
<1> QED BY <1>1, <1>2, <1>3, <1>4, <1>5 DEF TicketOffice

\* A step of a company that leaves the counters alone.
LEMMA SalesQuietStep ==
    ASSUME SalesTyped, Filling, OneSale, NEW c \in Companies,
           UNCHANGED <<memory, sales_pc, filled, final_report, shared_data, updating>>,
           \A d \in Companies \ {c} : /\ company_pc'[d] = company_pc[d] /\ requested'[d] = requested[d]
                                      /\ loaded'[d] = loaded[d],
           Purchasing(c)' => OnTheWay(c)' /\ \A d \in Companies \ {c} : ~Purchasing(d),
           Purchasing(c) \/ ~Purchasing(c)' \/ \A d \in Companies : ~Purchasing(d),
           ~Purchasing(c)' => updating[c] = 1 /\ (Purchasing(c) => Left + Sold = STOCK),
           filled = 3
    PROVE  (Filling /\ OneSale)'
<1>1. Left' = Left /\ Sold' = Sold BY DEF Left, Sold
<1>2. \A d \in Companies \ {c} : (Purchasing(d)' <=> Purchasing(d)) /\ (OnTheWay(d)' <=> OnTheWay(d))
  BY <1>1 DEF Purchasing, OnTheWay
<1>3. Filling' BY <1>1 DEF Filling
<1>4. \A d, e \in Companies : Purchasing(d)' /\ Purchasing(e)' => d = e BY <1>2 DEF OneSale
<1>5. \A d \in Companies : Purchasing(d)' => OnTheWay(d)' BY <1>2 DEF OneSale
<1>6. \A d \in Companies : ~Purchasing(d)' => updating'[d] = 1 BY <1>2 DEF OneSale
<1>7. ASSUME \A d \in Companies : ~Purchasing(d)' PROVE Left' >= 0 /\ Left' + Sold' = STOCK
  <2>1. Left >= 0 BY NeverBelowZero
  <2>2. CASE Purchasing(c) BY <1>1, <1>7, <2>1, <2>2
  <2>3. CASE ~Purchasing(c)
    <3>1. \A d \in Companies : ~Purchasing(d) BY <1>2, <1>7, <2>3
    <3> QED BY <1>1, <2>1, <3>1 DEF OneSale
  <2> QED BY <2>2, <2>3
<1> QED BY <1>1, <1>3, <1>4, <1>5, <1>6, <1>7 DEF OneSale

LEMMA CompanyStep ==
    ASSUME SalesTyped, Filling, OneSale, Calm, NEW c \in Companies, BuyerProcess(c)
    PROVE  (Filling /\ OneSale)'
<1>0. UNCHANGED <<memory, sales_pc, filled, final_report>> BY DEF BuyerProcess
<1>a. Left \in Int /\ Sold \in Int /\ requested[c] \in Int /\ updating[c] \in 1 .. 3 /\ filled \in 0 .. 3
  BY DEF SalesTyped, Left, Sold, FieldNames
<1>b. company_pc[c] # "attach" => filled = 3 BY <1>a DEF Filling
<1> USE SalesAssumption DEF Company
<1>1. CASE AttachMemory(c)
  <2>1. filled = 3 BY <1>1, <1>a DEF AttachMemory, Filling
  <2>2. /\ UNCHANGED <<shared_data, requested, updating, loaded>>
        /\ \A d \in Companies \ {c} : company_pc'[d] = company_pc[d]
        /\ company_pc[c] = "attach" /\ company_pc'[c] \in {"loop", "exit"}
    BY <1>1 DEF AttachMemory, SalesTyped
  <2>3. ~Purchasing(c) /\ ~Purchasing(c)' BY <2>2 DEF Purchasing
  <2>4. updating[c] = 1 BY <2>3 DEF OneSale
  <2> QED BY <1>0, <2>1, <2>2, <2>3, <2>4, SalesQuietStep
<1>2. CASE AnyLeft(c)
  <2>1. /\ UNCHANGED <<shared_data, requested, updating, loaded>>
        /\ \A d \in Companies \ {c} : company_pc'[d] = company_pc[d]
        /\ company_pc[c] = "loop" /\ company_pc'[c] \in {"ask", "exit"}
    BY <1>2 DEF AnyLeft, SalesTyped
  <2>2. filled = 3 BY <1>b, <2>1
  <2>3. ~Purchasing(c) /\ ~Purchasing(c)' BY <2>1 DEF Purchasing
  <2>4. updating[c] = 1 BY <2>3 DEF OneSale
  <2> QED BY <1>0, <2>1, <2>2, <2>3, <2>4, SalesQuietStep
<1>3. ASSUME NEW n \in Requests, Ask(c, n) PROVE (Filling /\ OneSale)'
  <2>0. n \in Int OBVIOUS
  <2>1. /\ UNCHANGED <<shared_data, updating, loaded>> /\ company_pc[c] = "ask"
        /\ \A d \in Companies : ~Purchasing(d)
        /\ company_pc'[c] = IF n <= 0 THEN "loop" ELSE "compare"
        /\ requested'[c] = IF n > MAX_PURCHASE THEN MAX_PURCHASE ELSE n
        /\ \A d \in Companies \ {c} : company_pc'[d] = company_pc[d] /\ requested'[d] = requested[d]
    BY <1>3 DEF Ask, SalesTyped
  <2>2. filled = 3 BY <1>b, <2>1
  <2>3. updating[c] = 1 BY <2>1 DEF OneSale
  <2>4. ASSUME n > 0 PROVE OnTheWay(c)'
    <3>1. requested'[c] \in 0 .. MAX_PURCHASE BY <2>0, <2>1, <2>4
    <3>2. Left >= 0 /\ Left + Sold = STOCK BY <2>1, <2>2 DEF OneSale
    <3>3. company_pc'[c] = "compare" BY <2>0, <2>1, <2>4
    <3>4. Left' = Left /\ Sold' = Sold BY <2>1 DEF Left, Sold
    <3> QED BY <1>a, <2>1, <2>3, <3>1, <3>2, <3>3, <3>4 DEF OnTheWay
  <2>5. Purchasing(c)' => n > 0 BY <2>0, <2>1 DEF Purchasing
  <2> QED BY <1>0, <2>1, <2>2, <2>3, <2>4, <2>5, SalesQuietStep
<1>4. CASE Compare(c) \/ ClampRequest(c) \/ Load(c)
  <2>1. Purchasing(c) BY <1>4 DEF Compare, ClampRequest, Load, Purchasing
  <2>2. OnTheWay(c) BY <2>1 DEF OneSale
  <2>3. filled = 3 BY <1>b, <2>1 DEF Purchasing
  <2>4. UNCHANGED <<shared_data, updating>> BY <1>4 DEF Compare, ClampRequest, Load
  <2>5. Left' = Left /\ Sold' = Sold BY <2>4 DEF Left, Sold
  <2>6. \A d \in Companies \ {c} : /\ company_pc'[d] = company_pc[d] /\ requested'[d] = requested[d]
                                   /\ loaded'[d] = loaded[d]
    BY <1>4 DEF Compare, ClampRequest, Load, SalesTyped
  <2>7. Purchasing(c)' BY <1>4 DEF Compare, ClampRequest, Load, Purchasing, SalesTyped
  <2>8. CASE Compare(c)
    <3>1. /\ company_pc[c] = "compare" /\ UNCHANGED <<requested, loaded>>
          /\ company_pc'[c] = IF requested[c] > Left THEN "clamp" ELSE "load"
      BY <2>8 DEF Compare, Left, SalesTyped
    <3>2. OnTheWay(c)' BY <1>a, <2>2, <2>4, <2>5, <3>1 DEF OnTheWay
    <3> QED BY <1>0, <2>1, <2>3, <2>4, <2>6, <2>7, <3>2, SalesQuietStep DEF OneSale
  <2>9. CASE ClampRequest(c)
    <3>1. company_pc[c] = "clamp" /\ company_pc'[c] = "load" /\ requested'[c] = Left
      BY <2>9 DEF ClampRequest, Left, SalesTyped
    <3>2. OnTheWay(c)' BY <1>a, <2>2, <2>4, <2>5, <3>1 DEF OnTheWay
    <3> QED BY <1>0, <2>1, <2>3, <2>4, <2>6, <2>7, <3>2, SalesQuietStep DEF OneSale
  <2>10. CASE Load(c)
    <3>1. /\ company_pc[c] = "load" /\ company_pc'[c] = "store" /\ UNCHANGED requested
          /\ loaded'[c] = shared_data[Fields[updating[c]]]
      BY <2>10 DEF Load, SalesTyped
    <3>2. loaded'[c] = IF updating[c] = 1 THEN Left ELSE IF updating[c] = 2 THEN Sold ELSE loaded'[c]
      BY <1>a, <3>1 DEF Fields, Left, Sold
    <3>3. OnTheWay(c)' BY <1>a, <2>2, <2>4, <2>5, <3>1, <3>2 DEF OnTheWay
    <3> QED BY <1>0, <2>1, <2>3, <2>4, <2>6, <2>7, <3>3, SalesQuietStep DEF OneSale
  <2> QED BY <1>4, <2>8, <2>9, <2>10
<1>5. CASE Store(c)
  <2> DEFINE f == updating[c]
             r == requested[c]
  <2>1. Purchasing(c) /\ company_pc[c] = "store" BY <1>5 DEF Store, Purchasing
  <2>2. OnTheWay(c) /\ \A d \in Companies \ {c} : ~Purchasing(d) BY <2>1 DEF OneSale
  <2>3. filled = 3 BY <1>b, <2>1
  <2>4. /\ UNCHANGED requested
        /\ company_pc'[c] = IF f = 3 THEN "loop" ELSE "load"
        /\ updating'[c] = IF f = 3 THEN 1 ELSE f + 1
        /\ \A d \in Companies \ {c} : company_pc'[d] = company_pc[d] /\ updating'[d] = updating[d]
        /\ shared_data' = [shared_data EXCEPT ![Fields[f]] = loaded[c] + Change(c)[f]]
    BY <1>5 DEF Store, SalesTyped
  <2>5. /\ f = 1 => Left' = Left - r /\ Sold' = Sold
        /\ f = 2 => Left' = Left /\ Sold' = Sold + r
        /\ f = 3 => Left' = Left /\ Sold' = Sold
    <3>1. f = 1 => loaded[c] = Left BY <2>1, <2>2 DEF OnTheWay
    <3>2. f = 2 => loaded[c] = Sold BY <2>1, <2>2 DEF OnTheWay
    <3>3. CASE f = 1
      <4>1. shared_data' = [shared_data EXCEPT !["available_tickets"] = loaded[c] + -r]
        BY <2>4, <3>3 DEF Fields, Change
      <4> QED BY <1>a, <3>1, <3>3, <4>1 DEF Left, Sold, SalesTyped, FieldNames
    <3>4. CASE f = 2
      <4>1. shared_data' = [shared_data EXCEPT !["purchased_tickets"] = loaded[c] + r]
        BY <2>4, <3>4 DEF Fields, Change
      <4> QED BY <1>a, <3>2, <3>4, <4>1 DEF Left, Sold, SalesTyped, FieldNames
    <3>5. CASE f = 3
      <4>1. shared_data' = [shared_data EXCEPT !["transactions"] = loaded[c] + 1]
        BY <2>4, <3>5 DEF Fields, Change
      <4> QED BY <3>5, <4>1 DEF Left, Sold, SalesTyped, FieldNames
    <3> QED BY <1>a, <3>3, <3>4, <3>5
  <2>6. \A d \in Companies \ {c} : ~Purchasing(d)' BY <2>2, <2>4 DEF Purchasing
  <2>7. r \in 0 .. MAX_PURCHASE /\ Left >= 0 /\ (f = 1 => r <= Left) BY <2>1, <2>2 DEF OnTheWay
  <2>8. Left + Sold + (IF f = 2 THEN r ELSE 0) = STOCK BY <2>2 DEF OnTheWay
  <2> HIDE DEF f, r
  <2>9. Left' >= 0 /\ (Left = 0 => Left' = 0) BY <1>a, <2>5, <2>7 DEF f
  <2>10. Left' + Sold' + (IF f = 1 THEN r ELSE 0) = STOCK BY <1>a, <2>5, <2>7, <2>8 DEF f
  <2>11. Purchasing(c)' <=> f # 3 BY <2>4 DEF Purchasing
  <2>12. ASSUME f # 3 PROVE OnTheWay(c)'
    <3>1. requested'[c] = r /\ company_pc'[c] = "load" /\ updating'[c] \in 2 .. 3 /\ (updating'[c] = 2 <=> f = 1)
      BY <1>a, <2>4, <2>12 DEF f, r
    <3> QED BY <2>7, <2>9, <2>10, <3>1 DEF OnTheWay
  <2>13. f = 3 => updating'[c] = 1 /\ Left' + Sold' = STOCK BY <1>a, <2>4, <2>5, <2>8 DEF f
  <2>14. Filling' BY <1>0, <2>3 DEF Filling
  <2>15. OneSale'
    <3>1. \A d, e \in Companies : Purchasing(d)' /\ Purchasing(e)' => d = e BY <2>6
    <3>2. \A d \in Companies : Purchasing(d)' => OnTheWay(d)' BY <2>6, <2>11, <2>12
    <3>3. \A d \in Companies : ~Purchasing(d)' => updating'[d] = 1
      BY <2>2, <2>4, <2>11, <2>13 DEF OneSale
    <3>4. (\A d \in Companies : ~Purchasing(d)') => Left' >= 0 /\ Left' + Sold' = STOCK
      BY <2>9, <2>11, <2>13
    <3>5. sales_pc' \in {"report", "remove", "exit"} => Left' = 0 BY <1>0, <2>9 DEF OneSale
    <3> QED BY <1>0, <3>1, <3>2, <3>3, <3>4, <3>5 DEF OneSale
  <2> QED BY <2>14, <2>15
<1> QED BY <1>1, <1>2, <1>3, <1>4, <1>5 DEF BuyerProcess

\* For any number of companies, tickets and requests: if no two purchases overlap,
\* no ticket is sold twice or lost, and the last report misses one purchase at most.
THEOREM SalesAddUpAlways == SalesSpec => [](SalesAddUp /\ SalesTypeOK)
<1>1. SalesInit => SalesInv
  <2> SUFFICES ASSUME SalesInit PROVE SalesInv OBVIOUS
  <2>1. shared_data \in [FieldNames -> Int]
    <3>1. {Fields[i] : i \in 1 .. 3} = FieldNames BY DEF Fields, FieldNames
    <3> DEFINE N == {Fields[i] : i \in 1 .. 3}
    <3>2. shared_data = [f \in N |-> 0] \/ shared_data = [f \in N |-> 1] BY DEF SalesInit
    <3> HIDE DEF N
    <3>3. shared_data \in [N -> Int] BY <3>2
    <3> QED BY <3>1, <3>3 DEF N
  <2>2. SalesTyped BY <2>1 DEF SalesInit, SalesTyped
  <2>3. \A c \in Companies : ~Purchasing(c) /\ updating[c] = 1 BY DEF SalesInit, Purchasing
  <2>4. Len(final_report) = 0 BY DEF SalesInit
  <2>5. Filling BY DEF SalesInit, Filling
  <2>6. OneSale BY <2>3, <2>4 DEF SalesInit, OneSale
  <2> QED BY <2>2, <2>5, <2>6 DEF SalesInv
<1>2. SalesInv /\ [salesSteps]_<<salesVars, courseVars>> => SalesInv'
  <2> SUFFICES ASSUME SalesInv, [salesSteps]_<<salesVars, courseVars>> PROVE SalesInv' OBVIOUS
  <2>1. CASE salesSteps
    <3>1. SalesTyped' BY <2>1, SalesTypedStep DEF SalesInv, salesSteps
    <3>2. Calm' => Calm BY <2>1 DEF salesSteps, courseVars, Calm
    <3>3. Calm => (Filling /\ OneSale)'
      BY <2>1, SalesOfficeStep, CompanyStep DEF SalesInv, salesSteps, SalesNext
    <3> QED BY <3>1, <3>2, <3>3 DEF SalesInv
  <2>2. CASE UNCHANGED <<salesVars, courseVars>>
    BY <2>2 DEF salesVars, courseVars, SalesInv, SalesTyped, Filling, OneSale, OnTheWay, Purchasing, Left, Sold, Calm
  <2> QED BY <2>1, <2>2
<1>3. SalesInv => SalesAddUp /\ SalesTypeOK
  <2>1. {Fields[f] : f \in 1 .. 3} = FieldNames BY DEF Fields, FieldNames
  <2>2. SalesTyped => SalesTypeOK BY <2>1 DEF SalesTyped, SalesTypeOK
  <2> QED BY <2>2 DEF SalesInv, SalesAddUp, OneSale, Left, Sold
<1> QED BY <1>1, <1>2, <1>3, PTL DEF SalesSpec, salesSteps

-----------------------------------------------------------------------------
(* The memory blocks *)

BlockNumbers == 0 .. 3

BlocksTyped ==
    /\ mapped \subseteq Pages /\ word \in [Pages -> Int]
    /\ address \in [BlockNumbers -> Pages \cup {MAP_FAILED}]
    /\ os_map_range \in [BlockNumbers -> SUBSET Pages]
    /\ next_block \in BlockNumbers
    /\ blocks_log \in Seq([number : Int, range : SUBSET Pages])
    /\ blocks_pc \in {"map", "range", "log", "unmap", "exit", "killed"}
    /\ Len(blocks_log) = IF blocks_pc \in {"map", "range"} THEN 0
                         ELSE IF blocks_pc \in {"unmap", "exit"} THEN 4 ELSE next_block

\* Blocks that the mapping has come to.
Tried ==
    CASE blocks_pc = "map" -> {b \in BlockNumbers : b < next_block}
      [] blocks_pc = "range" -> {b \in BlockNumbers : b <= next_block}
      [] OTHER -> BlockNumbers

\* Blocks that may still be mapped.
StillMapped ==
    CASE blocks_pc = "unmap" -> {b \in BlockNumbers : b >= next_block}
      [] blocks_pc \in {"exit", "killed"} -> {}
      [] OTHER -> Tried

Failed(b) == address[b] = MAP_FAILED

\* The number of b is where it was written, or a later block lies over it.
Readable(b) ==
    \/ word[address[b]] = Values[b + 1]
    \/ \E c \in 2 .. 3 : c > b /\ address[b] \in Block(Fixed[c], c)

\* Only blocks are mapped, and all of them until the end; each has its number and
\* the range it lies in; and what is logged is of blocks that did not fail.
BlocksKnown ==
    /\ \A p \in mapped : \E b \in StillMapped : p \in Block(address[b], b)
    /\ blocks_pc \in {"map", "range"} => \A b \in Tried : Failed(b) \/ Block(address[b], b) \subseteq mapped
    /\ blocks_pc = "range" => ~Failed(next_block) \/ MAP_FAILED \in Pages
    /\ blocks_pc \in {"map", "range"} => \A b \in BlockNumbers \ Tried : Failed(b)
    /\ \A b \in Tried : Failed(b) \/ Readable(b)
    /\ \A b \in Tried : (blocks_pc # "range" \/ b # next_block)
          => Failed(b) \/ Block(address[b], b) \subseteq os_map_range[b]
    /\ \A b \in 0 .. Len(blocks_log) - 1 :
          /\ ~Failed(b)
          /\ Block(address[b], b) \subseteq blocks_log[b + 1].range
          /\ blocks_log[b + 1].number = word[address[b]]

BlocksInv == BlocksTyped /\ BlocksKnown

LEMMA NextBlock ==
    ASSUME NEW n \in BlockNumbers
    PROVE  (n + 1) % 4 \in BlockNumbers /\ (n + 1) % 4 = IF n = 3 THEN 0 ELSE n + 1
BY DEF BlockNumbers

LEMMA BlockHasStart == ASSUME NEW a \in Pages, NEW b \in BlockNumbers PROVE a \in Block(a, b)
BY BlocksAssumption DEF Block, BlockNumbers

\* A block that is mapped lies in the range around its address.
LEMMA RangeCovers ==
    ASSUME NEW a \in Pages, NEW b \in BlockNumbers, Block(a, b) \subseteq mapped, mapped \subseteq Pages
    PROVE  Block(a, b) \subseteq RangeAround(a)
<1>1. Sizes[b] \in Nat \ {0} /\ a \in Int /\ Pages \subseteq Int BY BlocksAssumption DEF BlockNumbers
<1>2. ASSUME NEW p \in Block(a, b), NEW q \in Pages, (p <= q /\ q <= a) \/ (a <= q /\ q <= p)
      PROVE  q \in Block(a, b)
  BY <1>1, <1>2 DEF Block
<1> QED BY <1>2 DEF RangeAround

blocksSteps == BlocksNext /\ UNCHANGED courseVars

LEMMA MapBlockStep == ASSUME BlocksInv, MapBlock PROVE BlocksInv'
<1> DEFINE n == next_block
<1>1. /\ blocks_pc = "map" /\ blocks_pc' = "range"
      /\ UNCHANGED <<os_map_range, next_block, blocks_log>>
      /\ n \in BlockNumbers
  BY DEF MapBlock, BlocksInv, BlocksTyped
<1>2. PICK a \in MapAt(n) :
          /\ address' = [address EXCEPT ![n] = a]
          /\ mapped' = mapped \cup Block(a, n)
          /\ word' = [p \in Pages |-> IF p = a THEN Values[n + 1]
                                      ELSE IF p \in Block(a, n) THEN 0 ELSE word[p]]
  BY DEF MapBlock
<1>3. /\ a \in Pages /\ Block(a, n) \subseteq Pages
      /\ n < 2 => Block(a, n) \cap mapped = {}
      /\ n >= 2 => a = Fixed[n]
  BY <1>1, BlocksAssumption DEF MapAt, Block, BlockNumbers
<1>4. Values[n + 1] \in Int BY <1>1 DEF Values, BlockNumbers
<1> HIDE DEF n
<1>5. BlocksTyped' BY <1>1, <1>2, <1>3, <1>4 DEF BlocksInv, BlocksTyped
<1>6. address'[n] = a /\ \A b \in BlockNumbers : b # n => address'[b] = address[b]
  BY <1>1, <1>2 DEF BlocksInv, BlocksTyped
<1>7. Tried = {b \in BlockNumbers : b < n} /\ Tried' = Tried \cup {n} /\ n \notin Tried
  BY <1>1 DEF Tried, BlockNumbers, n
<1>8. StillMapped = Tried /\ StillMapped' = Tried' BY <1>1 DEF StillMapped
<1>9. \A p \in mapped' : \E b \in StillMapped' : p \in Block(address'[b], b)
  BY <1>1, <1>2, <1>6, <1>7, <1>8 DEF BlocksInv, BlocksKnown
<1>10. \A b \in Tried' : Failed(b)' \/ Block(address'[b], b) \subseteq mapped'
  BY <1>1, <1>2, <1>6, <1>7 DEF BlocksInv, BlocksKnown, Failed
<1>11. \A b \in BlockNumbers \ Tried' : Failed(b)'
  BY <1>1, <1>6, <1>7 DEF BlocksInv, BlocksKnown, Failed
<1>12. ASSUME NEW b \in Tried' PROVE Failed(b)' \/ Readable(b)'
  <2>1. CASE b = n BY <1>2, <1>3, <1>6, <2>1 DEF Readable
  <2>2. CASE b # n
    <3>1. b \in Tried /\ b \in BlockNumbers /\ b < n /\ address'[b] = address[b] BY <1>6, <1>7, <2>2
    <3>2. CASE Failed(b) BY <3>1, <3>2 DEF Failed
    <3>3. CASE ~Failed(b)
      <4>1. address[b] \in Pages BY <3>1, <3>3 DEF BlocksInv, BlocksTyped, Failed
      <4>2. address[b] \in mapped BY <1>1, <3>1, <3>3, <4>1, BlockHasStart DEF BlocksInv, BlocksKnown
      <4>3. CASE address[b] \in Block(a, n)
        <5>1. n \in 2 .. 3 /\ a = Fixed[n] BY <1>1, <1>3, <4>2, <4>3 DEF BlockNumbers
        <5> QED BY <3>1, <4>3, <5>1 DEF Readable
      <4>4. CASE address[b] \notin Block(a, n)
        <5>1. word'[address[b]] = word[address[b]] BY <1>1, <1>2, <1>3, <4>1, <4>4, BlockHasStart
        <5> QED BY <1>1, <3>1, <3>3, <5>1 DEF BlocksInv, BlocksKnown, Readable
      <4> QED BY <4>3, <4>4
    <3> QED BY <3>2, <3>3
  <2> QED BY <2>1, <2>2
<1>13. ASSUME NEW b \in Tried', b # n PROVE Failed(b)' \/ Block(address'[b], b) \subseteq os_map_range'[b]
  <2>1. b \in Tried /\ address'[b] = address[b] BY <1>6, <1>7, <1>13
  <2> QED BY <1>1, <2>1 DEF BlocksInv, BlocksKnown, Failed
<1>14. Len(blocks_log') = 0 BY <1>1 DEF BlocksInv, BlocksTyped
<1>15. next_block' = n BY <1>1 DEF n
<1>16. ~(Failed(next_block)') \/ MAP_FAILED \in Pages BY <1>3, <1>6, <1>15 DEF Failed
<1>17. 0 .. Len(blocks_log') - 1 = {} BY <1>14
<1>18. BlocksKnown'
  <2>1. \A b \in Tried' : (blocks_pc' # "range" \/ b # next_block')
            => Failed(b)' \/ Block(address'[b], b) \subseteq os_map_range'[b]
    BY <1>1, <1>13, <1>15
  <2>2. \A b \in Tried' : Failed(b)' \/ Readable(b)' BY <1>12
  <2> QED BY <1>9, <1>10, <1>11, <1>17, <1>16, <2>1, <2>2 DEF BlocksKnown
<1> QED BY <1>5, <1>18 DEF BlocksInv

LEMMA MapFailsStep == ASSUME BlocksInv, MapFails PROVE BlocksInv'
<1> DEFINE n == next_block
<1>1. /\ blocks_pc = "map" /\ n \in BlockNumbers
      /\ next_block' = IF n = 3 THEN 0 ELSE n + 1
      /\ blocks_pc' = IF n = 3 THEN "log" ELSE "map"
      /\ UNCHANGED <<mapped, word, address, os_map_range, blocks_log>>
  BY NextBlock DEF MapFails, ForEachBlock, BlocksInv, BlocksTyped
<1> HIDE DEF n
<1>2. BlocksTyped' BY <1>1 DEF BlocksInv, BlocksTyped, BlockNumbers, n
<1>3. Tried = {b \in BlockNumbers : b < n} /\ Tried' = Tried \cup {n} /\ n \notin Tried
  BY <1>1 DEF Tried, BlockNumbers, n
<1>4. StillMapped = Tried /\ StillMapped' = Tried' BY <1>1 DEF StillMapped
<1>5. Failed(n) BY <1>1, <1>3 DEF BlocksInv, BlocksKnown
<1>6. \A b \in BlockNumbers : (Failed(b)' <=> Failed(b)) /\ (Readable(b)' <=> Readable(b))
  BY <1>1 DEF Failed, Readable
<1>7. 0 .. Len(blocks_log') - 1 = {} BY <1>1 DEF BlocksInv, BlocksTyped
<1>8. BlocksKnown'
  <2>1. \A p \in mapped' : \E b \in StillMapped' : p \in Block(address'[b], b)
    BY <1>1, <1>3, <1>4 DEF BlocksInv, BlocksKnown
  <2>2. \A b \in Tried' : Failed(b)' \/ (Readable(b)' /\ Block(address'[b], b) \subseteq mapped'
                                         /\ Block(address'[b], b) \subseteq os_map_range'[b])
    BY <1>1, <1>3, <1>5, <1>6 DEF BlocksInv, BlocksKnown
  <2>3. \A b \in BlockNumbers \ Tried' : Failed(b)' BY <1>1, <1>3, <1>6 DEF BlocksInv, BlocksKnown
  <2>4. blocks_pc' # "range" BY <1>1
  <2> QED BY <1>7, <2>1, <2>2, <2>3, <2>4 DEF BlocksKnown
<1> QED BY <1>2, <1>8 DEF BlocksInv

LEMMA NoteRangeStep == ASSUME BlocksInv, NoteRange PROVE BlocksInv'
<1> DEFINE n == next_block
<1>1. /\ blocks_pc = "range" /\ n \in BlockNumbers
      /\ next_block' = IF n = 3 THEN 0 ELSE n + 1
      /\ blocks_pc' = IF n = 3 THEN "log" ELSE "map"
      /\ UNCHANGED <<mapped, word, address, blocks_log>>
      /\ os_map_range' = [os_map_range EXCEPT ![n] = RangeAround(address[n])]
  BY NextBlock DEF NoteRange, ForEachBlock, BlocksInv, BlocksTyped, Get_os_map_range
<1>2. RangeAround(address[n]) \subseteq Pages BY DEF RangeAround
<1> HIDE DEF n
<1>3. BlocksTyped' BY <1>1, <1>2 DEF BlocksInv, BlocksTyped, BlockNumbers, n
<1>4. Tried = {b \in BlockNumbers : b <= n} /\ Tried' = Tried
  BY <1>1 DEF Tried, BlockNumbers, n
<1>5. StillMapped = Tried /\ StillMapped' = Tried' BY <1>1 DEF StillMapped
<1>6. \A b \in BlockNumbers : (Failed(b)' <=> Failed(b)) /\ (Readable(b)' <=> Readable(b))
  BY <1>1 DEF Failed, Readable
<1>7. 0 .. Len(blocks_log') - 1 = {} BY <1>1 DEF BlocksInv, BlocksTyped
<1>8. Failed(n) \/ Block(address[n], n) \subseteq os_map_range'[n]
  <2>1. SUFFICES ASSUME ~Failed(n) PROVE Block(address[n], n) \subseteq RangeAround(address[n])
    BY <1>1 DEF BlocksInv, BlocksTyped
  <2>2. address[n] \in Pages BY <1>1, <2>1 DEF Failed, BlocksInv, BlocksTyped
  <2>3. n \in Tried BY <1>1, <1>4 DEF BlockNumbers
  <2>4. Block(address[n], n) \subseteq mapped BY <1>1, <2>1, <2>3 DEF BlocksInv, BlocksKnown
  <2> QED BY <1>1, <2>2, <2>4, RangeCovers DEF BlocksInv, BlocksTyped
<1>9. \A b \in Tried : b # n => Failed(b) \/ Block(address[b], b) \subseteq os_map_range'[b]
  <2>1. \A b \in Tried : b # n => os_map_range'[b] = os_map_range[b]
    BY <1>1, <1>4 DEF BlocksInv, BlocksTyped
  <2> QED BY <1>1, <2>1 DEF BlocksInv, BlocksKnown, n
<1>10. BlocksKnown'
  <2>1. \A p \in mapped' : \E b \in StillMapped' : p \in Block(address'[b], b)
    BY <1>1, <1>4, <1>5 DEF BlocksInv, BlocksKnown
  <2>2. \A b \in Tried' : Failed(b)' \/ (Readable(b)' /\ Block(address'[b], b) \subseteq mapped'
                                         /\ Block(address'[b], b) \subseteq os_map_range'[b])
    BY <1>1, <1>4, <1>6, <1>8, <1>9 DEF BlocksInv, BlocksKnown
  <2>3. \A b \in BlockNumbers \ Tried' : Failed(b)' BY <1>1, <1>4, <1>6 DEF BlocksInv, BlocksKnown
  <2>4. blocks_pc' # "range" BY <1>1
  <2> QED BY <1>7, <2>1, <2>2, <2>3, <2>4 DEF BlocksKnown
<1> QED BY <1>3, <1>10 DEF BlocksInv

LEMMA LogStep == ASSUME BlocksInv, Print_result_log PROVE BlocksInv'
<1> DEFINE n == next_block
           a == address[n]
           entry == [number |-> word[a], range |-> os_map_range[n]]
<1>1. /\ blocks_pc = "log" /\ n \in BlockNumbers
      /\ UNCHANGED <<word, address, os_map_range>>
  BY DEF Print_result_log, ForEachBlock, BlocksInv, BlocksTyped
<1>2. Tried = BlockNumbers /\ StillMapped = BlockNumbers BY <1>1 DEF Tried, StillMapped
<1>3. \A b \in BlockNumbers : (Failed(b)' <=> Failed(b)) /\ (Readable(b)' <=> Readable(b))
  BY <1>1 DEF Failed, Readable
<1>4. CASE a = MAP_FAILED
  <2>1. blocks_pc' = "killed" /\ mapped' = {} /\ UNCHANGED <<next_block, blocks_log>>
    BY <1>4 DEF Print_result_log
  <2>2. BlocksTyped' BY <1>1, <2>1 DEF BlocksInv, BlocksTyped
  <2>3. Tried' = BlockNumbers BY <2>1 DEF Tried
  <2> HIDE DEF n, a
  <2>4. BlocksKnown'
    <3>1. \A b \in BlockNumbers : Failed(b)' \/ (Readable(b)' /\ Block(address'[b], b) \subseteq os_map_range'[b])
      BY <1>1, <1>2, <1>3 DEF BlocksInv, BlocksKnown
    <3>2. \A b \in 0 .. Len(blocks_log') - 1 :
              /\ ~Failed(b)'
              /\ Block(address'[b], b) \subseteq blocks_log'[b + 1].range
              /\ blocks_log'[b + 1].number = word'[address'[b]]
      BY <1>1, <2>1 DEF BlocksInv, BlocksKnown, Failed
    <3> QED BY <2>1, <2>3, <3>1, <3>2 DEF BlocksKnown
  <2> QED BY <2>2, <2>4 DEF BlocksInv
<1>5. CASE a # MAP_FAILED
  <2>1. /\ next_block' = IF n = 3 THEN 0 ELSE n + 1
        /\ blocks_pc' = IF n = 3 THEN "unmap" ELSE "log"
        /\ blocks_log' = Append(blocks_log, entry) /\ UNCHANGED mapped
    BY <1>1, <1>5, NextBlock DEF Print_result_log, ForEachBlock
  <2>2. a \in Pages /\ a = address[n] /\ ~Failed(n) BY <1>1, <1>5 DEF BlocksInv, BlocksTyped, Failed
  <2>3. entry \in [number : Int, range : SUBSET Pages] BY <1>1, <2>2 DEF BlocksInv, BlocksTyped
  <2>4. Len(blocks_log) = n /\ blocks_log \in Seq([number : Int, range : SUBSET Pages])
    BY <1>1 DEF BlocksInv, BlocksTyped
  <2>5. entry.number = word[address[n]] /\ entry.range = os_map_range[n] OBVIOUS
  <2> HIDE DEF entry, n, a
  <2>6. /\ blocks_log' \in Seq([number : Int, range : SUBSET Pages]) /\ Len(blocks_log') = n + 1
        /\ \A i \in 1 .. n : blocks_log'[i] = blocks_log[i]
        /\ blocks_log'[n + 1] = entry
    BY <1>1, <2>1, <2>3, <2>4 DEF BlockNumbers
  <2>7. BlocksTyped' BY <1>1, <2>1, <2>6 DEF BlocksInv, BlocksTyped, BlockNumbers
  <2>8. Tried' = BlockNumbers /\ StillMapped' = BlockNumbers BY <1>1, <2>1 DEF Tried, StillMapped, BlockNumbers
  <2>9. ASSUME NEW b \in 0 .. Len(blocks_log') - 1
        PROVE  /\ ~Failed(b)'
               /\ Block(address'[b], b) \subseteq blocks_log'[b + 1].range
               /\ blocks_log'[b + 1].number = word'[address'[b]]
    <3>1. CASE b = n
      <4>1. Block(address[n], n) \subseteq os_map_range[n] BY <1>1, <1>2, <2>2 DEF BlocksInv, BlocksKnown
      <4> QED BY <1>1, <1>3, <2>2, <2>5, <2>6, <3>1, <4>1
    <3>2. CASE b # n
      <4>1. b \in 0 .. n - 1 /\ b + 1 \in 1 .. n /\ b \in BlockNumbers BY <1>1, <2>6, <3>2 DEF BlockNumbers
      <4>2. /\ ~Failed(b)
            /\ Block(address[b], b) \subseteq blocks_log[b + 1].range
            /\ blocks_log[b + 1].number = word[address[b]]
        BY <2>4, <4>1 DEF BlocksInv, BlocksKnown
      <4>3. address' = address /\ word' = word /\ blocks_log'[b + 1] = blocks_log[b + 1] /\ ~Failed(b)'
        BY <1>1, <1>3, <2>6, <4>1, <4>2
      <4> QED BY <4>2, <4>3
    <3> QED BY <3>1, <3>2
  <2>10. \A p \in mapped' : \E b \in StillMapped' : p \in Block(address'[b], b)
    BY <1>1, <1>2, <2>1, <2>8 DEF BlocksInv, BlocksKnown
  <2>11. \A b \in Tried' : Failed(b)' \/ (Readable(b)' /\ Block(address'[b], b) \subseteq os_map_range'[b])
    BY <1>1, <1>2, <1>3, <2>8 DEF BlocksInv, BlocksKnown
  <2>12. blocks_pc' \notin {"map", "range"} BY <2>1
  <2> QED BY <2>7, <2>9, <2>10, <2>11, <2>12 DEF BlocksInv, BlocksKnown
<1> QED BY <1>4, <1>5

LEMMA UnmapStep == ASSUME BlocksInv, UnmapBlock PROVE BlocksInv'
<1> DEFINE n == next_block
<1>1. /\ blocks_pc = "unmap" /\ n \in BlockNumbers
      /\ next_block' = IF n = 3 THEN 0 ELSE n + 1
      /\ blocks_pc' = IF n = 3 THEN "exit" ELSE "unmap"
      /\ mapped' = mapped \ Block(address[n], n)
      /\ UNCHANGED <<word, address, os_map_range, blocks_log>>
  BY NextBlock DEF UnmapBlock, ForEachBlock, BlocksInv, BlocksTyped
<1>2. StillMapped = {b \in BlockNumbers : b >= n} /\ Tried = BlockNumbers
  BY <1>1 DEF StillMapped, Tried
<1> HIDE DEF n
<1>3. BlocksTyped' BY <1>1 DEF BlocksInv, BlocksTyped, BlockNumbers
<1>4. StillMapped' = StillMapped \ {n} /\ Tried' = BlockNumbers
  BY <1>1, <1>2 DEF StillMapped, Tried, BlockNumbers
<1>5. \A p \in mapped' : \E b \in StillMapped' : p \in Block(address'[b], b)
  BY <1>1, <1>4 DEF BlocksInv, BlocksKnown
<1>6. \A b \in Int : (Failed(b)' <=> Failed(b)) /\ (Readable(b)' <=> Readable(b))
  BY <1>1 DEF Failed, Readable
<1>7. blocks_pc' \notin {"map", "range"} BY <1>1
<1>8. \A b \in Tried' : Failed(b)' \/ (Readable(b)' /\ Block(address'[b], b) \subseteq os_map_range'[b])
  BY <1>1, <1>2, <1>4, <1>6 DEF BlocksInv, BlocksKnown, BlockNumbers
<1>9. \A b \in 0 .. Len(blocks_log') - 1 :
          /\ ~Failed(b)'
          /\ Block(address'[b], b) \subseteq blocks_log'[b + 1].range
          /\ blocks_log'[b + 1].number = word'[address'[b]]
  BY <1>1, <1>6 DEF BlocksInv, BlocksKnown
<1> QED BY <1>3, <1>5, <1>7, <1>8, <1>9 DEF BlocksInv, BlocksKnown

\* For any pages and sizes of the blocks, wherever the kernel puts the first two:
\* what is logged of a block is true of it, and nothing stays mapped.
THEOREM LogIsTrue == BlocksSpec => [](BlocksLogged /\ BlocksTypeOK)
<1>1. BlocksInit => BlocksInv
  <2> SUFFICES ASSUME BlocksInit PROVE BlocksInv OBVIOUS
  <2>1. BlocksTyped BY DEF BlocksInit, BlocksTyped, BlockNumbers
  <2>2. Tried = {} /\ mapped = {} /\ Len(blocks_log) = 0 /\ blocks_pc = "map"
    BY DEF BlocksInit, Tried, BlockNumbers
  <2>3. \A b \in BlockNumbers : Failed(b) BY DEF BlocksInit, Failed, BlockNumbers
  <2> QED BY <2>1, <2>2, <2>3 DEF BlocksInv, BlocksKnown
<1>2. BlocksInv /\ [blocksSteps]_<<blocksVars, courseVars>> => BlocksInv'
  <2> SUFFICES ASSUME BlocksInv, [blocksSteps]_<<blocksVars, courseVars>> PROVE BlocksInv' OBVIOUS
  <2>1. CASE blocksSteps
    BY <2>1, MapBlockStep, MapFailsStep, NoteRangeStep, LogStep, UnmapStep DEF blocksSteps, BlocksNext
  <2>2. CASE UNCHANGED blocksVars
    BY <2>2 DEF blocksVars, BlocksInv, BlocksTyped, BlocksKnown, Tried, StillMapped, Failed, Readable
  <2> QED BY <2>1, <2>2
<1>3. BlocksInv => BlocksTypeOK BY DEF BlocksInv, BlocksTyped, BlocksTypeOK, BlockNumbers
<1>4. BlocksInv => BlocksLogged
  <2> SUFFICES ASSUME BlocksInv PROVE BlocksLogged OBVIOUS
  <2>1. ASSUME NEW b \in 0 .. Len(blocks_log) - 1
        PROVE  /\ Block(address[b], b) \subseteq blocks_log[b + 1].range
               /\ \/ blocks_log[b + 1].number = Values[b + 1]
                  \/ \E c \in 2 .. 3 : c > b /\ address[b] \in Block(Fixed[c], c)
    <3>1. /\ ~Failed(b) /\ Block(address[b], b) \subseteq blocks_log[b + 1].range
          /\ blocks_log[b + 1].number = word[address[b]]
      BY DEF BlocksInv, BlocksKnown
    <3>2. blocks_pc \notin {"map", "range"} /\ b \in BlockNumbers
      BY DEF BlocksInv, BlocksTyped, BlockNumbers
    <3>3. Readable(b) BY <3>1, <3>2 DEF BlocksInv, BlocksKnown, Tried
    <3> QED BY <3>1, <3>3 DEF Readable
  <2>2. ASSUME blocks_pc \in {"unmap", "exit"}, NEW b \in 0 .. 3 PROVE address[b] # MAP_FAILED
    <3>1. b \in 0 .. Len(blocks_log) - 1 BY <2>2 DEF BlocksInv, BlocksTyped
    <3> QED BY <3>1 DEF BlocksInv, BlocksKnown, Failed
  <2>3. blocks_pc \in {"exit", "killed"} => mapped = {}
    BY DEF BlocksInv, BlocksTyped, BlocksKnown, StillMapped
  <2> QED BY <2>1, <2>2, <2>3 DEF BlocksLogged
<1> QED BY <1>1, <1>2, <1>3, <1>4, PTL DEF BlocksSpec, blocksSteps

-----------------------------------------------------------------------------
(* The data processor: what it leaves behind *)

ProcessorPlaces == {"sigaction", "shm_open", "mmap", "mq_open", "fork creator", "fork logger",
                    "test", "call", "pause", "woken", "sum", "wait", "reap", "unlink", "exit"}

ProcessorAt == at["processor"]

\* Where main() no longer sums: the loop is over, or has never begun.
AfterLoop == {"wait", "reap", "unlink", "exit"}

\* SignalsSent of the creator that have not been counted.
InAll(posted, handled) == (IF posted = {} THEN 0 ELSE 1) + (IF handled = <<>> THEN 0 ELSE 1)

Uncounted == InAll(pending["processor"], frames["processor"])

LEMMA InAllIs ==
    ASSUME NEW posted, NEW handled
    PROVE  /\ InAll(posted, handled) \in 0 .. 2
           /\ posted = {} /\ handled = <<>> => InAll(posted, handled) = 0
           /\ posted # {} /\ handled = <<>> => InAll(posted, handled) = 1
           /\ posted = {} /\ handled # <<>> => InAll(posted, handled) = 1
           /\ posted # {} /\ handled # <<>> => InAll(posted, handled) = 2
<1>1. CASE posted = {} /\ handled = <<>> BY <1>1 DEF InAll
<1>2. CASE posted # {} /\ handled = <<>> BY <1>2 DEF InAll
<1>3. CASE posted = {} /\ handled # <<>> BY <1>3 DEF InAll
<1>4. CASE posted # {} /\ handled # <<>> BY <1>4 DEF InAll
<1> QED BY <1>1, <1>2, <1>3, <1>4

\* The creator sends one signal for each batch, and is through when main() has
\* counted the last of them: nothing interrupts waitpid().
SignalsSent ==
    /\ pending \in [{"processor"} -> {{}, {"SIGUSR2"}}]
    /\ frames \in [{"processor"} -> {<<>>, <<"SIGUSR2">>}]
    /\ signal_count \in Nat /\ batch \in Nat /\ signal_count + Uncounted < batch
    /\ batch <= MAX_SIGNALS + 1
    /\ creator_pc # "exit" => batch <= MAX_SIGNALS

\* What main() leaves.
Tidy ==
    /\ "mq_send" \in complaints
       \/ (creator_pc \in {"unborn", "exit"} /\ logger_pc \in {"unborn", "exit"})
    /\ \/ names = {}
       \/ /\ structure = "fixed" /\ complaints \cap {"fork creator", "fork logger"} # {}
          /\ names = {"shm", "mq"}

\* What has been made and started at each place.
Upkeep ==
    /\ SignalsSent
    /\ structure \in {"first", "fixed"}
    /\ at \in [{"processor"} -> ProcessorPlaces]
    /\ creator_pc \in {"unborn", "write", "signal", "exit"}
    /\ ProcessorAt \in {"sigaction", "shm_open", "mmap", "mq_open", "fork creator"} => creator_pc = "unborn"
    /\ ProcessorAt \in {"sigaction", "shm_open", "mmap", "mq_open", "fork creator", "fork logger"} => logger_pc = "unborn"
    /\ ProcessorAt = "shm_open" => names = {}
    /\ ProcessorAt = "sigaction" => names = IF structure = "fixed" THEN {} ELSE {"shm", "mq"}
    /\ ProcessorAt = "mmap" => names \subseteq {"shm"}
    /\ ProcessorAt = "mq_open" => names = {"shm"}
    /\ ProcessorAt \in {"fork creator", "fork logger"} => names = {"shm", "mq"}
    /\ ProcessorAt \in {"wait", "reap", "unlink"} /\ "mq_send" \notin complaints
          => signal_count >= MAX_SIGNALS
    /\ ProcessorAt = "unlink" /\ "mq_send" \notin complaints => logger_pc = "exit"
    /\ ProcessorAt = "exit" => Tidy

processorSteps == ProcessorNext /\ UNCHANGED courseVars

\* The order of the steps is that of one of the two versions.
\* One after the other in the order of this version.
Follows(step, next) ==
    \/ step = "sigaction" /\ next = IF structure = "fixed" THEN "shm_open" ELSE "fork creator"
    \/ step = "shm_open" /\ next = "mmap"
    \/ step = "mmap" /\ next = "mq_open"
    \/ step = "mq_open" /\ next = IF structure = "fixed" THEN "fork creator" ELSE "sigaction"
    \/ step = "fork creator" /\ next = "fork logger"
    \/ step = "fork logger" /\ next = "test"

LEMMA NextPlace ==
    ASSUME NEW step, step # "test", structure \in {"first", "fixed"}, Prepare(step)
    PROVE  \E next : Processor(step, next) /\ Follows(step, next)
<1>1. PICK i \in DOMAIN Steps : Steps[i] = step /\ Processor(step, Steps[i + 1]) BY DEF Prepare
<1>2. PICK next : next = Steps[i + 1] OBVIOUS
<1>3. Processor(step, next) BY <1>1, <1>2
<1>4. CASE structure = "fixed"
  <2>1. /\ DOMAIN Steps = 1 .. 7
        /\ Steps[1] = "sigaction" /\ Steps[2] = "shm_open" /\ Steps[3] = "mmap"
        /\ Steps[4] = "mq_open" /\ Steps[5] = "fork creator" /\ Steps[6] = "fork logger"
        /\ Steps[7] = "test"
    BY <1>4 DEF Steps
  <2>2. i \in 1 .. 6
    <3>1. i \in 1 .. 7
      <4>1. i \in DOMAIN Steps BY <1>1
      <4> QED BY <2>1, <4>1
    <3>2. i # 7 BY <1>1, <2>1
    <3> QED BY <3>1, <3>2
  <2>3. i = 1 \/ i = 2 \/ i = 3 \/ i = 4 \/ i = 5 \/ i = 6 BY <2>2
  <2>4. ASSUME i = 1 PROVE Follows(step, next)
    <3>1. i + 1 = 2 BY <2>4
    <3>2. step = "sigaction" /\ next = "shm_open" BY <1>1, <1>2, <2>1, <2>4, <3>1
    <3> QED BY <3>2, <1>4 DEF Follows
  <2>5. ASSUME i = 2 PROVE Follows(step, next)
    <3>1. i + 1 = 3 BY <2>5
    <3>2. step = "shm_open" /\ next = "mmap" BY <1>1, <1>2, <2>1, <2>5, <3>1
    <3> QED BY <3>2, <1>4 DEF Follows
  <2>6. ASSUME i = 3 PROVE Follows(step, next)
    <3>1. i + 1 = 4 BY <2>6
    <3>2. step = "mmap" /\ next = "mq_open" BY <1>1, <1>2, <2>1, <2>6, <3>1
    <3> QED BY <3>2, <1>4 DEF Follows
  <2>7. ASSUME i = 4 PROVE Follows(step, next)
    <3>1. i + 1 = 5 BY <2>7
    <3>2. step = "mq_open" /\ next = "fork creator" BY <1>1, <1>2, <2>1, <2>7, <3>1
    <3> QED BY <3>2, <1>4 DEF Follows
  <2>8. ASSUME i = 5 PROVE Follows(step, next)
    <3>1. i + 1 = 6 BY <2>8
    <3>2. step = "fork creator" /\ next = "fork logger" BY <1>1, <1>2, <2>1, <2>8, <3>1
    <3> QED BY <3>2, <1>4 DEF Follows
  <2>9. ASSUME i = 6 PROVE Follows(step, next)
    <3>1. i + 1 = 7 BY <2>9
    <3>2. step = "fork logger" /\ next = "test" BY <1>1, <1>2, <2>1, <2>9, <3>1
    <3> QED BY <3>2, <1>4 DEF Follows
  <2> QED BY <1>3, <2>3, <2>4, <2>5, <2>6, <2>7, <2>8, <2>9
<1>5. CASE structure = "first"
  <2>1. /\ DOMAIN Steps = 1 .. 7
        /\ Steps[1] = "shm_open" /\ Steps[2] = "mmap" /\ Steps[3] = "mq_open"
        /\ Steps[4] = "sigaction" /\ Steps[5] = "fork creator" /\ Steps[6] = "fork logger"
        /\ Steps[7] = "test"
    BY <1>5 DEF Steps
  <2>2. i \in 1 .. 6
    <3>1. i \in 1 .. 7
      <4>1. i \in DOMAIN Steps BY <1>1
      <4> QED BY <2>1, <4>1
    <3>2. i # 7 BY <1>1, <2>1
    <3> QED BY <3>1, <3>2
  <2>3. i = 1 \/ i = 2 \/ i = 3 \/ i = 4 \/ i = 5 \/ i = 6 BY <2>2
  <2>4. ASSUME i = 1 PROVE Follows(step, next)
    <3>1. i + 1 = 2 BY <2>4
    <3>2. step = "shm_open" /\ next = "mmap" BY <1>1, <1>2, <2>1, <2>4, <3>1
    <3> QED BY <3>2, <1>5 DEF Follows
  <2>5. ASSUME i = 2 PROVE Follows(step, next)
    <3>1. i + 1 = 3 BY <2>5
    <3>2. step = "mmap" /\ next = "mq_open" BY <1>1, <1>2, <2>1, <2>5, <3>1
    <3> QED BY <3>2, <1>5 DEF Follows
  <2>6. ASSUME i = 3 PROVE Follows(step, next)
    <3>1. i + 1 = 4 BY <2>6
    <3>2. step = "mq_open" /\ next = "sigaction" BY <1>1, <1>2, <2>1, <2>6, <3>1
    <3> QED BY <3>2, <1>5 DEF Follows
  <2>7. ASSUME i = 4 PROVE Follows(step, next)
    <3>1. i + 1 = 5 BY <2>7
    <3>2. step = "sigaction" /\ next = "fork creator" BY <1>1, <1>2, <2>1, <2>7, <3>1
    <3> QED BY <3>2, <1>5 DEF Follows
  <2>8. ASSUME i = 5 PROVE Follows(step, next)
    <3>1. i + 1 = 6 BY <2>8
    <3>2. step = "fork creator" /\ next = "fork logger" BY <1>1, <1>2, <2>1, <2>8, <3>1
    <3> QED BY <3>2, <1>5 DEF Follows
  <2>9. ASSUME i = 6 PROVE Follows(step, next)
    <3>1. i + 1 = 7 BY <2>9
    <3>2. step = "fork logger" /\ next = "test" BY <1>1, <1>2, <2>1, <2>9, <3>1
    <3> QED BY <3>2, <1>5 DEF Follows
  <2> QED BY <1>3, <2>3, <2>4, <2>5, <2>6, <2>7, <2>8, <2>9
<1> QED BY <1>4, <1>5

LEMMA HandledOne ==
    ASSUME SignalsSent, at \in [{"processor"} -> ProcessorPlaces], HandlerEnds("processor", "SIGUSR2")
    PROVE  /\ pending' \in [{"processor"} -> {{}, {"SIGUSR2"}}]
           /\ frames' \in [{"processor"} -> {<<>>, <<"SIGUSR2">>}]
           /\ Uncounted' = Uncounted - 1 /\ frames["processor"] = <<"SIGUSR2">>
           /\ at' = at \/ (ProcessorAt = "pause" /\ at' = [at EXCEPT !["processor"] = "woken"])
<1>1. frames["processor"] = <<"SIGUSR2">> BY DEF SignalsSent, HandlerEnds
<1>2. Front(frames["processor"]) = <<>> BY <1>1, Len(<<"SIGUSR2">>) = 1 DEF Front
<1>3. CASE /\ frames' = [frames EXCEPT !["processor"] = Front(@)] /\ UNCHANGED pending
           /\ at' = [at EXCEPT !["processor"] =
                        IF @ = "pause" /\ Len(frames["processor"]) = 1 THEN "woken" ELSE @]
  <2>1. frames' = [frames EXCEPT !["processor"] = <<>>] BY <1>2, <1>3
  <2>2. frames'["processor"] = <<>> /\ frames' \in [{"processor"} -> {<<>>, <<"SIGUSR2">>}]
    BY <2>1 DEF SignalsSent
  <2>3. at' = at \/ (ProcessorAt = "pause" /\ at' = [at EXCEPT !["processor"] = "woken"])
    BY <1>3 DEF ProcessorAt
  <2> QED BY <1>1, <1>3, <2>2, InAllIs, <2>3 DEF SignalsSent, Uncounted
<1>4. ASSUME NEW s \in pending["processor"],
             frames' = [frames EXCEPT !["processor"] = Append(Front(@), s)],
             pending' = [pending EXCEPT !["processor"] = @ \ {s}], UNCHANGED at
      PROVE  /\ pending' \in [{"processor"} -> {{}, {"SIGUSR2"}}]
             /\ frames' \in [{"processor"} -> {<<>>, <<"SIGUSR2">>}]
             /\ Uncounted' = Uncounted - 1
  <2>1. s = "SIGUSR2" /\ pending["processor"] = {"SIGUSR2"} BY <1>4 DEF SignalsSent
  <2>2. Append(<<>>, s) = <<"SIGUSR2">> BY <2>1
  <2>3. frames' = [frames EXCEPT !["processor"] = <<"SIGUSR2">>] BY <1>2, <1>4, <2>2
  <2>4. pending["processor"] \ {s} = {} BY <2>1
  <2>5. pending' = [pending EXCEPT !["processor"] = {}] BY <1>4, <2>4
  <2>6. frames'["processor"] = <<"SIGUSR2">> /\ pending'["processor"] = {} BY <2>3, <2>5 DEF SignalsSent
  <2>7. <<"SIGUSR2">> # <<>> OBVIOUS
  <2> QED BY <1>1, <2>1, <2>3, <2>5, <2>6, InAllIs, <2>7 DEF SignalsSent, Uncounted
<1>5. \/ \E s \in pending["processor"] :
            /\ frames' = [frames EXCEPT !["processor"] = Append(Front(@), s)]
            /\ pending' = [pending EXCEPT !["processor"] = @ \ {s}] /\ UNCHANGED at
      \/ /\ frames' = [frames EXCEPT !["processor"] = Front(@)] /\ UNCHANGED pending
         /\ at' = [at EXCEPT !["processor"] =
                      IF @ = "pause" /\ Len(frames["processor"]) = 1 THEN "woken" ELSE @]
  BY DEF HandlerEnds
<1> QED BY <1>1, <1>3, <1>4, <1>5

\* One more handler begins.
LEMMA TakenOne ==
    ASSUME SignalsSent, Interrupt("processor", "SIGUSR2")
    PROVE  /\ pending' \in [{"processor"} -> {{}, {"SIGUSR2"}}]
           /\ frames' \in [{"processor"} -> {<<>>, <<"SIGUSR2">>}]
           /\ Uncounted' = Uncounted
<1>1. "SIGUSR2" \in pending["processor"] /\ "SIGUSR2" \notin ToSet(frames["processor"]) BY DEF Interrupt
<1>2. pending["processor"] = {"SIGUSR2"} BY <1>1 DEF SignalsSent
<1>3. frames["processor"] = <<>>
  <2>1. ToSet(<<"SIGUSR2">>) = {"SIGUSR2"} BY Len(<<"SIGUSR2">>) = 1 DEF ToSet
  <2> QED BY <1>1, <2>1 DEF SignalsSent
<1>4. Append(<<>>, "SIGUSR2") = <<"SIGUSR2">> /\ <<"SIGUSR2">> # <<>> OBVIOUS
<1>5. frames' = [frames EXCEPT !["processor"] = <<"SIGUSR2">>] BY <1>3, <1>4 DEF Interrupt
<1>6. pending["processor"] \ {"SIGUSR2"} = {} BY <1>2
<1>7. pending' = [pending EXCEPT !["processor"] = {}] BY <1>6 DEF Interrupt
<1>8. frames'["processor"] = <<"SIGUSR2">> /\ pending'["processor"] = {} BY <1>5, <1>7 DEF SignalsSent
<1> QED BY <1>2, <1>3, <1>4, <1>5, <1>7, InAllIs, <1>8 DEF SignalsSent, Uncounted

\* When all signals are counted the creator is through.
LEMMA AllSent == ASSUME SignalsSent, signal_count >= MAX_SIGNALS PROVE creator_pc = "exit"
<1>1. Uncounted \in 0 .. 2 BY InAllIs DEF Uncounted
<1>2. batch > MAX_SIGNALS BY <1>1, ProcessorAssumption DEF SignalsSent
<1> QED BY <1>2, ProcessorAssumption DEF SignalsSent

\* The counting of a signal, and its sending, which may merge with another.
LEMMA CountedOne ==
    ASSUME SignalsSent, UNCHANGED <<creator_pc, batch>>, signal_count' = signal_count + 1,
           pending' \in [{"processor"} -> {{}, {"SIGUSR2"}}],
           frames' \in [{"processor"} -> {<<>>, <<"SIGUSR2">>}], Uncounted' = Uncounted - 1
    PROVE  SignalsSent' /\ (signal_count >= MAX_SIGNALS => signal_count' >= MAX_SIGNALS)
<1>1. Uncounted \in Nat BY InAllIs DEF Uncounted
<1>2. signal_count + Uncounted = signal_count' + Uncounted' /\ signal_count' \in Nat
  BY <1>1 DEF SignalsSent
<1>3. signal_count >= MAX_SIGNALS => signal_count' >= MAX_SIGNALS BY ProcessorAssumption DEF SignalsSent
<1> QED BY <1>2, <1>3 DEF SignalsSent

LEMMA OneMore ==
    ASSUME NEW n \in Nat, NEW u \in Nat, NEW v \in Nat, NEW b \in Nat, n + u < b, v <= u + 1
    PROVE  n + v < b + 1
OBVIOUS

LEMMA SentOne ==
    ASSUME SignalsSent, UNCHANGED <<signal_count, frames>>, creator_pc = "signal", batch' = batch + 1,
           creator_pc' = IF batch' > MAX_SIGNALS THEN "exit" ELSE "write", Post("processor", "SIGUSR2")
    PROVE  SignalsSent'
<1>1. pending' \in [{"processor"} -> {{}, {"SIGUSR2"}}]
  <2>1. pending["processor"] \cup {"SIGUSR2"} = {"SIGUSR2"} BY DEF SignalsSent
  <2>2. pending' = pending \/ pending' = [pending EXCEPT !["processor"] = {"SIGUSR2"}] BY <2>1 DEF Post
  <2> QED BY <2>2 DEF SignalsSent
<1>2. Uncounted \in 0 .. 2 /\ Uncounted' \in 0 .. 2 BY InAllIs DEF Uncounted
<1>3. Uncounted' <= Uncounted + 1
  <2>1. CASE frames["processor"] = <<>>
    <3>1. Uncounted' \in {0, 1}
      <4>1. CASE pending'["processor"] = {} BY <2>1, <4>1, InAllIs DEF Uncounted
      <4>2. CASE pending'["processor"] # {} BY <2>1, <4>2, InAllIs DEF Uncounted
      <4> QED BY <4>1, <4>2
    <3> QED BY <1>2, <3>1
  <2>2. CASE frames["processor"] # <<>>
    <3>1. Uncounted \in {1, 2}
      <4>1. CASE pending["processor"] = {} BY <2>2, <4>1, InAllIs DEF Uncounted
      <4>2. CASE pending["processor"] # {} BY <2>2, <4>2, InAllIs DEF Uncounted
      <4> QED BY <4>1, <4>2
    <3> QED BY <1>2, <3>1
  <2> QED BY <2>1, <2>2
<1>4. signal_count \in Nat /\ batch \in Nat /\ batch <= MAX_SIGNALS /\ signal_count + Uncounted < batch
  BY DEF SignalsSent
<1>5. signal_count' + Uncounted' < batch' /\ batch' \in Nat
  <2>2. Uncounted \in Nat /\ Uncounted' \in Nat BY <1>2
  <2>3. signal_count + Uncounted' < batch + 1 BY <1>3, <1>4, <2>2, OneMore
  <2> QED BY <1>4, <2>3
<1>6. batch' <= MAX_SIGNALS + 1 /\ (creator_pc' # "exit" => batch' <= MAX_SIGNALS)
  BY <1>4, ProcessorAssumption
<1> QED BY <1>1, <1>5, <1>6 DEF SignalsSent

LEMMA InterruptedOne ==
    ASSUME frames["processor"] # <<>>, frames'["processor"] = <<>>, UNCHANGED pending
    PROVE  Uncounted' = Uncounted - 1 /\ Uncounted \in {1, 2}
<1>1. CASE pending["processor"] = {} BY <1>1, InAllIs DEF Uncounted
<1>2. CASE pending["processor"] # {} BY <1>2, InAllIs DEF Uncounted
<1> QED BY <1>1, <1>2

LEMMA CountAgainst ==
    ASSUME SignalsSent, ~(signal_count < MAX_SIGNALS) PROVE signal_count >= MAX_SIGNALS
BY ProcessorAssumption DEF SignalsSent

LEMMA NotAllCounted ==
    ASSUME SignalsSent, Uncounted \in {1, 2} PROVE ~(signal_count >= MAX_SIGNALS)
BY ProcessorAssumption DEF SignalsSent

\* A step of the children.
LEMMA UpkeepOfChildren == ASSUME Upkeep, DataCreator \/ DataLogger PROVE Upkeep'
<1> USE DEF Upkeep, ProcessorAt, ProcessorPlaces
<1>1. CASE DataCreator /\ WriteElement
  <2>1. /\ UNCHANGED <<at, pending, frames, names, complaints, structure, logger_pc, signal_count, batch>>
        /\ creator_pc = "write" /\ creator_pc' \in {"write", "signal"}
    BY <1>1 DEF DataCreator, WriteElement, processorVars, signalVars
  <2>2. SignalsSent' BY <2>1, InAllIs DEF SignalsSent, Uncounted
  <2>3. Tidy => Tidy' BY <2>1 DEF Tidy
  <2> QED BY <2>1, <2>2, <2>3
<1>2. CASE DataCreator /\ SignalProcessor
  <2>1. /\ UNCHANGED <<at, frames, names, complaints, structure, logger_pc, signal_count>>
        /\ creator_pc = "signal" /\ batch' = batch + 1 /\ Post("processor", "SIGUSR2")
        /\ creator_pc' = IF batch' > MAX_SIGNALS THEN "exit" ELSE "write"
    BY <1>2 DEF DataCreator, SignalProcessor, processorVars
  <2>2. SignalsSent' BY <2>1, SentOne
  <2>3. Tidy => Tidy' BY <2>1 DEF Tidy
  <2> QED BY <2>1, <2>2, <2>3
<1>3. CASE DataLogger
  <2>1. /\ UNCHANGED <<at, pending, frames, names, complaints, structure, creator_pc, signal_count, batch>>
        /\ logger_pc = "receive"
    BY <1>3 DEF DataLogger, processorVars, signalVars
  <2>2. SignalsSent' BY <2>1, InAllIs DEF SignalsSent, Uncounted
  <2>3. Tidy => Tidy' BY <2>1 DEF Tidy
  <2> QED BY <2>1, <2>2, <2>3
<1> QED BY <1>1, <1>2, <1>3 DEF DataCreator

\* main() as far as the loop.
LEMMA UpkeepOfStart ==
    ASSUME Upkeep, InstallSignalHandler \/ CreateObjects \/ ForkCreator \/ ForkLogger \/ ForkFails,
           UNCHANGED <<pending, frames>>
    PROVE  Upkeep'
<1> USE DEF Upkeep, ProcessorAt, ProcessorPlaces
<1>1. CASE InstallSignalHandler
  <2>0. UNCHANGED <<structure, creator_pc, logger_pc, signal_count, batch>> BY <1>1 DEF InstallSignalHandler
  <2>1. SignalsSent' BY <2>0, InAllIs DEF SignalsSent, Uncounted
  <2>2. CASE Prepare("sigaction") /\ UNCHANGED <<names, complaints>>
    <3>1. \E next : Processor("sigaction", next) /\ Follows("sigaction", next) BY <2>2, NextPlace
    <3> QED BY <2>0, <2>1, <2>2, <3>1 DEF Follows, Processor, Goes
  <2>3. CASE GiveUp("sigaction") /\ names' = {}
    BY <2>0, <2>1, <2>3 DEF GiveUp, Processor, Goes, Tidy
  <2> QED BY <1>1, <2>2, <2>3 DEF InstallSignalHandler
<1>2. CASE CreateObjects
  <2>0. UNCHANGED <<structure, creator_pc, logger_pc, signal_count, batch>> BY <1>2 DEF CreateObjects
  <2>1. SignalsSent' BY <2>0, InAllIs DEF SignalsSent, Uncounted
  <2>2. CASE Prepare("shm_open") /\ (names' = names \cup {"shm"} \/ UNCHANGED names) /\ UNCHANGED complaints
    <3>1. \E next : Processor("shm_open", next) /\ Follows("shm_open", next) BY <2>2, NextPlace
    <3> QED BY <2>0, <2>1, <2>2, <3>1 DEF Follows, Processor, Goes
  <2>3. CASE "shm" \in names /\ Prepare("mmap") /\ UNCHANGED <<names, complaints>>
    <3>1. \E next : Processor("mmap", next) /\ Follows("mmap", next) BY <2>3, NextPlace
    <3> QED BY <2>0, <2>1, <2>3, <3>1 DEF Follows, Processor, Goes
  <2>4. CASE Prepare("mq_open") /\ names' = names \cup {"mq"} /\ UNCHANGED complaints
    <3>1. \E next : Processor("mq_open", next) /\ Follows("mq_open", next) BY <2>4, NextPlace
    <3> QED BY <2>0, <2>1, <2>4, <3>1 DEF Follows, Processor, Goes
  <2>5. CASE GiveUp("shm_open") /\ UNCHANGED names
    BY <2>0, <2>1, <2>5 DEF GiveUp, Processor, Goes, Tidy
  <2>6. CASE (GiveUp("mmap") \/ GiveUp("mq_open")) /\ names' = names \ {"shm"}
    BY <2>0, <2>1, <2>6 DEF GiveUp, Processor, Goes, Tidy
  <2> QED BY <1>2, <2>2, <2>3, <2>4, <2>5, <2>6 DEF CreateObjects
<1>3. CASE ForkCreator
  <2>1. /\ UNCHANGED <<structure, names, logger_pc, signal_count, batch>> /\ Prepare("fork creator")
        /\ creator_pc' \in {"write", "exit"} /\ complaints' \in {complaints, complaints \cup {"execl creator"}}
    BY <1>3 DEF ForkCreator, Complain
  <2>2. \E next : Processor("fork creator", next) /\ Follows("fork creator", next) BY <2>1, NextPlace
  <2>3. ProcessorAt' = "fork logger" /\ at' \in [{"processor"} -> ProcessorPlaces]
        /\ ProcessorAt = "fork creator"
    BY <2>2 DEF Follows, Processor, Goes
  <2>4. ForkCreator /\ creator_pc = "unborn" BY <1>3, <2>3
  <2>5. SignalsSent' BY <2>1, InAllIs, <2>4 DEF SignalsSent, Uncounted
  <2> QED BY <2>1, <2>3, <2>5
<1>4. CASE ForkLogger
  <2>1. /\ UNCHANGED <<structure, names, creator_pc, signal_count, batch>> /\ Prepare("fork logger")
        /\ complaints' \in {complaints, complaints \cup {"execl logger"}}
    BY <1>4 DEF ForkLogger, Complain
  <2>2. \E next : Processor("fork logger", next) /\ Follows("fork logger", next) BY <2>1, NextPlace
  <2>3. ProcessorAt' = "test" /\ at' \in [{"processor"} -> ProcessorPlaces] /\ ProcessorAt = "fork logger"
    BY <2>2 DEF Follows, Processor, Goes
  <2>4. SignalsSent' BY <2>1, InAllIs DEF SignalsSent, Uncounted
  <2> QED BY <2>1, <2>3, <2>4
<1>5. CASE ForkFails
  <2>0. UNCHANGED <<structure, logger_pc, signal_count, batch>> /\ creator_pc' \in {creator_pc, "exit"}
    BY <1>5 DEF ForkFails
  <2>1. SignalsSent' BY <2>0, InAllIs DEF SignalsSent, Uncounted
  <2>2. CASE GiveUp("fork creator") /\ UNCHANGED creator_pc
    BY <1>5, <2>0, <2>1, <2>2 DEF ForkFails, GiveUp, Complain, Processor, Goes, Tidy
  <2>3. CASE GiveUp("fork logger") /\ creator_pc' = "exit"
    BY <1>5, <2>0, <2>1, <2>3 DEF ForkFails, GiveUp, Complain, Processor, Goes, Tidy
  <2> QED BY <1>5, <2>2, <2>3 DEF ForkFails
<1> QED BY <1>1, <1>2, <1>3, <1>4, <1>5

\* main() from the loop on.
LEMMA UpkeepOfLoop ==
    ASSUME Upkeep,
           \/ TestCount \/ StartSum \/ AddElement \/ SendAverage \/ WaitForChildren
           \/ CallPause("processor") /\ UNCHANGED dataVars,
           UNCHANGED <<pending, frames>>
    PROVE  Upkeep'
<1> USE DEF Upkeep, ProcessorAt, ProcessorPlaces
<1>0. UNCHANGED <<structure, creator_pc, logger_pc, signal_count, batch>>
  BY DEF TestCount, StartSum, AddElement, SendAverage, WaitForChildren, dataVars, processorVars
<1>1. SignalsSent' BY <1>0, InAllIs DEF SignalsSent, Uncounted
<1>3. CASE TestCount
  <2>1. UNCHANGED <<names, complaints>>
        /\ Processor("test", IF signal_count < MAX_SIGNALS THEN "call" ELSE "wait")
    BY <1>3 DEF TestCount, dataVars, processorVars
  <2>2. CASE signal_count < MAX_SIGNALS BY <1>0, <1>1, <2>1, <2>2 DEF Processor, Goes
  <2>3. CASE ~(signal_count < MAX_SIGNALS)
    <3>1. signal_count >= MAX_SIGNALS BY <2>3, CountAgainst
    <3> QED BY <1>0, <1>1, <2>1, <2>3, <3>1 DEF Processor, Goes
  <2> QED BY <2>2, <2>3
<1>4. CASE StartSum BY <1>0, <1>1, <1>4 DEF StartSum, Processor, Goes, processorVars
<1>5. CASE AddElement BY <1>0, <1>1, <1>5 DEF AddElement, Processor, Goes, processorVars
<1>6. CASE SendAverage
  <2>1. CASE Processor("sum", "test") /\ UNCHANGED <<names, complaints>>
    BY <1>0, <1>1, <2>1 DEF Processor, Goes
  <2>2. CASE Processor("sum", "wait") /\ Complain("mq_send") /\ UNCHANGED names
    BY <1>0, <1>1, <2>2 DEF Processor, Goes, Complain
  <2> QED BY <1>6, <2>1, <2>2 DEF SendAverage
<1>7. CASE WaitForChildren
  <2>0. UNCHANGED complaints BY <1>7 DEF WaitForChildren
  <2>1. CASE Processor("wait", "reap") /\ UNCHANGED names
    BY <1>0, <1>1, <2>0, <2>1 DEF Processor, Goes
  <2>2. CASE Processor("reap", "unlink") /\ logger_pc = "exit" /\ UNCHANGED names
    BY <1>0, <1>1, <2>0, <2>2 DEF Processor, Goes
  <2>3. CASE Processor("unlink", "exit") /\ names' = {}
    <3>1. Tidy'
      <4>1. CASE "mq_send" \in complaints BY <2>0, <2>3, <4>1 DEF Tidy
      <4>2. CASE "mq_send" \notin complaints
        <5>1. ProcessorAt = "unlink" BY <2>3 DEF Processor, Goes
        <5>2. logger_pc = "exit" /\ signal_count >= MAX_SIGNALS BY <4>2, <5>1
        <5>3. creator_pc \in {"unborn", "exit"} BY <5>2, AllSent
        <5> QED BY <1>0, <2>3, <5>2, <5>3 DEF Tidy
      <4> QED BY <4>1, <4>2
    <3> QED BY <1>0, <1>1, <2>0, <2>3, <3>1 DEF Processor, Goes
  <2> QED BY <1>7, <2>1, <2>2, <2>3 DEF WaitForChildren
<1>8. CASE CallPause("processor") /\ UNCHANGED dataVars
  BY <1>0, <1>1, <1>8 DEF CallPause, Goes, dataVars, processorVars
<1> QED BY <1>3, <1>4, <1>5, <1>6, <1>7, <1>8

\* The handler: it interrupts waitpid() only where mq_send has failed.
LEMMA UpkeepOfHandler ==
    ASSUME Upkeep, SignalHandler \/ (Interrupt("processor", "SIGUSR2") /\ UNCHANGED dataVars)
    PROVE  Upkeep'
<1> USE DEF Upkeep, ProcessorAt, ProcessorPlaces
<1>0. UNCHANGED <<structure, names, complaints, creator_pc, logger_pc, batch>>
  BY DEF SignalHandler, dataVars, processorVars
<1>1. Tidy => Tidy' BY <1>0 DEF Tidy
<1>3. CASE SignalHandler /\ HandlerEnds("processor", "SIGUSR2")
  <2>1. signal_count' = signal_count + 1 BY <1>3 DEF SignalHandler
  <2>2. SignalsSent' /\ (signal_count >= MAX_SIGNALS => signal_count' >= MAX_SIGNALS)
    BY <1>0, <1>3, <2>1, HandledOne, CountedOne
  <2>3. at' = at \/ (ProcessorAt = "pause" /\ at' = [at EXCEPT !["processor"] = "woken"]) BY <1>3, HandledOne
  <2> QED BY <1>0, <1>1, <2>2, <2>3
<1>4. CASE SignalHandler /\ InterruptsWait
  <2>1. /\ signal_count' = signal_count + 1 /\ UNCHANGED pending
        /\ frames["processor"] = <<"SIGUSR2">> /\ frames' = [frames EXCEPT !["processor"] = <<>>]
        /\ \/ ProcessorAt = "wait" /\ at' = [at EXCEPT !["processor"] = "reap"]
           \/ ProcessorAt = "reap" /\ at' = [at EXCEPT !["processor"] = "unlink"]
    BY <1>4 DEF SignalHandler, InterruptsWait
  <2>2. frames' \in [{"processor"} -> {<<>>, <<"SIGUSR2">>}] /\ frames'["processor"] = <<>> BY <2>1 DEF SignalsSent
  <2>3. Uncounted' = Uncounted - 1 /\ Uncounted \in {1, 2} 
    BY <2>1, <2>2, InterruptedOne, <<"SIGUSR2">> # <<>>
  <2>4. SignalsSent' BY <1>0, <2>1, <2>2, <2>3, CountedOne DEF SignalsSent
  <2>5. "mq_send" \in complaints
    <3>1. ~(signal_count >= MAX_SIGNALS) BY <2>3, NotAllCounted
    <3> QED BY <2>1, <3>1
  <2> QED BY <1>0, <2>1, <2>4, <2>5
<1>5. CASE Interrupt("processor", "SIGUSR2") /\ UNCHANGED dataVars
  <2>1. UNCHANGED <<at, signal_count>> BY <1>5 DEF Interrupt, dataVars
  <2>2. SignalsSent' BY <1>0, <1>5, <2>1, TakenOne DEF SignalsSent
  <2> QED BY <1>0, <1>1, <2>1, <2>2
<1> QED BY <1>3, <1>4, <1>5 DEF SignalHandler

LEMMA UpkeepStep == ASSUME Upkeep, ProcessorNext PROVE Upkeep'
<1>1. CASE DataCreator \/ DataLogger BY <1>1, UpkeepOfChildren
<1>2. CASE DataProcessor
  <2>1. CASE InstallSignalHandler \/ CreateObjects \/ ForkCreator \/ ForkLogger \/ ForkFails
    <3>1. UNCHANGED <<pending, frames>>
      BY <2>1 DEF InstallSignalHandler, CreateObjects, ForkCreator, ForkLogger, ForkFails, GiveUp,
                  Prepare, Processor
    <3> QED BY <2>1, <3>1, UpkeepOfStart
  <2>2. CASE \/ TestCount \/ StartSum \/ AddElement \/ SendAverage \/ WaitForChildren
             \/ CallPause("processor") /\ UNCHANGED dataVars
    <3>1. UNCHANGED <<pending, frames>>
      BY <2>2 DEF TestCount, StartSum, AddElement, SendAverage, WaitForChildren, CallPause, Processor
    <3> QED BY <2>2, <3>1, UpkeepOfLoop
  <2>3. CASE SignalHandler \/ (Interrupt("processor", "SIGUSR2") /\ UNCHANGED dataVars)
    BY <2>3, UpkeepOfHandler
  <2> QED BY <1>2, <2>1, <2>2, <2>3 DEF DataProcessor
<1> QED BY <1>1, <1>2 DEF ProcessorNext

LEMMA UpkeepAlways == ProcessorSpec => []Upkeep
<1>1. ProcessorInit /\ ProcessorPausing => Upkeep
  <2> SUFFICES ASSUME ProcessorInit, ProcessorPausing PROVE Upkeep OBVIOUS
  <2>1. SignalsSent BY ProcessorAssumption, InAllIs DEF ProcessorInit, ProcessorPausing, SignalsSent, Uncounted
  <2> QED BY <2>1 DEF ProcessorInit, ProcessorPausing, Upkeep, ProcessorAt, ProcessorPlaces, Steps
<1>2. Upkeep /\ [processorSteps]_<<dataVars, signalVars, courseVars>> => Upkeep'
  <2> SUFFICES ASSUME Upkeep, [processorSteps]_<<dataVars, signalVars, courseVars>> PROVE Upkeep' OBVIOUS
  <2>1. CASE processorSteps BY <2>1, UpkeepStep DEF processorSteps
  <2>2. CASE UNCHANGED <<dataVars, signalVars>>
    <3>1. UNCHANGED <<at, pending, frames, names, complaints, structure, creator_pc, logger_pc,
                      signal_count, batch>>
      BY <2>2 DEF dataVars, processorVars, signalVars
    <3>2. SignalsSent' /\ (Tidy => Tidy') BY <3>1 DEF Upkeep, SignalsSent, Uncounted, Tidy
    <3> QED BY <3>1, <3>2 DEF Upkeep, ProcessorAt
  <2> QED BY <2>1, <2>2
<1> QED BY <1>1, <1>2, PTL DEF ProcessorSpec, processorSteps

\* For any number of elements and batches, either version, and whichever call
\* fails: where main() leaves, the children have ended, unless mq_send has failed,
\* and the names are unlinked, unless a fork has failed in the fixed version.
THEOREM LeavesNothing == ProcessorSpec => []NothingLeftBehind
<1>1. Upkeep => NothingLeftBehind BY DEF Upkeep, Tidy, ProcessorAt, NothingLeftBehind
<1> QED BY <1>1, UpkeepAlways, PTL

-----------------------------------------------------------------------------
(* Processes that wait in pause() *)

LEMMA HandlerAlone ==
    ASSUME NEW p, NEW s, NEW t, p \in DOMAIN frames, p \in DOMAIN at,
           frames[p] = <<s>>, pending[p] = {}, HandlerEnds(p, t)
    PROVE  /\ t = s
           /\ frames' = [frames EXCEPT ![p] = <<>>]
           /\ at' = [at EXCEPT ![p] = IF @ = "pause" THEN "woken" ELSE @]
           /\ UNCHANGED <<pending, handles>>
<1>1. Len(<<s>>) = 1 /\ <<s>>[1] = s OBVIOUS
<1>2. Last(frames[p]) = s BY <1>1 DEF Last
<1>3. Front(frames[p]) = <<>> BY <1>1 DEF Front
<1> DEFINE deliverable == (pending[p] \cap handles[p]) \ ToSet(Front(frames[p]))
<1>4. deliverable = {} OBVIOUS
<1>5. /\ frames[p] # <<>> /\ Last(frames[p]) = t
      /\ \/ \E u \in deliverable :
             /\ frames' = [frames EXCEPT ![p] = Append(Front(@), u)]
             /\ pending' = [pending EXCEPT ![p] = @ \ {u}]
             /\ UNCHANGED at
         \/ /\ deliverable = {}
            /\ frames' = [frames EXCEPT ![p] = Front(@)]
            /\ at' = [at EXCEPT ![p] = IF @ = "pause" /\ Len(frames[p]) = 1 THEN "woken" ELSE @]
            /\ UNCHANGED pending
      /\ UNCHANGED handles
  BY DEF HandlerEnds
<1> HIDE DEF deliverable
<1>6. frames' = [frames EXCEPT ![p] = Front(@)] /\ UNCHANGED <<pending, handles>>
      /\ at' = [at EXCEPT ![p] = IF @ = "pause" /\ Len(frames[p]) = 1 THEN "woken" ELSE @]
  BY <1>4, <1>5
<1>7. frames' = [frames EXCEPT ![p] = <<>>] BY <1>3, <1>6
<1>8. Len(frames[p]) = 1 BY <1>1
<1> QED BY <1>2, <1>5, <1>6, <1>7, <1>8

LEMMA InterruptAlone ==
    ASSUME NEW p, NEW s, NEW t, p \in DOMAIN frames, p \in DOMAIN pending,
           frames[p] = <<>>, pending[p] = {s}, Interrupt(p, t)
    PROVE  /\ t = s
           /\ frames' = [frames EXCEPT ![p] = <<s>>]
           /\ pending' = [pending EXCEPT ![p] = {}]
           /\ UNCHANGED <<at, handles>>
<1>1. t = s BY DEF Interrupt
<1>2. frames' = [frames EXCEPT ![p] = Append(@, t)] /\ pending' = [pending EXCEPT ![p] = @ \ {t}] /\ UNCHANGED <<at, handles>>
  BY DEF Interrupt
<1>3. Append(frames[p], t) = <<s>> BY <1>1
<1>4. pending[p] \ {t} = {} BY <1>1
<1> QED BY <1>1, <1>2, <1>3, <1>4

-----------------------------------------------------------------------------
(* The director and the actor *)

AtDirector == at["director"]
AtActor == at["actor"]

\* The places after some line was spoken.
DirectorOpened == AtDirector \notin {"fork", "opening"}
DirectorCued == DirectorOpened /\ AtDirector \notin {"install", "cue"}
ActorEntered == AtActor \notin {"unborn", "ready"}
ActorCued == AtActor \in {"speech", "answer", "exit"}

Lines ==
    (IF ~DirectorOpened THEN 0 ELSE IF ~DirectorCued THEN 1
     ELSE IF AtDirector = "closing" THEN 3 ELSE IF AtDirector \in {"sigkill", "exit"} THEN 4 ELSE 2)
    + IF ~ActorEntered THEN 0 ELSE IF AtActor = "speech" THEN 2 ELSE IF AtActor \in {"answer", "exit"} THEN 4 ELSE 1

PlayShape ==
    /\ at \in [Cast -> {"fork", "opening", "install", "cue", "kill", "call", "pause", "woken", "closing",
                        "sigkill", "exit", "unborn", "ready", "speech", "answer", "killed"}]
    /\ pending \in [Cast -> SUBSET {"SIGUSR1", "SIGUSR2"}]
    /\ handles \in [Cast -> SUBSET {"SIGUSR1", "SIGUSR2"}]
    /\ frames \in [Cast -> {<<>>, <<"SIGUSR1">>, <<"SIGUSR2">>}]
    /\ actor_ready \in BOOLEAN /\ director_ready \in BOOLEAN
    /\ spoken \in Seq(Cast)

\* Nothing before the cue reaches the actor, and nothing after it a second time.
ActorState ==
    /\ AtActor \in {"unborn", "ready", "install", "call", "pause", "woken", "speech", "answer", "exit", "killed"}
    /\ AtActor = "unborn" <=> AtDirector = "fork"
    /\ AtActor # "killed" => handles["actor"] = IF AtActor \in {"unborn", "ready", "install"} THEN {} ELSE {"SIGUSR1"}
    /\ pending["actor"] \subseteq {"SIGUSR1"} /\ frames["actor"] \in {<<>>, <<"SIGUSR1">>}
    /\ frames["actor"] # <<>> => pending["actor"] = {} /\ AtActor \in {"call", "pause"} /\ ~actor_ready
    /\ pending["actor"] # {} => ~actor_ready
    /\ ~DirectorCued \/ AtDirector = "kill"
         => /\ pending["actor"] = {} /\ frames["actor"] = <<>> /\ ~actor_ready
            /\ AtActor \in {"unborn", "ready", "install", "call", "pause"}
    /\ AtActor \in {"woken", "speech", "answer", "exit"} => actor_ready
    /\ AtActor = "killed" => pending["actor"] = {} /\ frames["actor"] = <<>> /\ AtDirector \in {"call", "pause"}

\* Nothing before the answer reaches the director.
DirectorState ==
    /\ AtDirector \in {"fork", "opening", "install", "cue", "kill", "call", "pause", "woken", "closing", "sigkill", "exit"}
    /\ handles["director"] = IF AtDirector \in {"fork", "opening", "install"} THEN {} ELSE {"SIGUSR2"}
    /\ pending["director"] \subseteq {"SIGUSR2"} /\ frames["director"] \in {<<>>, <<"SIGUSR2">>}
    /\ frames["director"] # <<>> => pending["director"] = {} /\ ~director_ready /\ AtDirector \in {"call", "pause"}
    /\ pending["director"] # {} => ~director_ready /\ AtDirector \in {"call", "pause"}
    /\ (pending["director"] # {} \/ frames["director"] # <<>> \/ director_ready) => AtActor = "exit"
    /\ AtDirector \in {"woken", "closing", "sigkill", "exit"} => director_ready

SpokenSoFar ==
    /\ IF AtActor = "killed" THEN Len(spoken) \in 2 .. 3 ELSE Len(spoken) = Lines
    /\ DirectorOpened => \E i \in 1 .. 3 : i <= Len(spoken) /\ spoken[i] = "director"
    /\ ActorEntered /\ AtActor # "killed" => \E i \in 1 .. 3 : i <= Len(spoken) /\ spoken[i] = "actor"
    /\ AtActor \in {"speech", "answer", "exit"} => spoken[4] = "actor"
    /\ AtActor \in {"answer", "exit"} => spoken[5] = "actor" /\ spoken[6] = "actor"
    /\ AtDirector \in {"closing", "sigkill", "exit"} => spoken[7] = "director"
    /\ AtDirector \in {"sigkill", "exit"} => spoken[8] = "director"

\* At a proper pace the actor waits before the director goes on.
ActorInTime ==
    Calm => /\ AtDirector = "cue" => AtActor = "pause"
            /\ DirectorCued => AtActor \in {"pause", "woken", "speech", "answer", "exit"} /\ spoken[3] = "director"

PlayInv == PlayShape /\ ActorState /\ DirectorState /\ SpokenSoFar /\ ActorInTime

playSteps == PlayNext /\ UNCHANGED courseVars

LEMMA SaysLines ==
    ASSUME spoken \in Seq(Cast), NEW p \in Cast, NEW n \in Nat, Says(p, n)
    PROVE  /\ spoken' \in Seq(Cast) /\ Len(spoken') = Len(spoken) + n
           /\ \A i \in 1 .. Len(spoken) : spoken'[i] = spoken[i]
           /\ \A i \in Len(spoken) + 1 .. Len(spoken) + n : spoken'[i] = p
<1> DEFINE t == [i \in 1 .. n |-> p]
<1>1. t \in Seq(Cast) /\ Len(t) = n /\ \A i \in 1 .. n : t[i] = p OBVIOUS
<1>2. spoken' = spoken \o t BY DEF Says
<1> HIDE DEF t
<1>3. \A i \in Len(spoken) + 1 .. Len(spoken) + n : i - Len(spoken) \in 1 .. n OBVIOUS
<1>4. Len(spoken) \in Nat OBVIOUS
<1>5. /\ spoken \o t \in Seq(Cast) /\ Len(spoken \o t) = Len(spoken) + n
      /\ \A i \in 1 .. Len(spoken) + n :
           (spoken \o t)[i] = IF i <= Len(spoken) THEN spoken[i] ELSE t[i - Len(spoken)]
  BY <1>1, ConcatProperties
<1>6. \A i \in 1 .. Len(spoken) : i \in 1 .. Len(spoken) + n /\ i <= Len(spoken) BY <1>4
<1>7. \A i \in Len(spoken) + 1 .. Len(spoken) + n : i \in 1 .. Len(spoken) + n /\ ~(i <= Len(spoken)) BY <1>4
<1> QED BY <1>1, <1>2, <1>3, <1>5, <1>6, <1>7

\* The handlers of signals leave what was spoken, and a step of one process the
\* state of the other one.
LEMMA PlayActorStep == ASSUME PlayInv, Actor, UNCHANGED courseVars PROVE PlayInv'
<1> USE DEF PlayInv, PlayShape, ActorState, DirectorState, DirectorOpened, DirectorCued, ActorEntered, AtDirector, AtActor, Cast
<1>1. CASE ActorEnters /\ UNCHANGED <<actor_ready, director_ready>>
  <2>1. Says("actor", 1) /\ UNCHANGED <<pending, handles, frames>> /\ Goes("actor", "ready", "install") 
    BY <1>1 DEF ActorEnters
  <2>2. /\ spoken' \in Seq(Cast) /\ Len(spoken') = Len(spoken) + 1
        /\ \A i \in 1 .. Len(spoken) : spoken'[i] = spoken[i]
        /\ spoken'[Len(spoken) + 1] = "actor"
    BY <2>1, SaysLines
  <2>3. PlayShape' /\ ActorState' /\ DirectorState' BY <1>1, <2>1, <2>2 DEF Goes
  <2>4. SpokenSoFar' BY <1>1, <2>1, <2>2 DEF SpokenSoFar, Lines, Goes
  <2>5. ActorInTime' BY <1>1, <2>1, <2>2 DEF ActorInTime, SpokenSoFar, Lines, Goes, courseVars, Calm
  <2> QED BY <2>3, <2>4, <2>5
<1>2. CASE ActorInstalls /\ UNCHANGED <<actor_ready, director_ready>>
  <2>1. /\ Goes("actor", "install", "call") /\ Install("actor", "SIGUSR1") /\ UNCHANGED <<spoken, pending, frames>>
    BY <1>2 DEF ActorInstalls
  <2>2. PlayShape' /\ ActorState' /\ DirectorState' BY <1>2, <2>1 DEF Goes, Install
  <2>3. SpokenSoFar' /\ ActorInTime' BY <2>1 DEF SpokenSoFar, Lines, ActorInTime, Goes, courseVars, Calm
  <2> QED BY <2>2, <2>3
<1>3. CASE ActorWakes /\ UNCHANGED <<actor_ready, director_ready>>
  <2>1. actor_ready BY <1>3 DEF ActorWakes, Goes
  <2>2. Says("actor", 1) /\ Goes("actor", "woken", "speech") /\ UNCHANGED <<pending, handles, frames>>
    BY <1>3, <2>1 DEF ActorWakes
  <2>3. /\ spoken' \in Seq(Cast) /\ Len(spoken') = Len(spoken) + 1
        /\ \A i \in 1 .. Len(spoken) : spoken'[i] = spoken[i]
        /\ spoken'[Len(spoken) + 1] = "actor"
    BY <2>2, SaysLines
  <2>4. PlayShape' /\ ActorState' /\ DirectorState' BY <1>3, <2>2, <2>3 DEF Goes
  <2>5. SpokenSoFar' BY <1>3, <2>2, <2>3 DEF SpokenSoFar, Lines, Goes
  <2>6. ActorInTime' BY <1>3, <2>2, <2>3 DEF ActorInTime, SpokenSoFar, Lines, Goes, courseVars, Calm
  <2> QED BY <2>4, <2>5, <2>6
<1>4. CASE ActorSpeaks /\ UNCHANGED <<actor_ready, director_ready>>
  <2>1. Says("actor", 2) /\ Goes("actor", "speech", "answer") /\ UNCHANGED <<pending, handles, frames>>
    BY <1>4 DEF ActorSpeaks
  <2>2. /\ spoken' \in Seq(Cast) /\ Len(spoken') = Len(spoken) + 2
        /\ \A i \in 1 .. Len(spoken) : spoken'[i] = spoken[i]
        /\ spoken'[Len(spoken) + 1] = "actor" /\ spoken'[Len(spoken) + 2] = "actor"
    BY <2>1, SaysLines
  <2>3. PlayShape' /\ ActorState' /\ DirectorState' BY <1>4, <2>1, <2>2 DEF Goes
  <2>6. Len(spoken) = 4 BY <2>1 DEF SpokenSoFar, Lines, Goes
  <2>4. SpokenSoFar' BY <1>4, <2>1, <2>2, <2>6 DEF SpokenSoFar, Lines, Goes
  <2>5. ActorInTime' BY <1>4, <2>1, <2>2 DEF ActorInTime, SpokenSoFar, Lines, Goes, courseVars, Calm
  <2> QED BY <2>3, <2>4, <2>5
<1>5. CASE ActorAnswers /\ UNCHANGED <<actor_ready, director_ready>>
  <2>1. Goes("actor", "answer", "exit") /\ Post("director", "SIGUSR2") /\ UNCHANGED <<spoken, handles, frames>>
    BY <1>5 DEF ActorAnswers
  <2>2. AtDirector \in {"call", "pause"} BY <2>1 DEF Goes
  <2>3. pending' = [pending EXCEPT !["director"] = @ \cup {"SIGUSR2"}] BY <2>1, <2>2 DEF Post, Gone
  <2>4. PlayShape' /\ ActorState' /\ DirectorState' BY <1>5, <2>1, <2>2, <2>3 DEF Goes
  <2>5. SpokenSoFar' /\ ActorInTime' BY <2>1 DEF SpokenSoFar, Lines, ActorInTime, Goes, courseVars, Calm
  <2> QED BY <2>4, <2>5
<1>6. CASE HandleSigusr1
  <2>1. frames["actor"] = <<"SIGUSR1">> /\ pending["actor"] = {} BY <1>6 DEF HandleSigusr1, HandlerEnds
  <2>2. /\ frames' = [frames EXCEPT !["actor"] = <<>>]
        /\ at' = [at EXCEPT !["actor"] = IF @ = "pause" THEN "woken" ELSE @]
        /\ UNCHANGED <<pending, handles>>
    BY <1>6, <2>1, HandlerAlone DEF HandleSigusr1
  <2>3. actor_ready' = TRUE /\ UNCHANGED <<spoken, director_ready>> BY <1>6 DEF HandleSigusr1
  <2>4. PlayShape' /\ ActorState' /\ DirectorState' BY <2>1, <2>2, <2>3
  <2>5. SpokenSoFar' /\ ActorInTime' BY <2>1, <2>2, <2>3 DEF SpokenSoFar, Lines, ActorInTime, courseVars, Calm
  <2> QED BY <2>4, <2>5
<1>7. CASE CallPause("actor") /\ UNCHANGED playVars
  <2>1. Goes("actor", "call", "pause") /\ UNCHANGED <<pending, handles, frames>> /\ UNCHANGED playVars
    BY <1>7 DEF CallPause
  <2>2. PlayShape' /\ ActorState' /\ DirectorState' BY <2>1 DEF Goes, playVars
  <2>3. SpokenSoFar' /\ ActorInTime' BY <2>1 DEF SpokenSoFar, Lines, ActorInTime, Goes, courseVars, Calm, playVars
  <2> QED BY <2>2, <2>3
<1>8. CASE Kill("actor") /\ UNCHANGED playVars
  <2>1. /\ AtActor \in {"ready", "install"} /\ pending["actor"] = {"SIGUSR1"} /\ AtDirector \notin {"fork", "exit"}
    BY <1>8 DEF Kill, Gone
  <2>2. /\ at' = [at EXCEPT !["actor"] = "killed"] /\ pending' = [pending EXCEPT !["actor"] = {}]
        /\ frames' = [frames EXCEPT !["actor"] = <<>>] /\ UNCHANGED handles /\ UNCHANGED playVars
    BY <1>8 DEF Kill
  <2>3. AtDirector \in {"call", "pause"} /\ ~Calm BY <2>1 DEF ActorInTime
  <2>4. PlayShape' /\ ActorState' /\ DirectorState' BY <2>1, <2>2, <2>3 DEF playVars
  <2>7. Len(spoken) \in 2 .. 3
    <3>1. Lines = IF AtActor = "ready" THEN 2 ELSE 3 BY <2>1, <2>3 DEF Lines
    <3>2. Len(spoken) = Lines BY <2>1 DEF SpokenSoFar
    <3> QED BY <3>1, <3>2
  <2>5. SpokenSoFar'
    <3>1. AtActor' = "killed" /\ AtDirector' = AtDirector /\ spoken' = spoken BY <2>1, <2>2 DEF playVars
    <3>2. SpokenSoFar OBVIOUS
    <3>3. (DirectorOpened' <=> DirectorOpened) /\ AtDirector \notin {"closing", "sigkill", "exit"} BY <2>3, <3>1
    <3> HIDE DEF PlayInv, PlayShape, ActorState, DirectorState, DirectorOpened, AtActor, AtDirector
    <3>4. DirectorOpened => \E i \in 1 .. 3 : i <= Len(spoken) /\ spoken[i] = "director" BY <3>2 DEF SpokenSoFar
    <3> QED BY <2>7, <3>1, <3>3, <3>4 DEF SpokenSoFar
  <2>6. ActorInTime' BY <2>3 DEF ActorInTime, courseVars, Calm
  <2> QED BY <2>4, <2>5, <2>6
<1>9. CASE Interrupt("actor", "SIGUSR1") /\ UNCHANGED playVars
  <2>1. pending["actor"] = {"SIGUSR1"} /\ frames["actor"] = <<>> /\ AtActor \in {"call", "pause"}
    BY <1>9 DEF Interrupt, Gone
  <2>2. /\ frames' = [frames EXCEPT !["actor"] = <<"SIGUSR1">>] /\ pending' = [pending EXCEPT !["actor"] = {}]
        /\ UNCHANGED <<at, handles>> /\ UNCHANGED playVars
    <3>1. "actor" \in DOMAIN frames /\ "actor" \in DOMAIN pending OBVIOUS
    <3> QED BY <1>9, <2>1, <3>1, InterruptAlone
  <2>3. PlayShape' /\ ActorState' /\ DirectorState' BY <2>1, <2>2 DEF playVars
  <2>4. SpokenSoFar' /\ ActorInTime' BY <2>2 DEF SpokenSoFar, Lines, ActorInTime, courseVars, Calm, playVars
  <2> QED BY <2>3, <2>4
<1> QED BY <1>1, <1>2, <1>3, <1>4, <1>5, <1>6, <1>7, <1>8, <1>9 DEF Actor, ActorWaits

LEMMA PlayDirectorStep == ASSUME PlayInv, Director, UNCHANGED courseVars PROVE PlayInv'
<1> USE DEF PlayInv, PlayShape, ActorState, DirectorState, DirectorOpened, DirectorCued, ActorEntered, AtDirector, AtActor, Cast
<1>1. CASE Fork /\ UNCHANGED <<actor_ready, director_ready>>
  <2>1. /\ AtDirector = "fork" /\ at' = [director |-> "opening", actor |-> "ready"]
        /\ UNCHANGED <<spoken, pending, handles, frames>>
    BY <1>1 DEF Fork
  <2>2. at' \in [Cast -> {"opening", "ready"}] /\ at'["director"] = "opening" /\ at'["actor"] = "ready"
    BY <2>1
  <2>3. AtActor = "unborn" BY <2>1
  <2>4. PlayShape' /\ ActorState' /\ DirectorState'
    <3>1. PlayShape' BY <1>1, <2>1, <2>2
    <3> QED BY <1>1, <2>1, <2>2, <2>3, <3>1
  <2>5. SpokenSoFar' /\ ActorInTime' BY <2>1, <2>2, <2>3 DEF SpokenSoFar, Lines, ActorInTime, courseVars, Calm
  <2> QED BY <2>4, <2>5
<1>2. CASE DirectorOpens /\ UNCHANGED <<actor_ready, director_ready>>
  <2>1. Says("director", 1) /\ Goes("director", "opening", "install") /\ UNCHANGED <<pending, handles, frames>>
    BY <1>2 DEF DirectorOpens
  <2>2. /\ spoken' \in Seq(Cast) /\ Len(spoken') = Len(spoken) + 1
        /\ \A i \in 1 .. Len(spoken) : spoken'[i] = spoken[i]
        /\ spoken'[Len(spoken) + 1] = "director"
    BY <2>1, SaysLines
  <2>3. PlayShape' /\ ActorState' /\ DirectorState' BY <1>2, <2>1, <2>2 DEF Goes
  <2>4. SpokenSoFar' BY <1>2, <2>1, <2>2 DEF SpokenSoFar, Lines, Goes
  <2>5. ActorInTime' BY <1>2, <2>1 DEF ActorInTime, Goes, courseVars, Calm
  <2> QED BY <2>3, <2>4, <2>5
<1>3. CASE DirectorInstalls /\ UNCHANGED <<actor_ready, director_ready>>
  <2>1. /\ Goes("director", "install", "cue") /\ Install("director", "SIGUSR2") /\ UNCHANGED <<spoken, pending, frames>>
        /\ Calm => AtActor \in {"pause", "exit", "killed", "unborn"}
    BY <1>3 DEF DirectorInstalls, Sleeps, Idle, Gone
  <2>2. PlayShape' /\ ActorState' /\ DirectorState' BY <1>3, <2>1 DEF Goes, Install
  <2>3. SpokenSoFar' BY <2>1 DEF SpokenSoFar, Lines, Goes
  <2>4. ActorInTime' BY <2>1 DEF ActorInTime, Goes, courseVars, Calm
  <2> QED BY <2>2, <2>3, <2>4
<1>4. CASE AnnounceCue /\ UNCHANGED <<actor_ready, director_ready>>
  <2>1. Says("director", 1) /\ Goes("director", "cue", "kill") /\ UNCHANGED <<pending, handles, frames>>
    BY <1>4 DEF AnnounceCue
  <2>2. /\ spoken' \in Seq(Cast) /\ Len(spoken') = Len(spoken) + 1
        /\ \A i \in 1 .. Len(spoken) : spoken'[i] = spoken[i]
        /\ spoken'[Len(spoken) + 1] = "director"
    BY <2>1, SaysLines
  <2>3. PlayShape' /\ ActorState' /\ DirectorState' BY <1>4, <2>1, <2>2 DEF Goes
  <2>4. Calm => Len(spoken) = 2 BY <2>1 DEF SpokenSoFar, Lines, ActorInTime, Goes
  <2>7. AtDirector = "cue" /\ AtDirector' = "kill" /\ AtActor' = AtActor BY <2>1 DEF Goes
  <2>8. AtActor \in {"ready", "install", "call", "pause"} BY <2>7
  <2>9. Lines' = Lines + 1 /\ Len(spoken) = Lines /\ Lines \in 1 .. 2 BY <2>7, <2>8 DEF SpokenSoFar, Lines
  <2>5. SpokenSoFar' BY <2>2, <2>7, <2>8, <2>9 DEF SpokenSoFar
  <2>10. Calm => spoken'[3] = "director"
    <3>1. Len(spoken) = 2 => Len(spoken) + 1 = 3 OBVIOUS
    <3> QED BY <2>2, <2>4, <3>1
  <2>11. Calm' = Calm BY DEF courseVars, Calm
  <2>6. ActorInTime' BY <2>7, <2>8, <2>10, <2>11 DEF ActorInTime
  <2> QED BY <2>3, <2>5, <2>6
<1>5. CASE GiveCue /\ UNCHANGED <<actor_ready, director_ready>>
  <2>1. Goes("director", "kill", "call") /\ Post("actor", "SIGUSR1") /\ UNCHANGED <<spoken, handles, frames>>
    BY <1>5 DEF GiveCue
  <2>2. AtActor \in {"ready", "install", "call", "pause"} BY <2>1 DEF Goes
  <2>3. pending' = [pending EXCEPT !["actor"] = @ \cup {"SIGUSR1"}] BY <2>1, <2>2 DEF Post, Gone
  <2>4. PlayShape' /\ ActorState' /\ DirectorState' BY <1>5, <2>1, <2>2, <2>3 DEF Goes
  <2>5. SpokenSoFar' /\ ActorInTime' BY <2>1 DEF SpokenSoFar, Lines, ActorInTime, Goes, courseVars, Calm
  <2> QED BY <2>4, <2>5
<1>6. CASE DirectorWakes /\ UNCHANGED <<actor_ready, director_ready>>
  <2>1. director_ready BY <1>6 DEF DirectorWakes, Goes
  <2>2. Says("director", 1) /\ Goes("director", "woken", "closing") /\ UNCHANGED <<pending, handles, frames>>
    BY <1>6, <2>1 DEF DirectorWakes
  <2>3. /\ spoken' \in Seq(Cast) /\ Len(spoken') = Len(spoken) + 1
        /\ \A i \in 1 .. Len(spoken) : spoken'[i] = spoken[i]
        /\ spoken'[Len(spoken) + 1] = "director"
    BY <2>2, SaysLines
  <2>4. PlayShape' /\ ActorState' /\ DirectorState' BY <1>6, <2>2, <2>3 DEF Goes
  <2>5. Len(spoken) = 6 /\ AtActor = "exit" BY <2>1, <2>2 DEF SpokenSoFar, Lines, Goes
  <2>6. SpokenSoFar' BY <1>6, <2>2, <2>3, <2>5 DEF SpokenSoFar, Lines, Goes
  <2>7. ActorInTime' BY <1>6, <2>2, <2>3, <2>5 DEF ActorInTime, Goes, courseVars, Calm
  <2> QED BY <2>4, <2>6, <2>7
<1>7. CASE DirectorCloses /\ UNCHANGED <<actor_ready, director_ready>>
  <2>1. Says("director", 1) /\ Goes("director", "closing", "sigkill") /\ UNCHANGED <<pending, handles, frames>>
    BY <1>7 DEF DirectorCloses
  <2>2. /\ spoken' \in Seq(Cast) /\ Len(spoken') = Len(spoken) + 1
        /\ \A i \in 1 .. Len(spoken) : spoken'[i] = spoken[i]
        /\ spoken'[Len(spoken) + 1] = "director"
    BY <2>1, SaysLines
  <2>3. PlayShape' /\ ActorState' /\ DirectorState' BY <1>7, <2>1, <2>2 DEF Goes
  <2>4. Len(spoken) = 7 /\ AtActor = "exit" BY <2>1 DEF SpokenSoFar, Lines, Goes
  <2>5. SpokenSoFar' BY <1>7, <2>1, <2>2, <2>4 DEF SpokenSoFar, Lines, Goes
  <2>6. ActorInTime' BY <1>7, <2>1, <2>2, <2>4 DEF ActorInTime, Goes, courseVars, Calm
  <2> QED BY <2>3, <2>5, <2>6
<1>8. CASE DirectorReaps /\ UNCHANGED <<actor_ready, director_ready>>
  <2>1. AtDirector = "sigkill" /\ AtActor = "exit" BY <1>8 DEF DirectorReaps
  <2>2. /\ at' = [director |-> "exit", actor |-> "exit"] /\ pending' = [pending EXCEPT !["actor"] = {}]
        /\ frames' = [frames EXCEPT !["actor"] = <<>>] /\ UNCHANGED <<spoken, handles>>
    BY <1>8, <2>1 DEF DirectorReaps
  <2>3. at' \in [Cast -> {"exit"}] /\ at'["director"] = "exit" /\ at'["actor"] = "exit" BY <2>2
  <2>4. PlayShape' /\ ActorState' /\ DirectorState'
    <3>1. PlayShape' BY <1>8, <2>2, <2>3
    <3> QED BY <1>8, <2>1, <2>2, <2>3, <3>1
  <2>5. SpokenSoFar' /\ ActorInTime' BY <2>1, <2>2, <2>3 DEF SpokenSoFar, Lines, ActorInTime, courseVars, Calm
  <2> QED BY <2>4, <2>5
<1>9. CASE HandleSigusr2
  <2>1. frames["director"] = <<"SIGUSR2">> /\ pending["director"] = {} BY <1>9 DEF HandleSigusr2, HandlerEnds
  <2>2. /\ frames' = [frames EXCEPT !["director"] = <<>>]
        /\ at' = [at EXCEPT !["director"] = IF @ = "pause" THEN "woken" ELSE @]
        /\ UNCHANGED <<pending, handles>>
    BY <1>9, <2>1, HandlerAlone DEF HandleSigusr2
  <2>3. director_ready' = TRUE /\ UNCHANGED <<spoken, actor_ready>> BY <1>9 DEF HandleSigusr2
  <2>4. PlayShape' /\ ActorState' /\ DirectorState' BY <2>1, <2>2, <2>3
  <2>5. SpokenSoFar' /\ ActorInTime' BY <2>1, <2>2, <2>3 DEF SpokenSoFar, Lines, ActorInTime, courseVars, Calm
  <2> QED BY <2>4, <2>5
<1>10. CASE CallPause("director") /\ UNCHANGED playVars
  <2>1. Goes("director", "call", "pause") /\ UNCHANGED <<pending, handles, frames>> /\ UNCHANGED playVars
    BY <1>10 DEF CallPause
  <2>2. PlayShape' /\ ActorState' /\ DirectorState' BY <2>1 DEF Goes, playVars
  <2>3. SpokenSoFar' BY <2>1 DEF SpokenSoFar, Lines, Goes, playVars
  <2>4. ActorInTime' BY <2>1 DEF ActorInTime, Goes, courseVars, Calm, playVars
  <2> QED BY <2>2, <2>3, <2>4
<1>11. CASE Interrupt("director", "SIGUSR2") /\ UNCHANGED playVars
  <2>1. pending["director"] = {"SIGUSR2"} /\ frames["director"] = <<>> /\ AtDirector \in {"call", "pause"}
    BY <1>11 DEF Interrupt, Gone
  <2>2. /\ frames' = [frames EXCEPT !["director"] = <<"SIGUSR2">>] /\ pending' = [pending EXCEPT !["director"] = {}]
        /\ UNCHANGED <<at, handles>> /\ UNCHANGED playVars
    <3>1. "director" \in DOMAIN frames /\ "director" \in DOMAIN pending OBVIOUS
    <3> QED BY <1>11, <2>1, <3>1, InterruptAlone
  <2>3. PlayShape' /\ ActorState' /\ DirectorState' BY <2>1, <2>2 DEF playVars
  <2>4. SpokenSoFar' /\ ActorInTime' BY <2>2 DEF SpokenSoFar, Lines, ActorInTime, courseVars, Calm, playVars
  <2> QED BY <2>3, <2>4
<1> QED BY <1>1, <1>2, <1>3, <1>4, <1>5, <1>6, <1>7, <1>8, <1>9, <1>10, <1>11 DEF Director, DirectorWaits

LEMMA PlayInvStep == ASSUME PlayInv, [playSteps]_<<playVars, signalVars, courseVars>> PROVE PlayInv'
<1>1. CASE playSteps BY <1>1, PlayActorStep, PlayDirectorStep DEF playSteps, PlayNext
<1>2. CASE UNCHANGED <<playVars, signalVars, courseVars>>
  BY <1>2 DEF playVars, signalVars, courseVars, PlayInv, PlayShape, ActorState, DirectorState, SpokenSoFar, ActorInTime,
              DirectorOpened, DirectorCued, ActorEntered, Lines, AtDirector, AtActor, Calm
<1> QED BY <1>1, <1>2

LEMMA PlayInvInit == ASSUME PlayInit, PlayPausing PROVE PlayInv
<1>1. PlayShape
  <2>1. /\ at["director"] = "fork" /\ at["actor"] = "unborn" /\ at = [p \in Cast |-> at[p]]
        /\ pending = [p \in Cast |-> {}] /\ handles = [p \in Cast |-> {}] /\ frames = [p \in Cast |-> <<>>]
    BY DEF PlayPausing, Cast
  <2>2. spoken = <<>> /\ actor_ready = FALSE /\ director_ready = FALSE BY DEF PlayInit
  <2>3. <<>> \in Seq(Cast) OBVIOUS
  <2> QED BY <2>1, <2>2, <2>3 DEF PlayShape, Cast
<1>2. /\ AtDirector = "fork" /\ AtActor = "unborn" /\ pending["actor"] = {} /\ pending["director"] = {}
      /\ frames["actor"] = <<>> /\ frames["director"] = <<>> /\ handles["actor"] = {} /\ handles["director"] = {}
  BY DEF PlayPausing, Cast, AtDirector, AtActor
<1>3. Len(spoken) = 0 BY DEF PlayInit
<1> QED BY <1>1, <1>2, <1>3
  DEF PlayInv, ActorState, DirectorState, SpokenSoFar, ActorInTime, DirectorOpened, DirectorCued, ActorEntered, Lines, PlayInit

LEMMA PlayInvImplies == ASSUME PlayInv PROVE PlayTypeOK /\ PlayInOrder
<1> USE DEF PlayInv, PlayShape, AtDirector, AtActor
<1>1. Len(spoken) <= 8 BY DEF SpokenSoFar, Lines
<1>2. ASSUME AtDirector = "exit"
      PROVE  /\ Len(spoken) = 8
             /\ SubSeq(spoken, 4, 8) = <<"actor", "actor", "actor", "director", "director">>
             /\ ToSet(SubSeq(spoken, 1, 3)) = Cast
             /\ Calm => spoken[3] = "director"
  <2>1. AtActor = "exit" BY <1>2 DEF DirectorState
  <2>2. Len(spoken) = 8 BY <1>2, <2>1 DEF SpokenSoFar, Lines, DirectorOpened, DirectorCued, ActorEntered
  <2>3. /\ spoken[4] = "actor" /\ spoken[5] = "actor" /\ spoken[6] = "actor"
        /\ spoken[7] = "director" /\ spoken[8] = "director"
    BY <1>2, <2>1 DEF SpokenSoFar
  <2>4. /\ \E i \in 1 .. 3 : spoken[i] = "director"
        /\ \E i \in 1 .. 3 : spoken[i] = "actor"
    BY <1>2, <2>1 DEF SpokenSoFar, DirectorOpened, ActorEntered
  <2>5. SubSeq(spoken, 4, 8) = <<"actor", "actor", "actor", "director", "director">>
    <3> DEFINE t == SubSeq(spoken, 4, 8)
               u == <<"actor", "actor", "actor", "director", "director">>
    <3>1. t \in Seq(Cast) /\ Len(t) = 5 /\ \A i \in 1 .. 5 : t[i] = spoken[4 + i - 1]
      <4>1. spoken \in Seq(Cast) OBVIOUS
      <4> HIDE DEF PlayInv, PlayShape
      <4>2. ASSUME NEW i \in 4 .. 8 PROVE spoken[i] \in Cast
        <5>1. i \in 1 .. Len(spoken) BY <2>2
        <5> QED BY <4>1, <5>1, ElementOfSeq
      <4> QED BY <4>2, SubSeqProperties
    <3>2. u \in Seq(Cast) /\ Len(u) = 5 BY DEF Cast
    <3>3. \A i \in 1 .. 5 : t[i] = u[i]
      <4> SUFFICES ASSUME NEW i \in 1 .. 5 PROVE t[i] = u[i] OBVIOUS
      <4>1. i = 1 \/ i = 2 \/ i = 3 \/ i = 4 \/ i = 5 OBVIOUS
      <4>2. t[i] = spoken[4 + i - 1] BY <3>1
      <4> HIDE DEF t
      <4> QED BY <2>3, <4>1, <4>2
    <3> HIDE DEF t, u
    <3>4. t = u BY <3>1, <3>2, <3>3, SeqEqual
    <3> QED BY <3>4 DEF t, u
  <2>6. ToSet(SubSeq(spoken, 1, 3)) = Cast
    <3> DEFINE t == SubSeq(spoken, 1, 3)
    <3>0. \A i \in 1 .. 3 : 1 + i - 1 = i OBVIOUS
    <3>4. \A i \in 1 .. 3 : spoken[i] \in Cast
      <4>1. spoken \in Seq(Cast) /\ \A i \in 1 .. 3 : i \in 1 .. Len(spoken) BY <2>2
      <4> HIDE DEF PlayInv, PlayShape
      <4> QED BY <4>1
    <3>5. t \in Seq(Cast) /\ Len(t) = 3 /\ \A i \in 1 .. 3 : t[i] = spoken[1 + i - 1] BY <2>2, <3>0, <3>4, SubSeqProperties
    <3>1. t \in Seq(Cast) /\ Len(t) = 3 /\ \A i \in 1 .. 3 : t[i] = spoken[i] BY <3>0, <3>5
    <3>2. ToSet(t) = {t[i] : i \in 1 .. 3} BY <3>1 DEF ToSet
    <3>3. \A i \in 1 .. 3 : t[i] \in Cast BY <3>1
    <3> HIDE DEF t
    <3>6. "director" \in ToSet(t) /\ "actor" \in ToSet(t) BY <2>4, <3>1, <3>2
    <3> QED BY <3>1, <3>2, <3>3, <3>6 DEF Cast, t
  <2>7. Calm => spoken[3] = "director" BY <1>2 DEF ActorInTime, DirectorCued, DirectorOpened
  <2> QED BY <2>2, <2>5, <2>6, <2>7
<1> QED BY <1>1, <1>2 DEF PlayTypeOK, PlayInOrder

\* Whatever the pace, a play that ends has all its lines, and the speech after the
\* cue and the last lines after the answer; at a proper pace the cue comes third.
THEOREM LinesInOrder == PlaySpec => [](PlayInOrder /\ PlayTypeOK)
<1>1. PlayInit /\ PlayPausing => PlayInv BY PlayInvInit
<1>2. PlayInv /\ [playSteps]_<<playVars, signalVars, courseVars>> => PlayInv' BY PlayInvStep
<1>3. PlayInv => PlayTypeOK /\ PlayInOrder BY PlayInvImplies
<1> QED BY <1>1, <1>2, <1>3, PTL DEF PlaySpec, playSteps

-----------------------------------------------------------------------------
(* The manager and its workers *)

\* Before the manager has begun: a worker installs its handlers and pauses.
Starting(w) ==
    /\ at[w] \in {"usr1", "usr2", "term", "test", "call", "pause"}
    /\ pending[w] = {} /\ frames[w] = <<>> /\ keep_running[w] = TRUE
    /\ at[w] = "usr2" => handles[w] = {"SIGUSR1"}
    /\ at[w] = "term" => handles[w] = {"SIGUSR1", "SIGUSR2"}
    /\ at[w] = "usr1" => handles[w] = {}
    /\ at[w] \in {"test", "call", "pause"} => handles[w] = CommandSignals

\* A worker with nothing to do, and one with a command on the way.
Quiet(w) ==
    /\ at[w] = "pause" /\ keep_running[w] = TRUE /\ handles[w] = CommandSignals
    /\ pending[w] = {} /\ frames[w] = <<>>

Busy(w) ==
    /\ at[w] \in {"pause", "woken", "call"} /\ keep_running[w] = TRUE /\ handles[w] = CommandSignals
    /\ \/ \E s \in {"SIGUSR1", "SIGUSR2"} :
             at[w] = "pause" /\ ((pending[w] = {s} /\ frames[w] = <<>>) \/ (pending[w] = {} /\ frames[w] = <<s>>))
       \/ pending[w] = {} /\ frames[w] = <<>>

\* SIGTERM on its way to a worker that was in pause().
Ending(w) ==
    /\ handles[w] = CommandSignals
    /\ \/ at[w] = "pause" /\ pending[w] = {"SIGTERM"} /\ frames[w] = <<>>
       \/ at[w] = "pause" /\ pending[w] = {} /\ frames[w] = <<"SIGTERM">>
       \/ at[w] = "woken" /\ pending[w] = {} /\ frames[w] = <<>> /\ keep_running[w] = FALSE
       \/ at[w] = "exit"

\* The worker of the last command.
LastAddressee(w) == w = target_pid /\ signal_num # "SIGTERM"

WorkerInv(w) ==
    CASE manager_pc = "start" -> Starting(w)
      [] manager_pc = "read" -> Quiet(w) \/ (LastAddressee(w) /\ Busy(w))
      [] manager_pc = "send" -> Busy(w)
      [] manager_pc = "term1" -> Quiet(w) \/ LastAddressee(w)
      [] manager_pc = "term2" -> (IF w = "worker1" THEN Ending(w) ELSE Quiet(w)) \/ LastAddressee(w)
      [] manager_pc = "exit" -> Ending(w) \/ LastAddressee(w)

CommandsInv ==
    /\ manager_pc \in {"start", "read", "send", "term1", "term2", "exit"}
    /\ manager_pc = "send" => signal_num \in {"SIGUSR1", "SIGUSR2"}
    /\ DOMAIN at = CommandWorkers /\ DOMAIN pending = CommandWorkers /\ DOMAIN handles = CommandWorkers
    /\ DOMAIN frames = CommandWorkers /\ DOMAIN keep_running = CommandWorkers
    /\ target_pid \in CommandWorkers
    /\ \A w \in CommandWorkers : WorkerInv(w)

commandsSteps == CommandsNext /\ UNCHANGED courseVars

\* What a worker does by itself, from each of its states.
LEMMA StartingStep == ASSUME CommandsInv, NEW w \in CommandWorkers, CommandWorker(w), Starting(w) PROVE Starting(w)'
<1> USE DEF CommandsInv, Starting, CommandSignals, CommandWorkers
<1>1. CASE InstallHandlers(w) BY <1>1 DEF InstallHandlers, InstallFor, Install, Goes
<1>2. CASE TestRunning(w) BY <1>2 DEF TestRunning, Goes
<1>3. CASE CallPause(w) /\ UNCHANGED <<keep_running, log>> BY <1>3 DEF CallPause, Goes
<1>4. ~(\E s : HandlerEnds(w, s)) BY DEF HandlerEnds
<1>5. ~Kill(w) /\ ~(\E s : Interrupt(w, s)) BY DEF Kill, Interrupt
<1> QED BY <1>1, <1>2, <1>3, <1>4, <1>5 DEF CommandWorker, SigtermHandler, LogSignal, SignalDelivered

LEMMA QuietStep == ASSUME CommandsInv, NEW w \in CommandWorkers, CommandWorker(w) PROVE ~Quiet(w)
<1> SUFFICES ASSUME Quiet(w) PROVE FALSE OBVIOUS
<1> USE DEF Quiet
<1>1. ~InstallHandlers(w) BY DEF InstallHandlers, InstallFor, Goes
<1>2. ~TestRunning(w) BY DEF TestRunning
<1>3. ~CallPause(w) BY DEF CallPause, Goes
<1>4. ~(\E s : HandlerEnds(w, s)) BY DEF HandlerEnds
<1>5. ~Kill(w) /\ ~(\E s : Interrupt(w, s)) BY DEF Kill, Interrupt
<1> QED BY <1>1, <1>2, <1>3, <1>4, <1>5 DEF CommandWorker, SigtermHandler, LogSignal, SignalDelivered

LEMMA BusyStep == ASSUME CommandsInv, NEW w \in CommandWorkers, CommandWorker(w), Busy(w) PROVE Busy(w)'
<1> USE DEF CommandsInv, Busy, CommandWorkers
<1>1. ~InstallHandlers(w) BY DEF InstallHandlers, InstallFor, Goes
<1>2. CASE TestRunning(w) BY <1>2 DEF TestRunning, Goes
<1>3. CASE CallPause(w) /\ UNCHANGED <<keep_running, log>> BY <1>3 DEF CallPause, Goes
<1>4. ASSUME NEW s, HandlerEnds(w, s)
      PROVE  s # "SIGTERM" /\ (UNCHANGED keep_running => Busy(w)')
  <2>1. PICK t \in {"SIGUSR1", "SIGUSR2"} : at[w] = "pause" /\ pending[w] = {} /\ frames[w] = <<t>>
    BY <1>4 DEF HandlerEnds
  <2>2. /\ t = s /\ frames' = [frames EXCEPT ![w] = <<>>]
        /\ at' = [at EXCEPT ![w] = IF @ = "pause" THEN "woken" ELSE @] /\ UNCHANGED <<pending, handles>>
    BY <1>4, <2>1, HandlerAlone
  <2> QED BY <2>1, <2>2
<1>5. ~Kill(w) BY DEF Kill, CommandSignals
<1>6. ASSUME NEW s, Interrupt(w, s), UNCHANGED keep_running PROVE Busy(w)'
  <2>1. PICK t \in {"SIGUSR1", "SIGUSR2"} : at[w] = "pause" /\ pending[w] = {t} /\ frames[w] = <<>>
    BY <1>6 DEF Interrupt
  <2>2. /\ frames' = [frames EXCEPT ![w] = <<t>>] /\ pending' = [pending EXCEPT ![w] = {}]
        /\ UNCHANGED <<at, handles>>
    BY <1>6, <2>1, InterruptAlone
  <2> QED BY <1>6, <2>1, <2>2
<1> QED BY <1>1, <1>2, <1>3, <1>4, <1>5, <1>6 DEF CommandWorker, SigtermHandler, LogSignal, SignalDelivered

LEMMA EndingStep == ASSUME CommandsInv, NEW w \in CommandWorkers, CommandWorker(w), Ending(w) PROVE Ending(w)'
<1> USE DEF CommandsInv, Ending, CommandWorkers
<1>1. ~InstallHandlers(w) BY DEF InstallHandlers, InstallFor, Goes
<1>2. CASE TestRunning(w) BY <1>2 DEF TestRunning, Goes
<1>3. ~CallPause(w) BY DEF CallPause, Goes
<1>4. ASSUME NEW s, HandlerEnds(w, s), at[w] # "exit"
      PROVE  s = "SIGTERM" /\ (keep_running' = [keep_running EXCEPT ![w] = FALSE] => Ending(w)')
  <2>1. at[w] = "pause" /\ pending[w] = {} /\ frames[w] = <<"SIGTERM">>
    BY <1>4 DEF HandlerEnds
  <2>2. /\ s = "SIGTERM" /\ frames' = [frames EXCEPT ![w] = <<>>]
        /\ at' = [at EXCEPT ![w] = IF @ = "pause" THEN "woken" ELSE @] /\ UNCHANGED <<pending, handles>>
    BY <1>4, <2>1, HandlerAlone
  <2> QED BY <2>1, <2>2
<1>5. ~Kill(w) BY DEF Kill, CommandSignals, Gone
<1>6. ASSUME NEW s, Interrupt(w, s), UNCHANGED keep_running PROVE Ending(w)'
  <2>1. at[w] = "pause" /\ pending[w] = {"SIGTERM"} /\ frames[w] = <<>>
    BY <1>6 DEF Interrupt, Gone
  <2>2. /\ frames' = [frames EXCEPT ![w] = <<"SIGTERM">>] /\ pending' = [pending EXCEPT ![w] = {}]
        /\ UNCHANGED <<at, handles>>
    BY <1>6, <2>1, InterruptAlone
  <2> QED BY <1>6, <2>1, <2>2
<1>7. CASE at[w] = "exit"
  <2>1. handles' = handles BY <1>1, <1>7 DEF CommandWorker, TestRunning, CallPause, SigtermHandler, LogSignal, HandlerEnds, SignalDelivered, Kill, Interrupt
  <2>2. \A s : HandlerEnds(w, s) => at'[w] = "exit" BY <1>7 DEF HandlerEnds
  <2>3. at'[w] = "exit"
    BY <1>1, <1>3, <1>7, <2>2 DEF CommandWorker, TestRunning, SigtermHandler, LogSignal, SignalDelivered, Kill, Interrupt, Gone
  <2> QED BY <1>7, <2>1, <2>3
<1> QED BY <1>1, <1>2, <1>3, <1>4, <1>5, <1>6, <1>7 DEF CommandWorker, SigtermHandler, LogSignal, SignalDelivered

LEMMA WorkerStays ==
    ASSUME CommandsInv, NEW v \in CommandWorkers, CommandWorker(v)
    PROVE  /\ DOMAIN at' = CommandWorkers /\ DOMAIN pending' = CommandWorkers /\ DOMAIN handles' = CommandWorkers
           /\ DOMAIN frames' = CommandWorkers /\ DOMAIN keep_running' = CommandWorkers
           /\ \A w \in CommandWorkers \ {v} :
                 /\ at'[w] = at[w] /\ pending'[w] = pending[w] /\ handles'[w] = handles[w]
                 /\ frames'[w] = frames[w] /\ keep_running'[w] = keep_running[w]
<1> USE DEF CommandsInv
<1>1. CASE InstallHandlers(v) BY <1>1 DEF InstallHandlers, InstallFor, Install, Goes
<1>2. CASE TestRunning(v) BY <1>2 DEF TestRunning, Goes
<1>3. CASE CallPause(v) /\ UNCHANGED <<keep_running, log>> BY <1>3 DEF CallPause, Goes
<1>4. ASSUME NEW s, HandlerEnds(v, s)
      PROVE  /\ DOMAIN at' = CommandWorkers /\ DOMAIN pending' = CommandWorkers /\ DOMAIN handles' = CommandWorkers
             /\ DOMAIN frames' = CommandWorkers
             /\ \A w \in CommandWorkers \ {v} :
                   /\ at'[w] = at[w] /\ pending'[w] = pending[w] /\ handles'[w] = handles[w]
                   /\ frames'[w] = frames[w]
  <2>1. \/ UNCHANGED at
        \/ at' = [at EXCEPT ![v] = IF @ = "pause" /\ Len(frames[v]) = 1 THEN "woken" ELSE @]
    BY <1>4 DEF HandlerEnds
  <2>2. UNCHANGED pending \/ \E t : pending' = [pending EXCEPT ![v] = @ \ {t}] BY <1>4 DEF HandlerEnds
  <2>3. \E f : frames' = [frames EXCEPT ![v] = f] BY <1>4 DEF HandlerEnds
  <2>4. handles' = handles BY <1>4 DEF HandlerEnds
  <2> QED BY <2>1, <2>2, <2>3, <2>4
<1>5. CASE SigtermHandler(v) BY <1>4, <1>5 DEF SigtermHandler
<1>6. CASE \E s \in CommandSignals : LogSignal(v, s) BY <1>4, <1>6 DEF LogSignal
<1>7. CASE SignalDelivered(v) BY <1>7 DEF SignalDelivered, Kill, Interrupt
<1> QED BY <1>1, <1>2, <1>3, <1>5, <1>6, <1>7 DEF CommandWorker

LEMMA CommandsStep == ASSUME CommandsInv, Calm, commandsSteps PROVE CommandsInv'
<1>1. ASSUME NEW v \in CommandWorkers, CommandWorker(v) PROVE CommandsInv'
  <2>1. UNCHANGED managerVars BY <1>1 DEF CommandWorker
  <2>2. WorkerInv(v)'
    <3>1. UNCHANGED <<manager_pc, target_pid, signal_num>> BY <2>1 DEF managerVars
    <3>2. WorkerInv(v) BY DEF CommandsInv
    <3> QED BY <1>1, <3>1, <3>2, StartingStep, QuietStep, BusyStep, EndingStep DEF WorkerInv, LastAddressee, CommandsInv
  <2>3. ASSUME NEW w \in CommandWorkers \ {v} PROVE WorkerInv(w)'
    <3>1. WorkerInv(w) BY DEF CommandsInv
    <3> QED BY <1>1, <2>1, <3>1, WorkerStays DEF managerVars, WorkerInv, Starting, Quiet, Busy, Ending, LastAddressee
  <2> QED BY <1>1, <2>1, <2>2, <2>3, WorkerStays DEF managerVars, CommandsInv
<1>2. CASE Manager
  <2>1. UNCHANGED <<keep_running, handles, frames, at>>
    BY <1>2 DEF Manager, StartManager, ReadCommand, SendSignalToWorker, EndOfCommands, Terminate, signalVars
  <2>2. CASE StartManager
    <3>1. /\ manager_pc = "start" /\ manager_pc' = "read" /\ UNCHANGED <<target_pid, pending>>
          /\ \A w \in CommandWorkers : Idle(w)
      BY <2>2 DEF StartManager, WorkersReady, signalVars
    <3>2. ASSUME NEW w \in CommandWorkers PROVE Quiet(w)
      BY <3>1 DEF CommandsInv, WorkerInv, Starting, Idle, Gone, Quiet
    <3> QED BY <2>1, <3>1, <3>2 DEF CommandsInv, WorkerInv, Quiet
  <2>3. CASE ReadCommand
    <3>1. /\ manager_pc = "read" /\ UNCHANGED pending
          /\ \/ UNCHANGED <<target_pid, signal_num, manager_pc>>
             \/ /\ manager_pc' = "send" /\ target_pid' \in CommandWorkers
                /\ signal_num' \in {"SIGUSR1", "SIGUSR2"}
      BY <2>3 DEF ReadCommand, Valid, signalVars
    <3>2. ASSUME NEW w \in CommandWorkers PROVE Busy(w)
      BY <3>1 DEF CommandsInv, WorkerInv, Quiet, Busy
    <3>3. CASE UNCHANGED <<target_pid, signal_num, manager_pc>>
      BY <2>1, <3>1, <3>3 DEF CommandsInv, WorkerInv, Quiet, Busy, LastAddressee
    <3> QED BY <2>1, <3>1, <3>2, <3>3 DEF CommandsInv, WorkerInv, Busy
  <2>4. CASE SendSignalToWorker
    <3>1. /\ manager_pc = "send" /\ manager_pc' = "read" /\ UNCHANGED <<target_pid, signal_num>>
          /\ \A w \in CommandWorkers : Idle(w)
          /\ signal_num \in {"SIGUSR1", "SIGUSR2"}
      BY <2>4 DEF SendSignalToWorker, WorkersReady, CommandsInv
    <3>2. ASSUME NEW w \in CommandWorkers PROVE Quiet(w)
      BY <3>1 DEF CommandsInv, WorkerInv, Busy, Idle, Gone, Quiet
    <3>3. pending' = [pending EXCEPT ![target_pid] = {signal_num}]
      <4>1. at[target_pid] \notin Gone /\ pending[target_pid] = {} BY <3>2 DEF CommandsInv, Quiet, Gone
      <4>2. pending[target_pid] \cup {signal_num} = {signal_num} BY <4>1
      <4> QED BY <2>4, <4>1, <4>2 DEF SendSignalToWorker, Post
    <3>4. ASSUME NEW w \in CommandWorkers PROVE WorkerInv(w)'
      <4>1. CASE w = target_pid
        <5>1. pending'[w] = {signal_num} BY <3>3, <4>1 DEF CommandsInv
        <5>2. LastAddressee(w)' BY <3>1, <4>1 DEF LastAddressee
        <5>3. Busy(w)' BY <2>1, <3>1, <3>2, <5>1 DEF Quiet, Busy
        <5> QED BY <3>1, <5>2, <5>3 DEF WorkerInv
      <4>2. CASE w # target_pid
        <5>1. pending'[w] = pending[w] BY <3>3, <4>2 DEF CommandsInv
        <5>2. Quiet(w)' BY <2>1, <3>2, <5>1 DEF Quiet
        <5> QED BY <3>1, <5>2 DEF WorkerInv
      <4> QED BY <4>1, <4>2
    <3> QED BY <2>1, <3>1, <3>3, <3>4 DEF CommandsInv
  <2>5. CASE EndOfCommands
    BY <2>1, <2>5 DEF EndOfCommands, signalVars, CommandsInv, WorkerInv, Quiet, LastAddressee
  <2>6. CASE Terminate
    <3>1. PICK v \in CommandWorkers : /\ v = (IF manager_pc = "term1" THEN "worker1" ELSE "worker2")
                                      /\ Post(v, "SIGTERM")
      BY <2>6 DEF Terminate, CommandWorkers
    <3>2. /\ manager_pc \in {"term1", "term2"} /\ UNCHANGED <<target_pid, signal_num>>
          /\ manager_pc' = IF manager_pc = "term1" THEN "term2" ELSE "exit"
      BY <2>6 DEF Terminate
    <3>3. DOMAIN pending' = CommandWorkers /\ \A w \in CommandWorkers \ {v} : pending'[w] = pending[w]
      BY <3>1 DEF CommandsInv, Post
    <3>4. ASSUME NEW w \in CommandWorkers, ~LastAddressee(w) PROVE w = v => Ending(w)'
      <4>1. CASE w = v
        <5>1. Quiet(w) BY <3>1, <3>2, <3>4, <4>1 DEF CommandsInv, WorkerInv
        <5>2. pending' = [pending EXCEPT ![w] = {"SIGTERM"}]
          <6>1. pending[w] \cup {"SIGTERM"} = {"SIGTERM"} BY <5>1 DEF Quiet
          <6> QED BY <3>1, <4>1, <5>1, <6>1 DEF Post, Quiet, Gone
        <5> QED BY <2>1, <5>1, <5>2 DEF Quiet, Ending, CommandsInv
      <4> QED BY <4>1
    <3>5. ASSUME NEW w \in CommandWorkers \ {v}, ~LastAddressee(w)
          PROVE  (Quiet(w) => Quiet(w)') /\ (Ending(w) => Ending(w)')
      BY <2>1, <3>3, <3>5 DEF Quiet, Ending
    <3>6. ASSUME NEW w \in CommandWorkers PROVE WorkerInv(w)'
      <4>1. CASE LastAddressee(w) BY <3>2, <4>1 DEF LastAddressee, WorkerInv
      <4>2. CASE ~LastAddressee(w)
        <5>1. CASE w = v BY <3>1, <3>2, <3>4, <4>2, <5>1 DEF WorkerInv
        <5>2. CASE w # v
          <6>1. WorkerInv(w) BY DEF CommandsInv
          <6> QED BY <3>1, <3>2, <3>5, <4>2, <5>2, <6>1 DEF WorkerInv, CommandWorkers
        <5> QED BY <5>1, <5>2
      <4> QED BY <4>1, <4>2
    <3> QED BY <2>1, <3>2, <3>3, <3>6 DEF CommandsInv
  <2> QED BY <1>2, <2>2, <2>3, <2>4, <2>5, <2>6 DEF Manager
<1> QED BY <1>1, <1>2 DEF commandsSteps, CommandsNext

\* For any file of commands, at the pace its authors had in mind: nobody but the
\* worker of the last command can miss its SIGTERM.
THEOREM OnlyLastHangs == CommandsSpec => []OnlyLastAddresseeHangs
<1> DEFINE Inv == Calm => CommandsInv
<1>1. CommandsInit /\ CommandsPausing => Inv
  BY DEF CommandsInit, CommandsPausing, CommandsInv, WorkerInv, Starting, CommandWorkers
<1>2. Inv /\ [commandsSteps]_<<commandVars, signalVars, courseVars>> => Inv'
  <2> SUFFICES ASSUME Inv, [commandsSteps]_<<commandVars, signalVars, courseVars>>, Calm' PROVE CommandsInv' OBVIOUS
  <2>1. Calm BY DEF commandsSteps, courseVars, Calm
  <2>2. CASE commandsSteps BY <2>1, <2>2, CommandsStep
  <2>3. CASE UNCHANGED <<commandVars, signalVars>>
    <3>1. UNCHANGED <<manager_pc, target_pid, signal_num, keep_running, at, pending, handles, frames>>
      BY <2>3 DEF commandVars, managerVars, signalVars
    <3>2. ASSUME NEW w \in CommandWorkers, WorkerInv(w) PROVE WorkerInv(w)'
      BY <3>1, <3>2 DEF WorkerInv, Starting, Quiet, Busy, Ending, LastAddressee
    <3> QED BY <2>1, <3>1, <3>2 DEF CommandsInv
  <2> QED BY <2>2, <2>3
<1>3. Inv => OnlyLastAddresseeHangs
  <2> SUFFICES ASSUME CommandsInv, CommandsOver, NEW w \in CommandWorkers, ~LastAddressee(w) PROVE at[w] = "exit"
    BY DEF OnlyLastAddresseeHangs, LastAddressee
  <2>1. Ending(w) BY DEF CommandsInv, WorkerInv, CommandsOver
  <2>2. at[w] \in {"pause", "exit", "killed", "unborn"} /\ pending[w] = {} /\ frames[w] = <<>>
    BY DEF CommandsOver, Idle, Gone
  <2>3. pending[w] # {"SIGTERM"} /\ frames[w] # <<"SIGTERM">>
    <3>1. {"SIGTERM"} # {} /\ <<"SIGTERM">> # <<>> OBVIOUS
    <3> QED BY <2>2, <3>1
  <2> QED BY <2>1, <2>2, <2>3 DEF Ending
<1> QED BY <1>1, <1>2, <1>3, PTL DEF CommandsSpec, commandsSteps

-----------------------------------------------------------------------------
(* What the workers log *)

Commanding == {"SIGUSR1", "SIGUSR2"}

\* One more line: a command for w, or none.
LEMMA LogNext ==
    ASSUME NEW w, NEW n \in Nat, NEW l \in Seq(CommandSignals), LogIs(w, l, n)
    PROVE  /\ n + 1 \notin LinesFor(w, n + 1) => LogIs(w, l, n + 1)
           /\ \A s \in CommandSignals :
                 n + 1 \in LinesFor(w, n + 1) /\ commands[n + 1][2] = s => LogIs(w, Append(l, s), n + 1)
<1> DEFINE old == LinesFor(w, n)
           new == LinesFor(w, n + 1)
<1>1. ASSUME NEW m \in Nat PROVE IsFiniteSet(LinesFor(w, m)) /\ Cardinality(LinesFor(w, m)) \in Nat
  <2>1. IsFiniteSet(1 .. m) BY FS_Interval
  <2>2. LinesFor(w, m) \subseteq 1 .. m BY DEF LinesFor
  <2> QED BY <2>1, <2>2, FS_Subset, FS_CardinalityType
<1>2. new = old \/ new = old \cup {n + 1} BY DEF LinesFor
<1>3. \A m \in 1 .. n : m \in new <=> m \in old BY DEF LinesFor
<1>4. n + 1 \notin old /\ old \subseteq 1 .. n BY DEF LinesFor
<1>5. ASSUME n + 1 \notin new PROVE LogIs(w, l, n + 1) BY <1>2, <1>5 DEF LogIs
<1>6. ASSUME n + 1 \in new, NEW s \in CommandSignals, commands[n + 1][2] = s PROVE LogIs(w, Append(l, s), n + 1)
  <2>1. new = old \cup {n + 1} BY <1>2, <1>4, <1>6
  <2>2. Cardinality(new) = Cardinality(old) + 1 BY <1>1, <1>4, <2>1, FS_AddElement
  <2>3. Len(l) = Cardinality(old) /\ \A m \in old : l[Cardinality(LinesFor(w, m))] = commands[m][2] BY DEF LogIs
  <2>4. /\ Len(Append(l, s)) = Len(l) + 1 /\ Append(l, s)[Len(l) + 1] = s
        /\ \A i \in 1 .. Len(l) : Append(l, s)[i] = l[i]
    OBVIOUS
  <2>5. ASSUME NEW m \in old PROVE Cardinality(LinesFor(w, m)) \in 1 .. Len(l)
    <3>1. m \in 1 .. n /\ m \in Nat BY <1>4
    <3>2. LinesFor(w, m) \subseteq old /\ m \in LinesFor(w, m) BY <3>1 DEF LinesFor
    <3>3. Cardinality(LinesFor(w, m)) <= Cardinality(old) BY <1>1, <3>2, FS_Subset
    <3>4. Cardinality(LinesFor(w, m)) # 0 BY <1>1, <3>1, <3>2, FS_EmptySet
    <3> QED BY <1>1, <2>3, <3>1, <3>3, <3>4
  <2>6. ASSUME NEW m \in new PROVE Append(l, s)[Cardinality(LinesFor(w, m))] = commands[m][2]
    <3>1. CASE m \in old BY <2>3, <2>4, <2>5, <3>1
    <3>2. CASE m = n + 1 BY <1>6, <2>2, <2>3, <2>4, <3>2
    <3> QED BY <2>1, <3>1, <3>2
  <2> QED BY <2>2, <2>3, <2>4, <2>6 DEF LogIs
<1> QED BY <1>5, <1>6

\* Nothing to be logged is on its way to w, or the signal s is: main() is in
\* pause() until it is logged, and SIGTERM may be handled before, after or on top.
Rest(w) == pending[w] \subseteq {"SIGTERM"} /\ frames[w] \in {<<>>, <<"SIGTERM">>}

UnderWay(w, s) ==
    /\ at[w] = "pause"
    /\ \/ s \in pending[w] /\ pending[w] \subseteq {s, "SIGTERM"} /\ frames[w] \in {<<>>, <<"SIGTERM">>}
       \/ pending[w] \subseteq {"SIGTERM"} /\ frames[w] \in {<<s>>, <<s, "SIGTERM">>, <<"SIGTERM", s>>}

SentLines == IF manager_pc = "send" THEN next_line - 1 ELSE next_line

\* What is logged, and then is under way, are the commands that were sent.
WorkerLogged(w) ==
    \/ Rest(w) /\ LogIs(w, log[w], SentLines)
    \/ \E s \in Commanding : UnderWay(w, s) /\ LogIs(w, Append(log[w], s), SentLines)

LogInv ==
    /\ commands \in Seq(Seq(STRING)) /\ next_line \in 0 .. Len(commands)
    /\ log \in [CommandWorkers -> Seq(CommandSignals)]
    /\ manager_pc = "start" => next_line = 0
    /\ manager_pc = "send" =>
          /\ next_line # 0 /\ Valid(commands[next_line])
          /\ target_pid = commands[next_line][1] /\ signal_num = commands[next_line][2]
    /\ manager_pc \in {"term1", "term2", "exit"} => next_line = Len(commands)
    /\ \A w \in CommandWorkers : WorkerLogged(w) /\ (manager_pc # "start" => handles[w] = CommandSignals)

LEMMA Tops ==
    ASSUME NEW s, NEW t
    PROVE  /\ Front(<<s>>) = <<>> /\ Last(<<s>>) = s /\ ToSet(<<s>>) = {s} /\ ToSet(<<>>) = {}
           /\ Front(<<s, t>>) = <<s>> /\ Last(<<s, t>>) = t /\ ToSet(<<s, t>>) = {s, t}
           /\ Append(<<>>, s) = <<s>> /\ Append(<<s>>, t) = <<s, t>>
<1>1. Front(<<s>>) = <<>> /\ Last(<<s>>) = s BY DEF Front, Last
<1>2. Front(<<s, t>>) = <<s>> /\ Last(<<s, t>>) = t
  <2> DEFINE both == <<s, t>>
             one == <<s>>
  <2>1. both \in Seq({s, t}) /\ Len(both) = 2 /\ both[1] = s /\ both[2] = t OBVIOUS
  <2>2. one \in Seq({s, t}) /\ Len(one) = 1 /\ one[1] = s OBVIOUS
  <2> HIDE DEF both, one
  <2>3. SubSeq(both, 1, 1) \in Seq({s, t}) /\ Len(SubSeq(both, 1, 1)) = 1 /\ SubSeq(both, 1, 1)[1] = s BY <2>1
  <2>4. SubSeq(both, 1, 1) = one BY <2>2, <2>3
  <2>5. Front(both) = SubSeq(both, 1, 1) /\ Last(both) = both[2] BY <2>1 DEF Front, Last
  <2> QED BY <2>1, <2>4, <2>5 DEF both, one
<1>3. ToSet(<<s>>) = {s} /\ ToSet(<<>>) = {} BY DEF ToSet
<1>4. ToSet(<<s, t>>) = {s, t}
  <2>1. DOMAIN <<s, t>> = {1, 2} OBVIOUS
  <2> QED BY <2>1 DEF ToSet
<1>5. Append(<<>>, s) = <<s>> OBVIOUS
<1>6. Append(<<s>>, t) = <<s, t>>
  <2> DEFINE both == <<s, t>>
             more == Append(<<s>>, t)
  <2>1. both \in Seq({s, t}) /\ Len(both) = 2 /\ both[1] = s /\ both[2] = t OBVIOUS
  <2>2. <<s>> \in Seq({s, t}) /\ Len(<<s>>) = 1 /\ <<s>>[1] = s OBVIOUS
  <2>3. more \in Seq({s, t}) /\ Len(more) = 2 /\ more[1] = s /\ more[2] = t BY <2>2, AppendProperties
  <2> HIDE DEF both, more
  <2>4. \A i \in 1 .. 2 : i = 1 \/ i = 2 OBVIOUS
  <2>5. more = both BY <2>1, <2>3, <2>4, SeqEqual
  <2> QED BY <2>5 DEF both, more
<1> QED BY <1>1, <1>2, <1>3, <1>4, <1>5, <1>6

\* A handler returns: that of s, under way, or SIGTERM's.
LEMMA HandlerReturns ==
    ASSUME NEW w, w \in DOMAIN frames, w \in DOMAIN at, w \in DOMAIN pending, handles[w] = CommandSignals,
           NEW t \in CommandSignals, HandlerEnds(w, t)
    PROVE  /\ Rest(w) => t = "SIGTERM" /\ Rest(w)'
           /\ \A s \in Commanding : UnderWay(w, s) =>
                 \/ t = s /\ Rest(w)'
                 \/ t = "SIGTERM" /\ UnderWay(w, s)'
<1> DEFINE top == frames[w]
           front == Front(top)
           D == (pending[w] \cap CommandSignals) \ ToSet(front)
<1>1. /\ top # <<>> /\ Last(top) = t
      /\ \/ \E u \in D :
               /\ frames' = [frames EXCEPT ![w] = Append(front, u)]
               /\ pending' = [pending EXCEPT ![w] = @ \ {u}]
               /\ UNCHANGED at
         \/ /\ D = {}
            /\ frames' = [frames EXCEPT ![w] = front]
            /\ at' = [at EXCEPT ![w] = IF @ = "pause" /\ Len(top) = 1 THEN "woken" ELSE @]
            /\ UNCHANGED pending
  BY DEF HandlerEnds
<1>2. \/ \E u \in D : frames'[w] = Append(front, u) /\ pending'[w] = pending[w] \ {u} /\ at'[w] = at[w]
      \/ /\ D = {} /\ frames'[w] = front /\ pending'[w] = pending[w]
         /\ Len(top) # 1 => at'[w] = at[w]
  BY <1>1
<1>3. "SIGTERM" \in CommandSignals /\ "SIGTERM" \notin Commanding /\ \A s \in Commanding : s \in CommandSignals
  BY DEF CommandSignals, Commanding
<1>4. ASSUME Rest(w) PROVE t = "SIGTERM" /\ Rest(w)'
  <2>1. top = <<"SIGTERM">> /\ pending[w] \subseteq {"SIGTERM"} BY <1>1, <1>4 DEF Rest
  <2>2. t = "SIGTERM" /\ front = <<>> BY <1>1, <2>1, Tops
  <2>3. ASSUME NEW u \in D PROVE u = "SIGTERM" /\ Append(front, u) = <<"SIGTERM">> BY <2>1, <2>2, Tops
  <2> HIDE DEF top, front, D
  <2> QED BY <1>2, <2>1, <2>2, <2>3 DEF Rest
<1>5. ASSUME NEW s \in Commanding, UnderWay(w, s)
      PROVE  (t = s /\ Rest(w)') \/ (t = "SIGTERM" /\ UnderWay(w, s)')
  <2>1. CASE s \in pending[w] /\ pending[w] \subseteq {s, "SIGTERM"} /\ top \in {<<>>, <<"SIGTERM">>}
    <3>1. top = <<"SIGTERM">> BY <1>1, <2>1
    <3>2. t = "SIGTERM" /\ front = <<>> /\ ToSet(front) = {} BY <1>1, <3>1, Tops
    <3>3. D = pending[w] BY <1>3, <2>1, <3>2
    <3>4. ASSUME NEW u \in D PROVE u \in {s, "SIGTERM"} /\ Append(front, u) = <<u>> BY <2>1, <3>2, <3>3, Tops
    <3> HIDE DEF top, front, D
    <3>5. PICK u \in D : frames'[w] = Append(front, u) /\ pending'[w] = pending[w] \ {u} /\ at'[w] = at[w]
      BY <1>2, <2>1, <3>3
    <3>6. frames'[w] = <<u>> /\ u \in {s, "SIGTERM"} BY <3>4, <3>5
    <3>7. UnderWay(w, s)' BY <1>3, <1>5, <2>1, <3>5, <3>6 DEF UnderWay
    <3> QED BY <3>2, <3>7
  <2>2. CASE pending[w] \subseteq {"SIGTERM"} /\ top = <<s>>
    <3>1. t = s /\ front = <<>> BY <1>1, <2>2, Tops
    <3>2. ASSUME NEW u \in D PROVE u = "SIGTERM" /\ Append(front, u) = <<"SIGTERM">> BY <2>2, <3>1, Tops
    <3> HIDE DEF top, front, D
    <3> QED BY <1>2, <2>2, <3>1, <3>2 DEF Rest
  <2>3. CASE pending[w] \subseteq {"SIGTERM"} /\ top = <<s, "SIGTERM">>
    <3>1. t = "SIGTERM" /\ front = <<s>>
      <4>1. Front(<<s, "SIGTERM">>) = <<s>> /\ Last(<<s, "SIGTERM">>) = "SIGTERM" BY Tops
      <4>2. Last(top) = t BY <1>1
      <4>3. top = <<s, "SIGTERM">> BY <2>3
      <4> QED BY ONLY <4>1, <4>2, <4>3
    <3>2. ASSUME NEW u \in D PROVE u = "SIGTERM" /\ Append(front, u) = <<s, "SIGTERM">> BY <2>3, <3>1, Tops
    <3>3. Len(top) # 1 BY <2>3
    <3> HIDE DEF top, front, D
    <3>4. at'[w] = at[w] /\ pending'[w] \subseteq {"SIGTERM"} /\ frames'[w] \in {<<s>>, <<s, "SIGTERM">>}
      BY <1>2, <2>3, <3>1, <3>2, <3>3
    <3>5. UnderWay(w, s)' BY <1>5, <3>4 DEF UnderWay
    <3> QED BY <3>1, <3>5
  <2>4. CASE pending[w] \subseteq {"SIGTERM"} /\ top = <<"SIGTERM", s>>
    <3>1. t = s /\ front = <<"SIGTERM">> /\ ToSet(front) = {"SIGTERM"}
      <4>1. Front(<<"SIGTERM", s>>) = <<"SIGTERM">> /\ Last(<<"SIGTERM", s>>) = s /\ ToSet(<<"SIGTERM">>) = {"SIGTERM"}
        BY Tops
      <4>2. Last(top) = t BY <1>1
      <4>3. top = <<"SIGTERM", s>> BY <2>4
      <4> QED BY ONLY <4>1, <4>2, <4>3
    <3>2. D = {} BY <2>4, <3>1
    <3> HIDE DEF top, front, D
    <3> QED BY <1>2, <2>4, <3>1, <3>2 DEF Rest
  <2> QED BY <1>5, <2>1, <2>2, <2>3, <2>4 DEF UnderWay
<1> QED BY <1>4, <1>5

LEMMA SignalComes ==
    ASSUME NEW w, w \in DOMAIN frames, w \in DOMAIN pending, NEW t \in CommandSignals, Interrupt(w, t)
    PROVE  /\ Rest(w) => Rest(w)'
           /\ \A s \in Commanding : UnderWay(w, s) => UnderWay(w, s)'
<1> DEFINE top == frames[w]
<1>1. /\ t \in pending[w] /\ t \notin ToSet(top) /\ at'[w] = at[w]
      /\ pending'[w] = pending[w] \ {t} /\ frames'[w] = Append(top, t)
  BY DEF Interrupt
<1>2. top = <<"SIGTERM">> => t # "SIGTERM" BY <1>1, Tops
<1>3. ASSUME NEW x PROVE Append(<<>>, t) = <<t>> /\ Append(<<x>>, t) = <<x, t>> BY Tops
<1>4. ASSUME Rest(w) PROVE Rest(w)'
  <2>1. t = "SIGTERM" /\ top = <<>> BY <1>1, <1>2, <1>4 DEF Rest
  <2> HIDE DEF top
  <2>2. frames'[w] = <<"SIGTERM">> /\ pending'[w] = {}  BY <1>1, <1>3, <1>4, <2>1 DEF Rest
  <2> QED BY <2>2 DEF Rest
<1>5. ASSUME NEW s \in Commanding, UnderWay(w, s) PROVE UnderWay(w, s)'
  <2>1. s # "SIGTERM" BY DEF Commanding
  <2>2. CASE s \in pending[w] /\ pending[w] \subseteq {s, "SIGTERM"} /\ top = <<>>
    <3>1. frames'[w] = <<t>> /\ t \in {s, "SIGTERM"} BY <1>1, <1>3, <2>2
    <3> QED BY <1>1, <1>5, <2>1, <2>2, <3>1 DEF UnderWay
  <2>3. CASE s \in pending[w] /\ pending[w] \subseteq {s, "SIGTERM"} /\ top = <<"SIGTERM">>
    <3>1. frames'[w] = <<"SIGTERM", t>> /\ t = s BY <1>1, <1>2, <1>3, <2>3
    <3> QED BY <1>1, <1>5, <2>1, <2>3, <3>1 DEF UnderWay
  <2>4. CASE pending[w] \subseteq {"SIGTERM"} /\ top \in {<<s>>, <<s, "SIGTERM">>, <<"SIGTERM", s>>}
    <3>1. t = "SIGTERM" BY <1>1, <2>4
    <3>2. top = <<s>>
      <4>1. ToSet(<<s, "SIGTERM">>) = {s, "SIGTERM"} /\ ToSet(<<"SIGTERM", s>>) = {"SIGTERM", s} BY Tops
      <4> QED BY <1>1, <2>4, <3>1, <4>1
    <3>3. frames'[w] = <<s, "SIGTERM">> BY <1>1, <1>3, <3>1, <3>2
    <3> QED BY <1>1, <1>5, <2>4, <3>3 DEF UnderWay
  <2> QED BY <1>5, <2>2, <2>3, <2>4 DEF UnderWay
<1> QED BY <1>4, <1>5

LEMMA WorkerLoggedNext ==
    ASSUME UNCHANGED commands, NEW w
    PROVE  WorkerLogged(w)' <=> \/ Rest(w)' /\ LogIs(w, log'[w], SentLines')
                                \/ \E s \in Commanding : UnderWay(w, s)' /\ LogIs(w, Append(log'[w], s), SentLines')
BY DEF WorkerLogged, LogIs, LinesFor, Valid, Commanding

LEMMA WorkerLogs ==
    ASSUME CommandsInv, LogInv, NEW w \in CommandWorkers, CommandWorker(w)
    PROVE  /\ log' \in [CommandWorkers -> Seq(CommandSignals)] /\ \A v \in CommandWorkers \ {w} : log'[v] = log[v]
           /\ WorkerLogged(w)' /\ (manager_pc # "start" => handles'[w] = CommandSignals)
<1>1. /\ w \in DOMAIN at /\ w \in DOMAIN pending /\ w \in DOMAIN handles /\ w \in DOMAIN frames
      /\ log \in [CommandWorkers -> Seq(CommandSignals)]
  BY DEF CommandsInv, LogInv
<1>2. UNCHANGED <<commands, next_line, manager_pc>> BY DEF CommandWorker, managerVars
<1>3. SentLines' = SentLines BY <1>2 DEF SentLines
<1>4. WorkerLogged(w) BY DEF LogInv
\* Steps that log nothing.
<1>5. ASSUME log' = log, Rest(w) => Rest(w)', \A s \in Commanding : UnderWay(w, s) => UnderWay(w, s)',
             manager_pc # "start" => handles'[w] = CommandSignals
      PROVE  /\ log' \in [CommandWorkers -> Seq(CommandSignals)] /\ \A v \in CommandWorkers \ {w} : log'[v] = log[v]
             /\ WorkerLogged(w)' /\ (manager_pc # "start" => handles'[w] = CommandSignals)
  BY <1>1, <1>2, <1>3, <1>4, <1>5, WorkerLoggedNext DEF WorkerLogged
<1>6. CASE manager_pc = "start"
  <2>1. Starting(w) BY <1>6 DEF CommandsInv, WorkerInv
  <2>2. Starting(w)' BY <2>1, StartingStep
  <2>3. frames[w] = <<>> /\ pending[w] = {} BY <2>1 DEF Starting
  <2>4. log' = log
    <3>1. ~(\E s : HandlerEnds(w, s)) BY <2>3 DEF HandlerEnds
    <3> QED BY <3>1 DEF CommandWorker, InstallHandlers, InstallFor, TestRunning, CallPause, SigtermHandler, LogSignal,
                        SignalDelivered
  <2>5. Rest(w)' BY <2>2 DEF Starting, Rest
  <2>6. \A s \in Commanding : ~UnderWay(w, s) BY <2>3 DEF UnderWay
  <2> QED BY <1>5, <1>6, <2>4, <2>5, <2>6
<1>7. CASE manager_pc # "start"
  <2>1. handles[w] = CommandSignals BY <1>7 DEF LogInv
  <2>2. CASE InstallHandlers(w) \/ TestRunning(w) \/ (CallPause(w) /\ UNCHANGED <<keep_running, log>>)
    <3>1. /\ UNCHANGED <<pending, frames, log>> /\ frames[w] = <<>> /\ at[w] # "pause"
          /\ handles'[w] = CommandSignals
      <4>1. CASE InstallHandlers(w) BY <1>1, <2>1, <4>1 DEF InstallHandlers, InstallFor, Install, Goes, CommandSignals
      <4>2. CASE TestRunning(w) BY <2>1, <4>2 DEF TestRunning, Goes
      <4>3. CASE CallPause(w) /\ UNCHANGED <<keep_running, log>> BY <2>1, <4>3 DEF CallPause, Goes
      <4> QED BY <2>2, <4>1, <4>2, <4>3
    <3>2. Rest(w) => Rest(w)' BY <3>1 DEF Rest
    <3>3. \A s \in Commanding : ~UnderWay(w, s) BY <3>1 DEF UnderWay
    <3> QED BY <1>5, <3>1, <3>2, <3>3
  <2>3. CASE SigtermHandler(w)
    <3>1. HandlerEnds(w, "SIGTERM") /\ log' = log /\ handles' = handles
      BY <2>3 DEF SigtermHandler, HandlerEnds
    <3>2. "SIGTERM" \in CommandSignals /\ "SIGTERM" \notin Commanding BY DEF CommandSignals, Commanding
    <3>3. /\ Rest(w) => Rest(w)'
          /\ \A s \in Commanding : UnderWay(w, s) => UnderWay(w, s)'
      BY <1>1, <2>1, <3>1, <3>2, HandlerReturns
    <3> QED BY <1>5, <2>1, <3>1, <3>3
  <2>4. ASSUME NEW t \in CommandSignals, LogSignal(w, t)
        PROVE  /\ log' \in [CommandWorkers -> Seq(CommandSignals)] /\ \A v \in CommandWorkers \ {w} : log'[v] = log[v]
               /\ WorkerLogged(w)' /\ handles'[w] = CommandSignals
    <3>1. HandlerEnds(w, t) /\ handles' = handles /\ log' = [log EXCEPT ![w] = Append(@, t)] /\ t # "SIGTERM"
      BY <2>4 DEF LogSignal, HandlerEnds
    <3>2. /\ ~Rest(w)
          /\ \A s \in Commanding : UnderWay(w, s) => t = s /\ Rest(w)'
      BY <1>1, <2>1, <3>1, HandlerReturns
    <3>3. PICK s \in Commanding : UnderWay(w, s) /\ LogIs(w, Append(log[w], s), SentLines) BY <1>4, <3>2 DEF WorkerLogged
    <3>4. log[w] \in Seq(CommandSignals) BY <1>1
    <3>5. log'[w] = Append(log[w], s) /\ Append(log[w], s) \in Seq(CommandSignals)
      BY <1>1, <3>1, <3>2, <3>3, <3>4, AppendProperties
    <3>6. WorkerLogged(w)' BY <1>2, <1>3, <3>2, <3>3, <3>5, WorkerLoggedNext
    <3> QED BY <1>1, <2>1, <3>1, <3>5, <3>6
  <2>5. CASE SignalDelivered(w)
    <3>1. ~Kill(w)
      <4>1. Rest(w) => pending[w] \subseteq CommandSignals BY DEF Rest, CommandSignals
      <4>2. \A s \in Commanding : UnderWay(w, s) => pending[w] \subseteq CommandSignals
        BY DEF UnderWay, Commanding, CommandSignals
      <4>3. pending[w] \subseteq CommandSignals BY <1>4, <4>1, <4>2 DEF WorkerLogged
      <4> QED BY <2>1, <4>3 DEF Kill
    <3>2. PICK t \in CommandSignals : Interrupt(w, t) BY <2>5, <3>1 DEF SignalDelivered
    <3>3. log' = log /\ handles' = handles BY <2>5, <3>2 DEF SignalDelivered, Interrupt
    <3> QED BY <1>1, <1>5, <2>1, <3>2, <3>3, SignalComes
  <2> QED BY <1>7, <2>2, <2>3, <2>4, <2>5 DEF CommandWorker
<1> QED BY <1>6, <1>7

LEMMA ManagerLogs ==
    ASSUME CommandsInv, LogInv, Calm, Manager
    PROVE  LogInv'
<1>1. UNCHANGED <<commands, at, handles, frames, log>>
  BY DEF Manager, StartManager, ReadCommand, SendSignalToWorker, EndOfCommands, Terminate, signalVars
<1>2. /\ commands \in Seq(Seq(STRING)) /\ next_line \in 0 .. Len(commands) /\ Len(commands) \in Nat
      /\ log \in [CommandWorkers -> Seq(CommandSignals)]
      /\ DOMAIN pending = CommandWorkers
  BY DEF LogInv, CommandsInv
<1>3. ASSUME NEW w \in CommandWorkers PROVE WorkerLogged(w) BY DEF LogInv
<1>4. ASSUME NEW w \in CommandWorkers, UNCHANGED <<pending, SentLines>> PROVE WorkerLogged(w)'
  BY <1>1, <1>3, <1>4, WorkerLoggedNext DEF WorkerLogged, Rest, UnderWay
<1>5. CASE StartManager
  <2>1. manager_pc = "start" /\ manager_pc' = "read" /\ next_line' = next_line /\ UNCHANGED <<pending, SentLines>>
        /\ \A w \in CommandWorkers : Idle(w)
    BY <1>5 DEF StartManager, signalVars, SentLines, WorkersReady
  <2>2. ASSUME NEW w \in CommandWorkers PROVE handles[w] = CommandSignals
    BY <2>1 DEF CommandsInv, WorkerInv, Starting, Idle, Gone
  <2> QED BY <1>1, <1>2, <1>4, <2>1, <2>2 DEF LogInv
<1>6. CASE ReadCommand
  <2> DEFINE n == next_line
             line == commands[n + 1]
  <2>1. manager_pc = "read" /\ n < Len(commands) /\ next_line' = n + 1 /\ UNCHANGED pending BY <1>6 DEF ReadCommand, signalVars
  <2>2. n \in Nat /\ n + 1 \in 1 .. Len(commands) BY <1>2, <2>1
  <2>3. \A w \in CommandWorkers : handles'[w] = CommandSignals BY <1>1, <2>1 DEF LogInv
  <2>4. CASE Valid(line)
    <3>1. manager_pc' = "send" /\ target_pid' = line[1] /\ signal_num' = line[2] BY <1>6, <2>4 DEF ReadCommand
    <3>2. SentLines' = SentLines BY <2>1, <2>2, <3>1 DEF SentLines
    <3>3. Valid(commands[next_line])' BY <1>1, <2>1, <2>4 DEF Valid
    <3> QED BY <1>1, <1>2, <1>4, <2>1, <2>2, <2>3, <3>1, <3>2, <3>3 DEF LogInv
  <2>5. CASE ~Valid(line)
    <3>1. UNCHANGED manager_pc BY <1>6, <2>5 DEF ReadCommand
    <3>2. SentLines = n /\ SentLines' = n + 1 BY <2>1, <3>1 DEF SentLines
    <3>3. ASSUME NEW w \in CommandWorkers PROVE WorkerLogged(w)'
      <4>1. n + 1 \notin LinesFor(w, n + 1) BY <2>5 DEF LinesFor
      <4>2. ASSUME NEW l \in Seq(CommandSignals), LogIs(w, l, n) PROVE LogIs(w, l, n + 1)
        BY <2>2, <4>1, <4>2, LogNext
      <4>3. log[w] \in Seq(CommandSignals) BY <1>2
      <4>4. \A s \in Commanding : Append(log[w], s) \in Seq(CommandSignals)
        <5>1. \A s \in Commanding : s \in CommandSignals BY DEF Commanding, CommandSignals
        <5> QED BY <4>3, <5>1, AppendProperties
      <4>5. /\ Rest(w)' <=> Rest(w)
            /\ \A s \in Commanding : UnderWay(w, s)' <=> UnderWay(w, s)
        BY <1>1, <2>1 DEF Rest, UnderWay
      <4> HIDE DEF n
      <4>6. WorkerLogged(w)' <=> \/ Rest(w) /\ LogIs(w, log[w], n + 1)
                                 \/ \E s \in Commanding : UnderWay(w, s) /\ LogIs(w, Append(log[w], s), n + 1)
        BY <1>1, <3>2, <4>5, WorkerLoggedNext
      <4>7. \/ Rest(w) /\ LogIs(w, log[w], n)
            \/ \E s \in Commanding : UnderWay(w, s) /\ LogIs(w, Append(log[w], s), n)
        BY <1>3, <3>2 DEF WorkerLogged
      <4> QED BY <4>2, <4>3, <4>4, <4>6, <4>7
    <3> QED BY <1>1, <1>2, <2>1, <2>2, <2>3, <3>1, <3>3 DEF LogInv
  <2> QED BY <2>4, <2>5
<1>7. CASE SendSignalToWorker
  <2> DEFINE n == next_line - 1
  <2>1. /\ manager_pc = "send" /\ manager_pc' = "read" /\ UNCHANGED <<next_line, target_pid, signal_num>>
        /\ \A w \in CommandWorkers : Idle(w)
        /\ Post(target_pid, signal_num)
    BY <1>7 DEF SendSignalToWorker, WorkersReady
  <2>2. /\ next_line # 0 /\ Valid(commands[next_line])
        /\ target_pid = commands[next_line][1] /\ signal_num = commands[next_line][2]
    BY <2>1 DEF LogInv
  <2>3. n \in Nat /\ next_line = n + 1 BY <1>2, <2>2
  <2>4. SentLines = n /\ SentLines' = n + 1 BY <2>1, <2>3 DEF SentLines
  <2>5. signal_num \in Commanding /\ target_pid \in CommandWorkers BY <2>2 DEF Valid, Commanding
  <2>6. ASSUME NEW w \in CommandWorkers
        PROVE  at[w] = "pause" /\ pending[w] = {} /\ frames[w] = <<>> /\ LogIs(w, log[w], n)
               /\ log[w] \in Seq(CommandSignals)
    <3>1. pending[w] = {} /\ frames[w] = <<>> BY <2>1 DEF Idle
    <3>2. at[w] = "pause" BY <2>1 DEF CommandsInv, WorkerInv, Busy, Idle, Gone
    <3>3. \A s \in Commanding : ~UnderWay(w, s) BY <3>1 DEF UnderWay
    <3> QED BY <1>2, <1>3, <2>4, <3>1, <3>2, <3>3 DEF WorkerLogged
  <2>7. /\ DOMAIN pending' = CommandWorkers
        /\ \A w \in CommandWorkers : pending'[w] = IF w = target_pid THEN {signal_num} ELSE {}
    BY <1>2, <2>1, <2>5, <2>6 DEF Post, Gone
  <2> HIDE DEF n
  <2>8. ASSUME NEW w \in CommandWorkers PROVE WorkerLogged(w)'
    <3>1. CASE w = target_pid
      <4>1. n + 1 \in LinesFor(w, n + 1) /\ commands[n + 1][2] = signal_num
        BY <2>2, <2>3, <3>1 DEF LinesFor
      <4>2. signal_num \in CommandSignals BY <2>5 DEF Commanding, CommandSignals
      <4>3. LogIs(w, Append(log[w], signal_num), n + 1) BY <2>3, <2>6, <4>1, <4>2, LogNext
      <4>4. PICK s \in Commanding : s = signal_num BY <2>5
      <4>5. UnderWay(w, s)'
        <5>1. at'[w] = "pause" /\ pending'[w] = {s} /\ frames'[w] = <<>> BY <1>1, <2>6, <2>7, <3>1, <4>4
        <5> QED BY <5>1 DEF UnderWay
      <4>6. LogIs(w, Append(log'[w], s), SentLines') BY <1>1, <2>4, <4>3, <4>4
      <4> QED BY <1>1, <4>5, <4>6, WorkerLoggedNext
    <3>2. CASE w # target_pid
      <4>1. n + 1 \notin LinesFor(w, n + 1) BY <2>2, <2>3, <3>2 DEF LinesFor
      <4>2. LogIs(w, log[w], n + 1) BY <2>3, <2>6, <4>1, LogNext
      <4>3. Rest(w)' BY <1>1, <2>6, <2>7, <3>2 DEF Rest
      <4> QED BY <1>1, <2>4, <4>2, <4>3, WorkerLoggedNext
    <3> QED BY <3>1, <3>2
  <2>9. \A w \in CommandWorkers : handles'[w] = CommandSignals BY <1>1, <2>1 DEF LogInv
  <2> QED BY <1>1, <1>2, <2>1, <2>8, <2>9 DEF LogInv
<1>8. CASE EndOfCommands
  <2>1. manager_pc = "read" /\ next_line = Len(commands) /\ manager_pc' = "term1" /\ next_line' = next_line
        /\ UNCHANGED <<pending, SentLines>>
    BY <1>8 DEF EndOfCommands, signalVars, SentLines
  <2> QED BY <1>1, <1>2, <1>4, <2>1 DEF LogInv
<1>9. CASE Terminate
  <2>1. /\ manager_pc \in {"term1", "term2"} /\ manager_pc' \in {"term2", "exit"} /\ next_line' = next_line
        /\ SentLines' = SentLines
        /\ \E v : Post(v, "SIGTERM")
    BY <1>9 DEF Terminate, SentLines
  <2>2. ASSUME NEW w \in CommandWorkers PROVE pending'[w] \in {pending[w], pending[w] \cup {"SIGTERM"}}
    BY <1>2, <2>1 DEF Post
  <2>3. ASSUME NEW w \in CommandWorkers PROVE WorkerLogged(w)'
    <3>1. Rest(w) => Rest(w)' BY <1>1, <2>2 DEF Rest
    <3>2. ASSUME NEW s \in Commanding, UnderWay(w, s) PROVE UnderWay(w, s)'
      BY <1>1, <2>2, <3>2 DEF UnderWay
    <3> QED BY <1>1, <1>3, <2>1, <3>1, <3>2, WorkerLoggedNext DEF WorkerLogged
  <2> QED BY <1>1, <1>2, <2>1, <2>3 DEF LogInv
<1> QED BY <1>5, <1>6, <1>7, <1>8, <1>9 DEF Manager

LEMMA CommandsLogStep == ASSUME CommandsInv, LogInv, Calm, commandsSteps PROVE LogInv'
<1>1. ASSUME NEW v \in CommandWorkers, CommandWorker(v) PROVE LogInv'
  <2>1. UNCHANGED <<commands, next_line, manager_pc, target_pid, signal_num>> BY <1>1 DEF CommandWorker, managerVars
  <2>2. SentLines' = SentLines BY <2>1 DEF SentLines
  <2>3. ASSUME NEW w \in CommandWorkers PROVE WorkerLogged(w)' /\ (manager_pc # "start" => handles'[w] = CommandSignals)
    <3>1. CASE w = v BY <1>1, <3>1, WorkerLogs
    <3>2. CASE w # v
      <4>1. log'[w] = log[w] BY <1>1, <3>2, WorkerLogs
      <4>2. at'[w] = at[w] /\ pending'[w] = pending[w] /\ handles'[w] = handles[w] /\ frames'[w] = frames[w]
        BY <1>1, <3>2, WorkerStays
      <4>3. /\ Rest(w)' <=> Rest(w)
            /\ \A s \in Commanding : UnderWay(w, s)' <=> UnderWay(w, s)
        BY <4>2 DEF Rest, UnderWay
      <4>4. WorkerLogged(w) /\ (manager_pc # "start" => handles[w] = CommandSignals) BY DEF LogInv
      <4> QED BY <2>1, <2>2, <4>1, <4>2, <4>3, <4>4, WorkerLoggedNext DEF WorkerLogged
    <3> QED BY <3>1, <3>2
  <2>4. Valid(commands[next_line])' <=> Valid(commands[next_line]) BY <2>1 DEF Valid
  <2>5. log' \in [CommandWorkers -> Seq(CommandSignals)] BY <1>1, WorkerLogs
  <2> QED BY <2>1, <2>3, <2>4, <2>5 DEF LogInv
<1> QED BY <1>1, ManagerLogs DEF commandsSteps, CommandsNext

\* For any file of commands, at the pace its authors had in mind: both logs are
\* complete and in order, and only SIGTERM's handler meets another one.
THEOREM LogsAreComplete == CommandsSpec => []LogsMatchCommands
<1> DEFINE Inv == Calm => CommandsInv /\ LogInv
<1>1. CommandsInit /\ CommandsPausing => Inv
  <2> SUFFICES ASSUME CommandsInit, CommandsPausing PROVE CommandsInv /\ LogInv OBVIOUS
  <2>1. CommandsInv BY DEF CommandsInit, CommandsPausing, CommandsInv, WorkerInv, Starting, CommandWorkers
  <2>2. commands \in Seq(Seq(STRING)) /\ next_line = 0 /\ manager_pc = "start" BY CommandsAssumption DEF CommandsInit
  <2>3. log \in [CommandWorkers -> Seq(CommandSignals)]
    <3>1. <<>> \in Seq(CommandSignals) BY EmptySeq
    <3> QED BY <3>1 DEF CommandsInit
  <2>4. ASSUME NEW w \in CommandWorkers PROVE WorkerLogged(w)
    <3>1. log[w] = <<>> /\ Rest(w) BY DEF CommandsInit, CommandsPausing, Rest
    <3>2. LinesFor(w, 0) = {} BY DEF LinesFor
    <3>3. LogIs(w, log[w], 0) BY <3>1, <3>2, FS_EmptySet DEF LogIs
    <3> QED BY <2>2, <3>1, <3>3 DEF WorkerLogged, SentLines
  <2> QED BY <2>1, <2>2, <2>3, <2>4 DEF LogInv
<1>2. Inv /\ [commandsSteps]_<<commandVars, signalVars, courseVars>> => Inv'
  <2> SUFFICES ASSUME Inv, [commandsSteps]_<<commandVars, signalVars, courseVars>>, Calm' PROVE (CommandsInv /\ LogInv)' OBVIOUS
  <2>1. Calm BY DEF commandsSteps, courseVars, Calm
  <2>2. CASE commandsSteps BY <2>1, <2>2, CommandsStep, CommandsLogStep
  <2>3. CASE UNCHANGED <<commandVars, signalVars>>
    <3>1. UNCHANGED <<manager_pc, target_pid, signal_num, keep_running, at, pending, handles, frames, commands, next_line, log>>
      BY <2>3 DEF commandVars, managerVars, signalVars
    <3>2. ASSUME NEW w \in CommandWorkers, WorkerInv(w) PROVE WorkerInv(w)'
      BY <3>1, <3>2 DEF WorkerInv, Starting, Quiet, Busy, Ending, LastAddressee
    <3>3. CommandsInv' BY <2>1, <3>1, <3>2 DEF CommandsInv
    <3>4. SentLines' = SentLines BY <3>1 DEF SentLines
    <3>5. ASSUME NEW w \in CommandWorkers PROVE WorkerLogged(w)'
      <4>1. WorkerLogged(w) BY <2>1 DEF LogInv
      <4>2. /\ Rest(w)' <=> Rest(w)
            /\ \A s \in Commanding : UnderWay(w, s)' <=> UnderWay(w, s)
        BY <3>1 DEF Rest, UnderWay
      <4> QED BY <3>1, <3>4, <4>1, <4>2, WorkerLoggedNext DEF WorkerLogged
    <3>6. Valid(commands[next_line])' <=> Valid(commands[next_line]) BY <3>1 DEF Valid
    <3>7. LogInv' BY <2>1, <3>1, <3>5, <3>6 DEF LogInv
    <3> QED BY <3>3, <3>7
  <2> QED BY <2>2, <2>3
<1>3. Inv => LogsMatchCommands
  <2> SUFFICES ASSUME CommandsInv, LogInv, NEW w \in CommandWorkers
               PROVE  /\ CommandsOver => LogIs(w, log[w], Len(commands))
                      /\ \A i, j \in DOMAIN frames[w] : "SIGTERM" \notin {frames[w][i], frames[w][j]} => i = j
    BY DEF LogsMatchCommands
  <2>1. WorkerLogged(w) BY DEF LogInv
  <2>2. ASSUME CommandsOver PROVE LogIs(w, log[w], Len(commands))
    <3>1. pending[w] = {} /\ frames[w] = <<>> /\ manager_pc = "exit" BY <2>2 DEF CommandsOver, Idle
    <3>2. SentLines = Len(commands) BY <3>1 DEF LogInv, SentLines
    <3>3. \A s \in Commanding : ~UnderWay(w, s) BY <3>1 DEF UnderWay
    <3> QED BY <2>1, <3>2, <3>3 DEF WorkerLogged
  <2>3. \E s : frames[w] \in {<<>>, <<"SIGTERM">>, <<s>>, <<s, "SIGTERM">>, <<"SIGTERM", s>>}
    BY <2>1 DEF WorkerLogged, Rest, UnderWay
  <2>4. PICK s : frames[w] \in {<<>>, <<"SIGTERM">>, <<s>>, <<s, "SIGTERM">>, <<"SIGTERM", s>>} BY <2>3
  <2>5. ASSUME NEW i \in DOMAIN frames[w], NEW j \in DOMAIN frames[w], "SIGTERM" \notin {frames[w][i], frames[w][j]}
        PROVE  i = j
    <3>1. CASE frames[w] \in {<<>>, <<"SIGTERM">>, <<s>>} BY <2>5, <3>1
    <3>2. CASE frames[w] = <<s, "SIGTERM">>
      <4>1. i = 1 /\ j = 1 BY <2>5, <3>2
      <4> QED BY <4>1
    <3>3. CASE frames[w] = <<"SIGTERM", s>>
      <4>1. i = 2 /\ j = 2 BY <2>5, <3>3
      <4> QED BY <4>1
    <3> QED BY <2>4, <3>1, <3>2, <3>3
  <2> QED BY <2>2, <2>5
<1> QED BY <1>1, <1>2, <1>3, PTL DEF CommandsSpec, commandsSteps

-----------------------------------------------------------------------------
(* The time plotter *)

\* What has been printed adds up.
AddsUp ==
    /\ now \in Nat /\ last_time \in Nat /\ first_time \in Nat
    /\ current_time \in Nat \cup {NotRead}
    /\ elapsed \in Seq(Int)
    /\ first_call => elapsed = <<>> /\ last_time = first_time
    /\ SumFunction(elapsed) = last_time - first_time

\* At a proper pace an alarm is handled in the interval in which it came.
InTime(then) == first_call \/ last_time = then

OnTime ==
    LET p == "plotter" IN
    /\ DOMAIN at = {p} /\ DOMAIN pending = {p} /\ DOMAIN frames = {p} /\ DOMAIN handles = {p}
    /\ now \in Nat /\ last_time \in Nat
    /\ \A i \in DOMAIN elapsed : elapsed[i] = 1
    /\ elapsed \in Seq(Int)
    /\ at[p] \in {"unborn", "exec", "sigaction", "call", "pause", "woken", "exit", "killed"}
    /\ driver_pc \in {"fork", "exit", "usleep", "kill"}
    /\ driver_pc \in {"fork", "exit"} => at[p] = "unborn"
    /\ at[p] \in Gone => pending[p] = {} /\ frames[p] = <<>>
    /\ at[p] \in {"unborn", "exec", "sigaction"}
          => first_call /\ pending[p] = {} /\ frames[p] = <<>> /\ handles[p] = {}
    /\ at[p] \in {"unborn", "exec", "sigaction", "call", "woken"} => current_time = NotRead
    /\ at[p] \in {"call", "pause", "woken"} => handles[p] = {"SIGALRM"}
    /\ at[p] \in {"call", "woken"} => InTime(now) /\ pending[p] = {} /\ frames[p] = <<>>
    /\ driver_pc = "kill" =>
          Idle(p) /\ (at[p] = "pause" => InTime(now - 1) /\ current_time = NotRead)
    /\ at[p] = "pause" =>
          \/ driver_pc = "kill"
          \/ pending[p] = {"SIGALRM"} /\ frames[p] = <<>> /\ current_time = NotRead /\ InTime(now - 1)
          \/ pending[p] = {} /\ frames[p] = <<"SIGALRM">> /\ current_time \in {NotRead, now} /\ InTime(now - 1)
          \/ pending[p] = {} /\ frames[p] = <<>> /\ current_time = NotRead /\ InTime(now)

plotterSteps == PlotterNext /\ UNCHANGED courseVars

LEMMA SumAppend ==
    ASSUME NEW s \in Seq(Int), NEW x \in Int
    PROVE  SumFunction(Append(s, x)) = SumFunction(s) + x
<1> DEFINE n == Len(s)
           t == Append(s, x)
<1>1. n \in Nat OBVIOUS
<1>2. DOMAIN s = 1 .. n /\ DOMAIN t = (1 .. n) \cup {n + 1} /\ n + 1 \notin 1 .. n BY <1>1
<1>3. (\A i \in 1 .. n : t[i] = s[i] /\ s[i] \in Int) /\ t[n + 1] = x BY <1>1
<1>4. IsFiniteSet(1 .. n) BY <1>1, FS_Interval
<1> HIDE DEF n, t
<1>5. SumFunctionOnSet(t, (1 .. n) \cup {n + 1}) = SumFunctionOnSet(t, 1 .. n) + t[n + 1]
  <2>1. \A y \in (1 .. n) \cup {n + 1} : t[y] \in Int BY <1>3
  <2> QED BY <1>2, <1>4, <2>1, SumAdd
<1>6. SumFunctionOnSet(t, 1 .. n) = SumFunctionOnSet(s, 1 .. n) BY <1>3, <1>4, SumSame
<1> QED BY <1>2, <1>3, <1>5, <1>6 DEF SumFunction, n, t

LEMMA AddsUpStep == ASSUME AddsUp, PlotterNext PROVE AddsUp'
<1> USE DEF AddsUp, NotRead
<1>1. CASE Driver
  <2>1. UNCHANGED <<first_call, last_time, current_time, first_time, elapsed>> /\ now' \in {now, now + 1}
    BY <1>1 DEF Driver, ForkPlotter, Usleep, SendAlarm
  <2> QED BY <2>1
<1>2. CASE TimePlotter
  <2>1. CASE PlotterMain BY <1>2, <2>1 DEF TimePlotter, PlotterMain
  <2>2. CASE GetTime BY <1>2, <2>2 DEF TimePlotter, GetTime
  <2>3. CASE PrintElapsed
    <3>1. /\ current_time \in Nat /\ last_time' = current_time /\ current_time' = NotRead /\ first_call' = FALSE
          /\ now' = now
      BY <1>2, <2>3 DEF PrintElapsed, TimePlotter
    <3>2. CASE first_call
      <4>1. first_time' = current_time /\ elapsed' = elapsed /\ SumFunction(elapsed) = 0 BY <2>3, <3>2 DEF PrintElapsed
      <4>2. SumFunction(elapsed)' = 0 BY <4>1
      <4> QED BY <3>1, <4>1, <4>2
    <3>3. CASE ~first_call
      <4>1. first_time' = first_time /\ elapsed' = Append(elapsed, current_time - last_time)
        BY <2>3, <3>3 DEF PrintElapsed
      <4>2. current_time - last_time \in Int BY <3>1
      <4>3. SumFunction(elapsed') = SumFunction(elapsed) + (current_time - last_time) BY <4>1, <4>2, SumAppend
      <4>4. elapsed' \in Seq(Int) BY <4>1, <4>2
      <4>5. SumFunction(elapsed') = last_time' - first_time' BY <3>1, <4>1, <4>3
      <4> QED BY <3>1, <4>1, <4>4, <4>5
    <3> QED BY <3>2, <3>3
  <2> QED BY <1>2, <2>1, <2>2, <2>3 DEF TimePlotter
<1> QED BY <1>1, <1>2 DEF PlotterNext

LEMMA OnTimeStep == ASSUME OnTime, Calm, PlotterNext PROVE OnTime'
<1> USE DEF OnTime, NotRead, Gone, InTime
<1>1. CASE Driver
  <2>1. CASE ForkPlotter BY <1>1, <2>1 DEF Driver, ForkPlotter
  <2>2. CASE Usleep
    <3>1. driver_pc = "usleep" /\ driver_pc' = "kill" /\ now' = now + 1 /\ Idle("plotter") /\ UNCHANGED <<at, pending>>
      BY <2>2 DEF Usleep
    <3>2. Idle("plotter")' BY <1>1, <3>1 DEF Driver, Idle
    <3>3. now' - 1 = now BY <3>1
    <3> QED BY <1>1, <3>1, <3>2, <3>3 DEF Driver, Idle
  <2>3. CASE SendAlarm
    <3>1. at["plotter"] = "pause" => pending' = [pending EXCEPT !["plotter"] = {"SIGALRM"}]
      BY <2>3 DEF SendAlarm, Post, Idle
    <3>2. at["plotter"] # "pause" => pending' = pending BY <2>3 DEF SendAlarm, Post, Idle
    <3>3. driver_pc = "kill" /\ driver_pc' = "usleep" /\ UNCHANGED <<now, at, first_call, last_time, current_time, elapsed, handles, frames>>
      BY <1>1, <2>3 DEF SendAlarm, Driver
    <3>4. Idle("plotter") BY <3>3
    <3> QED BY <3>1, <3>2, <3>3, <3>4 DEF Idle
  <2> QED BY <1>1, <2>1, <2>2, <2>3 DEF Driver
<1>2. CASE TimePlotter
  <2>0. UNCHANGED <<now, driver_pc>> BY <1>2 DEF TimePlotter
  <2>1. CASE PlotterMain
    <3>0. UNCHANGED <<first_call, last_time, current_time, elapsed>> BY <2>1 DEF PlotterMain
    <3>1. CASE ExecPlotter BY <2>0, <3>0, <3>1 DEF ExecPlotter, Goes, Idle
    <3>2. CASE InstallAlarmHandler BY <2>0, <3>0, <3>2 DEF InstallAlarmHandler, Goes, Install, Idle
    <3>3. CASE PauseAgain BY <2>0, <3>0, <3>3 DEF PauseAgain, Goes, Idle
    <3>4. CASE CallPause("plotter") BY <2>0, <3>0, <3>4 DEF CallPause, Goes, Idle
    <3>5. CASE Interrupt("plotter", "SIGALRM")
      <4>1. /\ at["plotter"] = "pause" /\ pending["plotter"] = {"SIGALRM"} /\ frames["plotter"] = <<>>
            /\ driver_pc # "kill"
        BY <3>5 DEF Interrupt, Idle
      <4>2. /\ frames' = [frames EXCEPT !["plotter"] = <<"SIGALRM">>] /\ pending' = [pending EXCEPT !["plotter"] = {}]
            /\ UNCHANGED <<at, handles>>
        BY <3>5, <4>1, InterruptAlone
      <4> QED BY <2>0, <3>0, <4>1, <4>2
    <3>6. ~Kill("plotter") BY DEF Kill, Idle
    <3> QED BY <2>1, <3>1, <3>2, <3>3, <3>4, <3>5, <3>6 DEF PlotterMain
  <2>2. CASE GetTime
    <3>1. /\ at["plotter"] = "pause" /\ frames["plotter"] # <<>> /\ current_time' = now
          /\ UNCHANGED <<at, pending, handles, frames, first_call, last_time, elapsed>>
      BY <2>2 DEF GetTime, signalVars
    <3>2. driver_pc # "kill" BY <3>1 DEF Idle
    <3> QED BY <2>0, <3>1, <3>2
  <2>3. CASE PrintElapsed
    <3>1. /\ at["plotter"] = "pause" /\ pending["plotter"] = {} /\ frames["plotter"] = <<"SIGALRM">>
          /\ current_time = now /\ InTime(now - 1) /\ driver_pc = "usleep"
      BY <2>3 DEF PrintElapsed, HandlerEnds, Idle
    <3>2. /\ frames' = [frames EXCEPT !["plotter"] = <<>>]
          /\ at' = [at EXCEPT !["plotter"] = IF @ = "pause" THEN "woken" ELSE @] /\ UNCHANGED <<pending, handles>>
      BY <2>3, <3>1, HandlerAlone DEF PrintElapsed
    <3>3. first_call' = FALSE /\ last_time' = now /\ current_time' = NotRead BY <2>3, <3>1 DEF PrintElapsed
    <3>4. elapsed' \in Seq(Int) /\ \A i \in DOMAIN elapsed' : elapsed'[i] = 1
      <4>1. CASE first_call BY <2>3, <4>1 DEF PrintElapsed
      <4>2. CASE ~first_call
        <5>1. elapsed' = Append(elapsed, current_time - last_time) /\ last_time = now - 1
          BY <2>3, <3>1, <4>2 DEF PrintElapsed
        <5>2. current_time - last_time = 1 BY <3>1, <5>1
        <5>3. elapsed' = Append(elapsed, 1) BY <5>1, <5>2
        <5> QED BY <5>3
      <4> QED BY <4>1, <4>2
    <3> QED BY <2>0, <3>1, <3>2, <3>3, <3>4
  <2> QED BY <1>2, <2>1, <2>2, <2>3 DEF TimePlotter
<1> QED BY <1>1, <1>2 DEF PlotterNext

\* For any number of intervals, however long a handler takes and however many
\* alarms merge, the times that are printed add up; at a proper pace each is 1.
THEOREM PrintedAddsUp == PlotterSpec => []ElapsedAddUp
<1> DEFINE Inv == AddsUp /\ (Calm => OnTime)
<1>1. PlotterInit /\ PlotterPausing => Inv
  <2> SUFFICES ASSUME PlotterInit, PlotterPausing PROVE Inv OBVIOUS
  <2>1. SumFunction(elapsed) = 0
    <3>1. elapsed = <<>> BY DEF PlotterInit
    <3>2. DOMAIN elapsed = {} BY <3>1
    <3> QED BY <3>2, SumEmpty DEF SumFunction
  <2>2. AddsUp BY <2>1 DEF PlotterInit, AddsUp, NotRead
  <2>3. OnTime BY DEF PlotterInit, PlotterPausing, OnTime, NotRead, Gone
  <2> QED BY <2>2, <2>3
<1>2. Inv /\ [plotterSteps]_<<plotterVars, signalVars, courseVars>> => Inv'
  <2> SUFFICES ASSUME Inv, [plotterSteps]_<<plotterVars, signalVars, courseVars>> PROVE Inv' OBVIOUS
  <2>1. UNCHANGED pace BY DEF plotterSteps, courseVars
  <2>2. CASE plotterSteps BY <2>1, <2>2, AddsUpStep, OnTimeStep DEF plotterSteps, Calm
  <2>3. CASE UNCHANGED <<plotterVars, signalVars>>
    BY <2>1, <2>3 DEF plotterVars, signalVars, AddsUp, OnTime, Idle, InTime, Calm
  <2> QED BY <2>2, <2>3
<1>3. Inv => ElapsedAddUp BY DEF AddsUp, OnTime, ElapsedAddUp
<1> QED BY <1>1, <1>2, <1>3, PTL DEF PlotterSpec, plotterSteps

-----------------------------------------------------------------------------
(* The data processor: the averages *)

\* An average is on its way for each signal, at most.
Owing == IF ProcessorAt \in {"woken", "sum"} THEN 1 ELSE 0

DataTyped ==
    /\ received \in Seq(Nat) /\ messages \in Seq(Nat)
    /\ signal_count \in Nat /\ sum \in Nat /\ next_element \in Nat
    /\ structure \in {"first", "fixed"}
    /\ DOMAIN at = {"processor"} /\ DOMAIN pending = {"processor"} /\ DOMAIN frames = {"processor"}
    /\ ProcessorAt \notin {"killed", "unborn"}
    /\ shm_data \in [0 .. NUM_ELEMENTS - 1 -> Nat] /\ batch \in Nat
    /\ Len(received) + Len(messages) + Owing <= signal_count

Whole(k) == \A i \in 0 .. NUM_ELEMENTS - 1 : shm_data[i] = k

\* Between two signals: the creator writes only while the processor pauses.
Between ==
    /\ pending["processor"] = {} /\ frames["processor"] = <<>>
    /\ batch = signal_count + 1
    /\ Len(received) + Len(messages) = signal_count - Owing
    /\ creator_pc = "signal" => ProcessorAt = "pause" /\ Whole(batch)
    /\ ProcessorAt = "pause" \/ Whole(signal_count)
    /\ ProcessorAt = "sum" => sum = next_element * signal_count

\* A signal on its way to the processor in pause().
Signalled ==
    /\ ProcessorAt = "pause" /\ creator_pc # "signal"
    /\ batch = signal_count + 2 /\ Whole(signal_count + 1)
    /\ Len(received) + Len(messages) = signal_count
    /\ \/ pending["processor"] = {"SIGUSR2"} /\ frames["processor"] = <<>>
       \/ pending["processor"] = {} /\ frames["processor"] = <<"SIGUSR2">>

InBatches ==
    /\ batch <= MAX_SIGNALS + 1 /\ (creator_pc = "signal" => batch <= MAX_SIGNALS)
    /\ \A k \in 1 .. Len(received) : received[k] = k * NUM_ELEMENTS
    /\ \A k \in 1 .. Len(messages) : messages[k] = (Len(received) + k) * NUM_ELEMENTS
    /\ ProcessorAt \notin AfterLoop => Between \/ Signalled

DataInv == DataTyped /\ (Calm => InBatches)

averageVars == <<pending, frames, shm_data, signal_count, sum, next_element, messages, received, structure, batch>>

\* Steps between places where no average is owed.
LEMMA PlainStep ==
    ASSUME DataInv, UNCHANGED averageVars, UNCHANGED pace,
           NEW from, from \notin {"pause", "woken", "sum", "exit"}, ProcessorAt = from,
           NEW to, to \notin {"woken", "sum", "killed", "unborn"}, at' = [at EXCEPT !["processor"] = to],
           from \in AfterLoop => to \in AfterLoop,
           creator_pc' \in {creator_pc, "write", "exit"}
    PROVE  DataInv'
<1>1. UNCHANGED <<pending, frames, shm_data, signal_count, sum, next_element, messages, received, structure, batch>>
  BY DEF averageVars
<1>2. DOMAIN at' = {"processor"} /\ ProcessorAt' = to BY DEF DataInv, DataTyped, ProcessorAt
<1>3. Owing = 0 /\ Owing' = 0 BY <1>2 DEF Owing
<1>4. DataTyped' BY <1>1, <1>2, <1>3 DEF DataInv, DataTyped
<1>5. ASSUME Calm PROVE InBatches'
  <2>1. InBatches /\ ~Signalled /\ (to \notin AfterLoop => Between)
    BY <1>2, <1>5 DEF DataInv, Signalled, InBatches
  <2>2. Between => Between'
    <3> SUFFICES ASSUME Between PROVE Between' OBVIOUS
    <3>1. creator_pc # "signal" /\ Whole(signal_count) BY DEF Between
    <3>2. Whole(signal_count)' BY <1>1, <3>1 DEF Whole
    <3>3. creator_pc' # "signal" BY <3>1
    <3> QED BY <1>1, <1>2, <1>3, <3>2, <3>3 DEF Between
  <2> QED BY <1>1, <1>2, <2>1, <2>2 DEF InBatches
<1> QED BY <1>4, <1>5 DEF DataInv, Calm

LEMMA DataPlain ==
    ASSUME DataInv, UNCHANGED pace, DataProcessor,
           \/ InstallSignalHandler \/ CreateObjects \/ ForkCreator \/ ForkLogger \/ ForkFails
           \/ TestCount \/ WaitForChildren \/ (CallPause("processor") /\ UNCHANGED dataVars)
    PROVE  DataInv'
<1>0. structure \in {"first", "fixed"} BY DEF DataInv, DataTyped
<1> DEFINE Plain(from) ==
      /\ UNCHANGED averageVars /\ ProcessorAt = from /\ creator_pc' \in {creator_pc, "write", "exit"}
      /\ \E to : /\ to \notin {"woken", "sum", "killed", "unborn"} /\ (from \in AfterLoop => to \in AfterLoop)
                /\ at' = [at EXCEPT !["processor"] = to]
<1>1. ASSUME NEW from, from \notin {"pause", "woken", "sum", "exit"}, Plain(from) PROVE DataInv'
  <2>1. PICK to : /\ to \notin {"woken", "sum", "killed", "unborn"} /\ (from \in AfterLoop => to \in AfterLoop)
                  /\ at' = [at EXCEPT !["processor"] = to]
    BY <1>1
  <2> QED BY <1>1, <2>1, PlainStep
<1>2. ASSUME NEW step \in {"sigaction", "shm_open", "mmap", "mq_open", "fork creator", "fork logger"},
             Prepare(step), UNCHANGED <<shm_data, signal_count, sum, next_element, messages, received, structure, batch>>,
             creator_pc' \in {creator_pc, "write", "exit"}
      PROVE  Plain(step)
  <2>1. PICK next : Processor(step, next) /\ Follows(step, next) BY <1>0, <1>2, NextPlace
  <2>2. next \notin {"woken", "sum", "killed", "unborn"} BY <2>1 DEF Follows
  <2> QED BY <1>2, <2>1, <2>2 DEF Processor, Goes, ProcessorAt, averageVars, AfterLoop
<1>3. ASSUME NEW from, NEW to, to \notin {"woken", "sum", "killed", "unborn"}, Processor(from, to),
             from \in AfterLoop => to \in AfterLoop,
             UNCHANGED <<shm_data, signal_count, sum, next_element, messages, received, structure, batch>>,
             creator_pc' \in {creator_pc, "write", "exit"}
      PROVE  Plain(from)
  BY <1>3 DEF Processor, Goes, ProcessorAt, averageVars
<1> HIDE DEF Plain
<1> USE DEF AfterLoop
<1>4. CASE InstallSignalHandler BY <1>1, <1>2, <1>3, <1>4 DEF InstallSignalHandler, GiveUp
<1>5. CASE CreateObjects BY <1>1, <1>2, <1>3, <1>5 DEF CreateObjects, GiveUp
<1>6. CASE ForkCreator BY <1>1, <1>2, <1>6 DEF ForkCreator, processorVars
<1>7. CASE ForkLogger BY <1>1, <1>2, <1>7 DEF ForkLogger, processorVars
<1>8. CASE ForkFails BY <1>1, <1>3, <1>8 DEF ForkFails, GiveUp
<1>9. CASE TestCount
  <2>1. Processor("test", "call") \/ Processor("test", "wait") BY <1>9 DEF TestCount
  <2> QED BY <1>1, <1>3, <1>9, <2>1 DEF TestCount, dataVars, processorVars
<1>10. CASE WaitForChildren
  <2>1. Processor("wait", "reap") \/ Processor("reap", "unlink") \/ Processor("unlink", "exit")
    BY <1>10 DEF WaitForChildren
  <2> QED BY <1>1, <1>3, <1>10, <2>1 DEF WaitForChildren
<1>11. CASE CallPause("processor") /\ UNCHANGED dataVars
  <2>1. Processor("call", "pause") BY <1>11 DEF CallPause, Processor
  <2> QED BY <1>1, <1>3, <1>11, <2>1 DEF dataVars, processorVars
<1> QED BY <1>4, <1>5, <1>6, <1>7, <1>8, <1>9, <1>10, <1>11

LEMMA Product == ASSUME NEW a \in Nat, NEW b \in Nat PROVE (a + 1) * b = a * b + b /\ a * b \in Nat /\ a * b = b * a
OBVIOUS

LEMMA DataSums ==
    ASSUME DataInv, UNCHANGED pace, StartSum \/ AddElement \/ SendAverage PROVE DataInv'
<1> USE DEF AfterLoop
<1>1. CASE StartSum
  <2>1. /\ ProcessorAt = "woken" /\ frames["processor"] = <<>> /\ UNCHANGED <<pending, frames>> /\ sum' = 0 /\ next_element' = 0
        /\ UNCHANGED <<shm_data, signal_count, messages, received, structure, batch, creator_pc>>
        /\ at' = [at EXCEPT !["processor"] = IF structure = "first" \/ signal_count <= MAX_SIGNALS THEN "sum" ELSE "test"]
    BY <1>1 DEF StartSum, Processor, Goes, ProcessorAt, processorVars
  <2>2. DOMAIN at' = {"processor"} /\ ProcessorAt' \in {"sum", "test"} /\ Owing = 1 /\ Owing' \in {0, 1}
    BY <2>1 DEF DataInv, DataTyped, ProcessorAt, Owing
  <2>3. DataTyped' BY <2>1, <2>2 DEF DataInv, DataTyped
  <2>4. ASSUME Calm PROVE InBatches'
    <3>1. InBatches /\ Between BY <1>1, <2>1, <2>4 DEF DataInv, InBatches, Signalled
    <3>2. signal_count <= MAX_SIGNALS
      <4>1. batch <= MAX_SIGNALS + 1 /\ batch = signal_count + 1 BY <3>1 DEF InBatches, Between
      <4> QED BY <4>1, ProcessorAssumption DEF DataInv, DataTyped
    <3>3. ProcessorAt' = "sum" /\ Owing' = 1 BY <2>1, <3>2 DEF ProcessorAt, Owing, DataInv, DataTyped
    <3>4. Whole(signal_count)' BY <2>1, <3>1 DEF Between, Whole
    <3>5. 0 * signal_count = 0 BY DEF DataInv, DataTyped
    <3>6. Between' BY <2>1, <2>2, <3>1, <3>3, <3>4, <3>5 DEF Between
    <3> QED BY <2>1, <3>1, <3>6 DEF InBatches
  <2> QED BY <2>3, <2>4 DEF DataInv, Calm
<1>2. CASE AddElement
  <2>1. /\ ProcessorAt = "sum" /\ frames["processor"] = <<>> /\ UNCHANGED <<pending, frames>>
        /\ next_element < NUM_ELEMENTS /\ sum' = sum + shm_data[next_element] /\ next_element' = next_element + 1
        /\ UNCHANGED <<shm_data, signal_count, messages, received, structure, batch, creator_pc>>
        /\ at' = [at EXCEPT !["processor"] = "sum"]
    BY <1>2 DEF AddElement, Processor, Goes, ProcessorAt, processorVars
  <2>2. DOMAIN at' = {"processor"} /\ ProcessorAt' = "sum" /\ Owing = 1 /\ Owing' = 1
    BY <2>1 DEF DataInv, DataTyped, ProcessorAt, Owing
  <2>3. next_element \in 0 .. NUM_ELEMENTS - 1 BY <2>1, ProcessorAssumption DEF DataInv, DataTyped
  <2>4. DataTyped'
    <3>1. DataTyped BY DEF DataInv
    <3>2. shm_data[next_element] \in Nat BY <2>3, <3>1 DEF DataTyped
    <3>3. sum' \in Nat /\ next_element' \in Nat BY <2>1, <3>1, <3>2 DEF DataTyped
    <3> QED BY <2>1, <2>2, <3>1, <3>3 DEF DataTyped
  <2>5. ASSUME Calm PROVE InBatches'
    <3>1. InBatches /\ Between BY <2>1, <2>5 DEF DataInv, InBatches, Signalled
    <3>2. Whole(signal_count) /\ Whole(signal_count)' BY <2>1, <3>1 DEF Between, Whole
    <3>3. sum' = next_element * signal_count + signal_count BY <2>1, <2>3, <3>1, <3>2 DEF Between, Whole
    <3>4. next_element \in Nat /\ signal_count \in Nat BY DEF DataInv, DataTyped
    <3>5. sum' = next_element' * signal_count BY <2>1, <3>3, <3>4, Product
    <3>6. Between' BY <2>1, <2>2, <3>1, <3>2, <3>5 DEF Between
    <3> QED BY <2>1, <3>1, <3>6 DEF InBatches
  <2> QED BY <2>4, <2>5 DEF DataInv, Calm
<1>3. CASE SendAverage /\ Processor("sum", "test") /\ messages' = Append(messages, sum)
  <2>1. /\ ProcessorAt = "sum" /\ frames["processor"] = <<>> /\ UNCHANGED <<pending, frames>>
        /\ next_element = NUM_ELEMENTS /\ messages' = Append(messages, sum)
        /\ UNCHANGED <<shm_data, signal_count, sum, next_element, received, structure, batch, creator_pc>>
        /\ at' = [at EXCEPT !["processor"] = "test"]
    BY <1>3 DEF SendAverage, Processor, Goes, ProcessorAt, processorVars
  <2>2. DOMAIN at' = {"processor"} /\ ProcessorAt' = "test" /\ Owing = 1 /\ Owing' = 0
    BY <2>1 DEF DataInv, DataTyped, ProcessorAt, Owing
  <2>3. messages \in Seq(Nat) /\ sum \in Nat /\ Len(received) \in Nat /\ Len(messages) \in Nat /\ signal_count \in Nat
    BY DEF DataInv, DataTyped
  <2>4. messages' \in Seq(Nat) /\ Len(messages') = Len(messages) + 1 BY <2>1, <2>3
  <2>5. DataTyped' BY <2>1, <2>2, <2>3, <2>4 DEF DataInv, DataTyped
  <2>6. ASSUME Calm PROVE InBatches'
    <3>1. InBatches /\ Between BY <2>1, <2>6 DEF DataInv, InBatches, Signalled
    <3>2. signal_count = Len(received) + (Len(messages) + 1) BY <2>2, <2>3, <3>1 DEF Between
    <3>3. sum = (Len(received) + (Len(messages) + 1)) * NUM_ELEMENTS
      BY <2>1, <2>3, <3>1, <3>2, Product, ProcessorAssumption DEF Between
    <3>4. ASSUME NEW k \in 1 .. Len(messages') PROVE messages'[k] = (Len(received) + k) * NUM_ELEMENTS
      <4>1. CASE k = Len(messages) + 1 BY <2>1, <2>3, <3>3, <4>1
      <4>2. CASE k # Len(messages) + 1
        <5>1. k \in 1 .. Len(messages) BY <2>3, <2>4, <4>2
        <5>2. messages'[k] = messages[k] BY <2>1, <2>3, <5>1
        <5> QED BY <3>1, <5>1, <5>2 DEF InBatches
      <4> QED BY <4>1, <4>2
    <3>5. Whole(signal_count)' BY <2>1, <3>1 DEF Between, Whole
    <3>6. Between' BY <2>1, <2>2, <2>3, <2>4, <3>1, <3>2, <3>5 DEF Between
    <3> QED BY <2>1, <3>1, <3>4, <3>6 DEF InBatches
  <2> QED BY <2>5, <2>6 DEF DataInv, Calm
<1>4. CASE SendAverage /\ Processor("sum", "wait") /\ UNCHANGED messages
  <2>1. /\ UNCHANGED <<pending, frames, shm_data, signal_count, sum, next_element, messages, received,
                       structure, batch, creator_pc>>
        /\ at' = [at EXCEPT !["processor"] = "wait"]
    BY <1>4 DEF SendAverage, Processor, Goes
  <2>2. DOMAIN at' = {"processor"} /\ ProcessorAt' = "wait" /\ Owing' = 0 /\ Owing \in {0, 1}
    BY <2>1 DEF DataInv, DataTyped, ProcessorAt, Owing
  <2>3. DataTyped' BY <2>1, <2>2 DEF DataInv, DataTyped
  <2>4. ASSUME Calm PROVE InBatches' BY <2>1, <2>2, <2>4 DEF DataInv, InBatches
  <2> QED BY <2>3, <2>4 DEF DataInv, Calm
<1> QED BY <1>1, <1>2, <1>3, <1>4 DEF SendAverage

LEMMA DataSignals ==
    ASSUME DataInv, UNCHANGED pace,
           SignalHandler \/ (Interrupt("processor", "SIGUSR2") /\ UNCHANGED dataVars)
    PROVE  DataInv'
<1> USE DEF AfterLoop
<1>1. CASE SignalHandler /\ HandlerEnds("processor", "SIGUSR2")
  <2>1. /\ signal_count' = signal_count + 1
        /\ UNCHANGED <<shm_data, sum, next_element, messages, received, structure, batch, creator_pc>>
        /\ HandlerEnds("processor", "SIGUSR2")
    BY <1>1 DEF SignalHandler, processorVars
  <2>2. /\ DOMAIN at' = {"processor"} /\ DOMAIN pending' = {"processor"} /\ DOMAIN frames' = {"processor"}
        /\ ProcessorAt' = ProcessorAt \/ (ProcessorAt = "pause" /\ ProcessorAt' = "woken")
    BY <2>1 DEF HandlerEnds, DataInv, DataTyped, ProcessorAt
  <2>3. Owing' <= Owing + 1 /\ Owing \in {0, 1} /\ Owing' \in {0, 1} BY <2>2 DEF Owing
  <2>4. DataTyped' BY <2>1, <2>2, <2>3 DEF DataInv, DataTyped
  <2>5. ASSUME Calm PROVE InBatches'
    <3>1. InBatches BY <2>5 DEF DataInv
    <3>2. CASE frames["processor"] = <<>> BY <2>1, <3>2 DEF HandlerEnds
    <3>3. CASE ProcessorAt \in AfterLoop BY <2>1, <2>2, <3>1, <3>3 DEF InBatches
    <3>4. CASE Signalled /\ frames["processor"] = <<"SIGUSR2">> /\ pending["processor"] = {}
      <4>1. /\ frames' = [frames EXCEPT !["processor"] = <<>>] /\ UNCHANGED pending
            /\ at' = [at EXCEPT !["processor"] = IF @ = "pause" THEN "woken" ELSE @]
        BY <2>1, <3>4, HandlerAlone DEF DataInv, DataTyped
      <4>2. ProcessorAt' = "woken" /\ Owing' = 1 BY <3>4, <4>1 DEF Signalled, ProcessorAt, Owing, DataInv, DataTyped
      <4>3. Whole(signal_count)' BY <2>1, <3>4 DEF Signalled, Whole
      <4>4. Between' BY <2>1, <3>4, <4>1, <4>2, <4>3 DEF Signalled, Between, DataInv, DataTyped
      <4> QED BY <2>1, <3>1, <4>4 DEF InBatches
    <3> QED BY <3>1, <3>2, <3>3, <3>4 DEF InBatches, Between, Signalled
  <2> QED BY <2>4, <2>5 DEF DataInv, Calm
<1>2. CASE Interrupt("processor", "SIGUSR2") /\ UNCHANGED dataVars
  <2>1. UNCHANGED <<at, shm_data, signal_count, sum, next_element, messages, received, structure, batch, creator_pc>>
    BY <1>2 DEF Interrupt, dataVars, processorVars
  <2>2. /\ DOMAIN pending' = {"processor"} /\ DOMAIN frames' = {"processor"} /\ ProcessorAt' = ProcessorAt /\ Owing' = Owing
    BY <1>2, <2>1 DEF Interrupt, DataInv, DataTyped, ProcessorAt, Owing
  <2>3. DataTyped' BY <2>1, <2>2 DEF DataInv, DataTyped
  <2>4. ASSUME Calm PROVE InBatches'
    <3>1. InBatches BY <2>4 DEF DataInv
    <3>0. CASE ProcessorAt \in AfterLoop BY <2>1, <2>2, <3>0, <3>1 DEF InBatches
    <3>2. SUFFICES ASSUME ProcessorAt \notin AfterLoop PROVE InBatches' BY <3>0
    <3>7. "SIGUSR2" \in pending["processor"] BY <1>2 DEF Interrupt
    <3>3. Signalled /\ frames["processor"] = <<>> /\ pending["processor"] = {"SIGUSR2"}
      BY <3>1, <3>2, <3>7 DEF InBatches, Between, Signalled
    <3>4. /\ frames' = [frames EXCEPT !["processor"] = <<"SIGUSR2">>]
          /\ pending' = [pending EXCEPT !["processor"] = {}]
      BY <1>2, <3>3, InterruptAlone DEF DataInv, DataTyped
    <3>5. Whole(signal_count + 1)' BY <2>1, <3>3 DEF Signalled, Whole
    <3>6. Signalled' BY <2>1, <2>2, <3>3, <3>4, <3>5 DEF Signalled, DataInv, DataTyped
    <3> QED BY <2>1, <3>1, <3>6 DEF InBatches
  <2> QED BY <2>3, <2>4 DEF DataInv, Calm
<1>3. CASE SignalHandler /\ InterruptsWait
  <2>1. /\ UNCHANGED <<shm_data, sum, next_element, messages, received, structure, batch, creator_pc, pending>>
        /\ signal_count' = signal_count + 1 /\ frames' = [frames EXCEPT !["processor"] = <<>>]
        /\ \E to \in {"reap", "unlink"} : at' = [at EXCEPT !["processor"] = to]
        /\ ProcessorAt \in {"wait", "reap"}
    BY <1>3 DEF SignalHandler, InterruptsWait, processorVars, ProcessorAt
  <2>2. /\ DOMAIN at' = {"processor"} /\ DOMAIN frames' = {"processor"} /\ ProcessorAt' \in {"reap", "unlink"}
        /\ Owing = 0 /\ Owing' = 0
    BY <2>1 DEF DataInv, DataTyped, ProcessorAt, Owing
  <2>3. DataTyped' BY <2>1, <2>2 DEF DataInv, DataTyped
  <2>4. ASSUME Calm PROVE InBatches' BY <2>1, <2>2, <2>4 DEF DataInv, InBatches
  <2> QED BY <2>3, <2>4 DEF DataInv, Calm
<1> QED BY <1>1, <1>2, <1>3 DEF SignalHandler

LEMMA DataWritten ==
    ASSUME DataInv, UNCHANGED pace, DataCreator PROVE DataInv'
<1> USE DEF AfterLoop
<1>1. UNCHANGED <<structure, signal_count, sum, next_element, messages, received>> BY DEF DataCreator, processorVars
<1>2. CASE WriteElement
  <2>1. PICK i \in 0 .. NUM_ELEMENTS - 1 :
            /\ \A j \in 0 .. i - 1 : shm_data[j] = batch
            /\ shm_data' = [shm_data EXCEPT ![i] = batch]
            /\ creator_pc' = IF i = NUM_ELEMENTS - 1 THEN "signal" ELSE "write"
    BY <1>2 DEF WriteElement
  <2>2. /\ creator_pc = "write" /\ batch <= MAX_SIGNALS /\ (Calm => Waiting)
        /\ UNCHANGED <<at, pending, frames, batch>>
    BY <1>2 DEF WriteElement, signalVars
  <2>3. ProcessorAt' = ProcessorAt /\ Owing' = Owing BY <2>2 DEF ProcessorAt, Owing
  <2>4. DataTyped' BY <1>1, <2>1, <2>2, <2>3 DEF DataInv, DataTyped
  <2>5. ASSUME Calm PROVE InBatches'
    <3>1. InBatches BY <2>5 DEF DataInv
    <3>2. CASE ProcessorAt \in AfterLoop
      <4>1. creator_pc' = "signal" => batch' <= MAX_SIGNALS BY <2>2
      <4> QED BY <1>1, <2>2, <2>3, <3>1, <3>2, <4>1 DEF InBatches
    <3>3. CASE ProcessorAt \notin AfterLoop
      <4>1. Between
        <5>1. pending["processor"] = {} /\ frames["processor"] = <<>> BY <2>2, <2>5 DEF Waiting, Idle
        <5>2. ~Signalled BY <5>1 DEF Signalled
        <5> QED BY <3>1, <3>3, <5>2 DEF InBatches
      <4>2. CASE ProcessorAt = "pause"
        <5>1. creator_pc' = "signal" => Whole(batch)'
          <6> SUFFICES ASSUME creator_pc' = "signal", NEW j \in 0 .. NUM_ELEMENTS - 1 PROVE shm_data'[j] = batch'
            BY DEF Whole
          <6>1. i = NUM_ELEMENTS - 1 BY <2>1
          <6>2. j = i \/ j \in 0 .. i - 1 BY <6>1, ProcessorAssumption
          <6> QED BY <2>1, <2>2, <6>2 DEF DataInv, DataTyped
        <5>2. Between' BY <1>1, <2>2, <2>3, <4>1, <4>2, <5>1 DEF Between
        <5> QED BY <1>1, <2>2, <3>1, <5>2 DEF InBatches
      <4>3. ProcessorAt \in {"pause", "killed", "unborn"} BY <2>2, <2>5, <3>3 DEF Waiting, Idle, Gone, ProcessorAt
      <4>4. ProcessorAt \notin {"killed", "unborn"} BY DEF DataInv, DataTyped
      <4> QED BY <4>2, <4>3, <4>4
    <3> QED BY <3>2, <3>3
  <2> QED BY <2>4, <2>5 DEF DataInv, Calm
<1>3. CASE SignalProcessor
  <2>1. /\ creator_pc = "signal" /\ batch' = batch + 1 /\ creator_pc' \in {"exit", "write"}
        /\ UNCHANGED <<shm_data, at, frames>> /\ Post("processor", "SIGUSR2")
    BY <1>3 DEF SignalProcessor
  <2>2. DOMAIN pending' = {"processor"} /\ ProcessorAt' = ProcessorAt /\ Owing' = Owing
    BY <2>1 DEF Post, DataInv, DataTyped, ProcessorAt, Owing
  <2>3. DataTyped' BY <1>1, <2>1, <2>2 DEF DataInv, DataTyped
  <2>4. ASSUME Calm PROVE InBatches'
    <3>1. InBatches BY <2>4 DEF DataInv
    <3>2. CASE ProcessorAt \notin AfterLoop
      <4>1. Between /\ ProcessorAt = "pause" /\ Whole(batch) /\ batch <= MAX_SIGNALS
        BY <2>1, <3>1, <3>2 DEF InBatches, Signalled, Between
      <4>2. pending' = [pending EXCEPT !["processor"] = {"SIGUSR2"}]
        <5>1. pending["processor"] \cup {"SIGUSR2"} = {"SIGUSR2"} BY <4>1 DEF Between
        <5> QED BY <2>1, <4>1, <5>1 DEF Post, ProcessorAt, Gone
      <4>3. Owing = 0 BY <4>1 DEF Owing
      <4>4. Whole(signal_count + 1)' BY <1>1, <2>1, <4>1 DEF Between, Whole
      <4>5. Signalled'
        BY <1>1, <2>1, <2>2, <4>1, <4>2, <4>3, <4>4 DEF Signalled, Between, DataInv, DataTyped
      <4> QED BY <1>1, <2>1, <3>1, <4>1, <4>5, ProcessorAssumption DEF InBatches, DataInv, DataTyped
    <3>3. CASE ProcessorAt \in AfterLoop
      BY <1>1, <2>1, <2>2, <3>1, <3>3, ProcessorAssumption DEF InBatches, DataInv, DataTyped
    <3> QED BY <3>2, <3>3
  <2> QED BY <2>3, <2>4 DEF DataInv, Calm
<1> QED BY <1>2, <1>3 DEF DataCreator

LEMMA DataLogged == ASSUME DataInv, UNCHANGED pace, DataLogger PROVE DataInv'
<1>1. /\ messages # <<>> /\ received' = Append(received, Head(messages)) /\ messages' = Tail(messages)
      /\ UNCHANGED <<at, pending, frames, structure, shm_data, signal_count, sum, next_element, creator_pc, batch>>
  BY DEF DataLogger, signalVars, processorVars
<1>2. received \in Seq(Nat) /\ messages \in Seq(Nat) /\ Len(received) \in Nat /\ Len(messages) \in Nat
  BY DEF DataInv, DataTyped
<1>3. /\ Len(received') = Len(received) + 1 /\ Len(messages') = Len(messages) - 1
      /\ received' \in Seq(Nat) /\ messages' \in Seq(Nat) /\ Len(messages) > 0
  BY <1>1, <1>2
<1>4. ProcessorAt' = ProcessorAt /\ Owing' = Owing BY <1>1 DEF ProcessorAt, Owing
<1>5. Owing \in {0, 1} BY DEF Owing
<1>6. DataTyped' BY <1>1, <1>2, <1>3, <1>4, <1>5 DEF DataInv, DataTyped
<1>7. ASSUME Calm PROVE InBatches'
  <2>1. InBatches BY <1>7 DEF DataInv
  <2>2. ASSUME NEW k \in 1 .. Len(received') PROVE received'[k] = k * NUM_ELEMENTS
    <3>1. CASE k = Len(received) + 1
      <4>1. received'[k] = messages[1] BY <1>1, <1>2, <3>1
      <4>2. 1 \in 1 .. Len(messages) BY <1>2, <1>3
      <4> QED BY <2>1, <3>1, <4>1, <4>2 DEF InBatches
    <3>2. CASE k # Len(received) + 1
      <4>1. k \in 1 .. Len(received) BY <1>2, <1>3, <3>2
      <4>2. received'[k] = received[k] BY <1>1, <1>2, <4>1
      <4> QED BY <2>1, <4>1, <4>2 DEF InBatches
    <3> QED BY <3>1, <3>2
  <2>3. ASSUME NEW k \in 1 .. Len(messages') PROVE messages'[k] = (Len(received') + k) * NUM_ELEMENTS
    <3>1. messages'[k] = messages[k + 1] /\ k + 1 \in 1 .. Len(messages) BY <1>1, <1>2, <1>3
    <3>2. messages[k + 1] = (Len(received) + (k + 1)) * NUM_ELEMENTS BY <2>1, <3>1 DEF InBatches
    <3>3. Len(received) + (k + 1) = Len(received') + k BY <1>2, <1>3
    <3> QED BY <3>1, <3>2, <3>3
  <2>4. Len(received') + Len(messages') = Len(received) + Len(messages) BY <1>2, <1>3
  <2>5. Between => Between' BY <1>1, <1>4, <2>4 DEF Between, Whole
  <2>6. Signalled => Signalled' BY <1>1, <1>4, <2>4 DEF Signalled, Whole
  <2> QED BY <1>1, <1>4, <2>1, <2>2, <2>3, <2>5, <2>6 DEF InBatches
<1> QED BY <1>6, <1>7 DEF DataInv, Calm

\* For any number of elements and batches: no average without a signal, whatever
\* the pace; and at a proper pace the k-th average is that of the k-th batch.
THEOREM AveragesFollow == ProcessorSpec => []AveragesRight
<1>1. ProcessorInit /\ ProcessorPausing => DataInv
  <2> SUFFICES ASSUME ProcessorInit, ProcessorPausing PROVE DataInv OBVIOUS
  <2>1. ProcessorAt \in {"sigaction", "shm_open"} BY DEF ProcessorInit, ProcessorPausing, ProcessorAt, Steps
  <2>2. Owing = 0 BY <2>1 DEF Owing
  <2>3. Len(received) = 0 /\ Len(messages) = 0 /\ received \in Seq(Nat) /\ messages \in Seq(Nat) BY DEF ProcessorInit
  <2>4. DataTyped BY <2>1, <2>2, <2>3 DEF ProcessorInit, ProcessorPausing, DataTyped
  <2>5. Whole(signal_count) BY DEF ProcessorInit, Whole
  <2>6. Between BY <2>1, <2>2, <2>3, <2>5 DEF ProcessorInit, ProcessorPausing, Between
  <2>7. InBatches BY <2>3, <2>6, ProcessorAssumption DEF InBatches, ProcessorInit
  <2> QED BY <2>4, <2>7 DEF DataInv
<1>2. DataInv /\ [processorSteps]_<<dataVars, signalVars, courseVars>> => DataInv'
  <2> SUFFICES ASSUME DataInv, [processorSteps]_<<dataVars, signalVars, courseVars>> PROVE DataInv' OBVIOUS
  <2>1. UNCHANGED pace BY DEF processorSteps, courseVars
  <2>2. CASE processorSteps
    <3>1. CASE DataProcessor BY <2>1, <3>1, DataPlain, DataSums, DataSignals DEF DataProcessor
    <3> QED BY <2>1, <2>2, <3>1, DataWritten, DataLogged DEF processorSteps, ProcessorNext
  <2>3. CASE UNCHANGED <<dataVars, signalVars>>
    <3>1. UNCHANGED <<at, pending, frames, structure, shm_data, signal_count, sum, next_element, messages, received, creator_pc, batch>>
      BY <2>3 DEF dataVars, processorVars, signalVars
    <3>2. ProcessorAt' = ProcessorAt /\ Owing' = Owing BY <3>1 DEF ProcessorAt, Owing
    <3>3. (Between => Between') /\ (Signalled => Signalled') BY <3>1, <3>2 DEF Between, Signalled, Whole
    <3>4. InBatches => InBatches' BY <3>1, <3>2, <3>3 DEF InBatches
    <3>5. DataTyped' BY <3>1, <3>2 DEF DataInv, DataTyped
    <3> QED BY <2>1, <3>4, <3>5 DEF DataInv, Calm
  <2> QED BY <2>2, <2>3
<1>3. DataInv => AveragesRight
  <2> SUFFICES ASSUME DataInv PROVE AveragesRight OBVIOUS
  <2>1. received \in Seq(Nat) /\ messages \in Seq(Nat) /\ Len(received) \in Nat /\ Len(messages) \in Nat
        /\ signal_count \in Nat /\ Len(received) + Len(messages) + Owing <= signal_count
    BY DEF DataInv, DataTyped
  <2>2. Averages \in Seq(Nat) /\ Len(Averages) = Len(received) + Len(messages) BY <2>1 DEF Averages
  <2>3. Len(Averages) <= signal_count BY <2>1, <2>2 DEF Owing
  <2>4. ASSUME Calm, NEW k \in 1 .. Len(Averages) PROVE Averages[k] = k * NUM_ELEMENTS
    <3>1. InBatches BY <2>4 DEF DataInv
    <3>2. CASE k \in 1 .. Len(received)
      <4>1. Averages[k] = received[k] BY <2>1, <3>2 DEF Averages
      <4> QED BY <3>1, <3>2, <4>1 DEF InBatches
    <3>3. CASE k \notin 1 .. Len(received)
      <4>1. k - Len(received) \in 1 .. Len(messages) BY <2>1, <2>2, <3>3
      <4>2. Averages[k] = messages[k - Len(received)] BY <2>1, <2>2, <3>3, <4>1 DEF Averages
      <4>3. messages[k - Len(received)] = (Len(received) + (k - Len(received))) * NUM_ELEMENTS
        BY <3>1, <4>1 DEF InBatches
      <4>4. Len(received) + (k - Len(received)) = k BY <2>1, <2>2
      <4> QED BY <4>2, <4>3, <4>4
    <3> QED BY <3>2, <3>3
  <2>5. Calm => Averages = [k \in 1 .. Len(Averages) |-> k * NUM_ELEMENTS]
    <3>1. Averages = [k \in 1 .. Len(Averages) |-> Averages[k]] BY <2>2
    <3> QED BY <2>4, <3>1
  <2> QED BY <2>3, <2>5 DEF AveragesRight
<1> QED BY <1>1, <1>2, <1>3, PTL DEF ProcessorSpec, processorSteps
=============================================================================
