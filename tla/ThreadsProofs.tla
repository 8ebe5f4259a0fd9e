---------------------------- MODULE ThreadsProofs ----------------------------
(***************************************************************************)
(* The programs with threads, for any number of them.  The ticket office   *)
(* of Section3/H1 with any number of buyers and tickets: at a proper pace  *)
(* no purchase is logged beyond the end of purchases_log, every ticket is  *)
(* available or in the log, and the office closes only when nobody can buy *)
(* any more, with a last report that is complete.  The collision game of   *)
(* Bono/C2 on any screen, the horse race of Section3/L1 with any number of *)
(* horses, and the decoder of PP2 with any number of threads and pixels,   *)
(* in C and in Python.                                                     *)
(***************************************************************************)
EXTENDS Tickets, Game, Race, Decoder, SumProofs, TLAPS

-----------------------------------------------------------------------------
(* The ticket office: types *)

ticketSteps == TicketsNext /\ UNCHANGED courseVars

\* The count stays below SOLD_OUT_POLLS until the office closes.
PollsLeft == office_pc \notin {"destroy", "remove", "exit"} => sold_out_count < SOLD_OUT_POLLS

TicketsTyped == TicketsTypeOK /\ PollsLeft

LEMMA TicketsTypedInit == ASSUME TicketsInit PROVE TicketsTyped
BY TicketsAssumption DEF TicketsInit, TicketsTyped, TicketsTypeOK, PollsLeft, Inside, Buying

LEMMA TicketsTypedStep == ASSUME TicketsTyped, TicketsNext PROVE TicketsTyped'
<1> USE TicketsAssumption DEF TicketsTyped, TicketsTypeOK, PollsLeft, Inside, Buying, buyerVars, officeVars
<1>1. CASE OfficeNext
  <2> USE DEF Office
  <2>1. CASE CreateSharedMemory
    BY <1>1, <2>1 DEF OfficeNext, CreateSharedMemory
  <2>2. CASE InitCounters
    BY <1>1, <2>2 DEF OfficeNext, InitCounters
  <2>3. CASE InitMutex
    BY <1>1, <2>3 DEF OfficeNext, InitMutex
  <2>4. CASE ClearLog
    BY <1>1, <2>4 DEF OfficeNext, ClearLog
  <2>5. CASE Poll
    BY <1>1, <2>5 DEF OfficeNext, Poll
  <2>6. CASE PrintTicketReport
    BY <1>1, <2>6 DEF OfficeNext, PrintTicketReport
  <2>7. CASE DestroyMutex
    BY <1>1, <2>7 DEF OfficeNext, DestroyMutex
  <2>8. CASE CleanupSharedMemory
    BY <1>1, <2>8 DEF OfficeNext, CleanupSharedMemory
  <2> QED BY <1>1, <2>1, <2>2, <2>3, <2>4, <2>5, <2>6, <2>7, <2>8 DEF OfficeNext
<1>2. ASSUME NEW b \in Buyers, BuyerThread(b) PROVE TicketsTyped'
  <2> USE DEF Buyer, Unlocked
  <2>1. CASE AttachToSharedMemory(b)
    BY <1>2, <2>1 DEF BuyerThread, AttachToSharedMemory
  <2>2. CASE LockAndAsk(b)
    BY <1>2, <2>2 DEF BuyerThread, LockAndAsk, Lock
  <2>3. CASE TestAvailable(b)
    BY <1>2, <2>3 DEF BuyerThread, TestAvailable
  <2>4. CASE TakeTickets(b)
    BY <1>2, <2>4 DEF BuyerThread, TakeTickets
  <2>5. CASE LogPurchase(b)
    <3>1. tickets_to_buy[b] \in Nat
      BY DEF TicketsTypeOK
    <3>2. purchases_log' \in [0 .. LOG_SIZE - 1 -> Nat]
      BY <3>1, <2>5 DEF LogPurchase
    <3> QED BY <1>2, <2>5, <3>2 DEF BuyerThread, LogPurchase
  <2>6. CASE CountTransaction(b)
    BY <1>2, <2>6 DEF BuyerThread, CountTransaction
  <2>7. CASE Unlock(b)
    BY <1>2, <2>7 DEF BuyerThread, Unlock
  <2>8. CASE Leave(b)
    BY <1>2, <2>8 DEF BuyerThread, Leave
  <2> QED BY <1>2, <2>1, <2>2, <2>3, <2>4, <2>5, <2>6, <2>7, <2>8 DEF BuyerThread
<1> QED BY <1>1, <1>2 DEF TicketsNext

\* The variables have their types, whatever the pace.
THEOREM TicketsTypes == TicketsSpec => []TicketsTypeOK
<1>1. TicketsInit => TicketsTyped BY TicketsTypedInit
<1>2. TicketsTyped /\ [ticketSteps]_<<ticketVars, courseVars>> => TicketsTyped'
  <2> SUFFICES ASSUME TicketsTyped, [ticketSteps]_<<ticketVars, courseVars>> PROVE TicketsTyped' OBVIOUS
  <2>1. CASE ticketSteps BY <2>1, TicketsTypedStep DEF ticketSteps
  <2>2. CASE UNCHANGED <<ticketVars, courseVars>>
    BY <2>2 DEF TicketsTyped, TicketsTypeOK, PollsLeft, ticketVars, officeVars, buyerVars
  <2> QED BY <2>1, <2>2
<1>3. TicketsTyped => TicketsTypeOK BY DEF TicketsTyped
<1> QED BY <1>1, <1>2, <1>3, PTL DEF TicketsSpec, ticketSteps

-----------------------------------------------------------------------------
(* The ticket office: the course of a run at a proper pace *)

NotYetOpen == office_pc \in {"create", "counters", "mutex", "log"}
Closing == office_pc \in {"destroy", "remove", "exit"}

\* Nobody comes before the office opens with all its tickets.
OfficeFirst ==
    /\ segment = "none" => office_pc = "create"
    /\ NotYetOpen => /\ \A b \in Buyers : buyer_pc[b] = "start"
                     /\ transactions = 0 /\ sold_out_count = 0
                     /\ office_pc \in {"mutex", "log"} => available_tickets = TICKETS

\* As long as the mutex works those inside have it.
Exclusive == mutex = "works" => \A b \in Buyers : buyer_pc[b] \in Inside => holder = b

\* The office closes after it saw no ticket with nobody inside.
Shut ==
    /\ mutex = "destroyed" => office_pc \in {"remove", "exit"}
    /\ segment = "removed" => office_pc = "exit"
    /\ Closing => /\ available_tickets = 0
                  /\ \A b \in Buyers : buyer_pc[b] \notin Buying

\* A purchase takes at least one ticket, and no more than there are.
Enough ==
    /\ available_tickets >= 0
    /\ \A b \in Buyers :
          /\ buyer_pc[b] \in Inside => tickets_to_buy[b] >= 1
          /\ buyer_pc[b] = "take" => available_tickets >= tickets_to_buy[b]

\* Each transaction, the one under way included, took a ticket.
Counted ==
    ~NotYetOpen =>
        /\ available_tickets + transactions <= TICKETS
        /\ \A b \in Buyers : buyer_pc[b] \in {"log", "count"}
              => available_tickets + transactions + 1 <= TICKETS

InOrder == OfficeFirst /\ Exclusive /\ Shut /\ Enough /\ Counted

OfficeInv == TicketsTyped /\ (Calm => InOrder)

LEMMA InOrderInit == ASSUME TicketsInit PROVE InOrder
BY DEF TicketsInit, InOrder, OfficeFirst, Exclusive, Shut, Enough, Counted, NotYetOpen, Closing, Inside, Buying

LEMMA InOrderOffice == ASSUME TicketsTyped, InOrder, OfficeNext PROVE InOrder'
<1> USE TicketsAssumption DEF TicketsTyped, TicketsTypeOK, Office, buyerVars,
        InOrder, OfficeFirst, Exclusive, Shut, Enough, Counted, NotYetOpen, Closing, Inside, Buying
<1>1. CASE CreateSharedMemory
  BY <1>1 DEF OfficeNext, CreateSharedMemory
<1>2. CASE InitCounters
  BY <1>2 DEF OfficeNext, InitCounters
<1>3. CASE InitMutex
  BY <1>3 DEF OfficeNext, InitMutex
<1>4. CASE ClearLog
  BY <1>4 DEF OfficeNext, ClearLog
<1>5. CASE Poll
  BY <1>5 DEF OfficeNext, Poll
<1>6. CASE PrintTicketReport
  BY <1>6 DEF OfficeNext, PrintTicketReport
<1>7. CASE DestroyMutex
  BY <1>7 DEF OfficeNext, DestroyMutex
<1>8. CASE CleanupSharedMemory
  BY <1>8 DEF OfficeNext, CleanupSharedMemory
<1> QED BY <1>1, <1>2, <1>3, <1>4, <1>5, <1>6, <1>7, <1>8 DEF OfficeNext

\* Two buyers are never both in the middle of a purchase.
LEMMA OneBuys ==
    ASSUME TicketsTyped, InOrder, NEW b \in Buyers, buyer_pc[b] \in Buying,
           NEW c \in Buyers, buyer_pc[c] \in Inside
    PROVE  c = b
BY DEF TicketsTyped, TicketsTypeOK, InOrder, Exclusive, Shut, Closing, Inside

LEMMA InOrderBuyer ==
    ASSUME TicketsTyped, InOrder, Calm, NEW b \in Buyers, BuyerThread(b)
    PROVE  InOrder'
<1> USE TicketsAssumption DEF TicketsTyped, TicketsTypeOK, Buyer, Unlocked, officeVars,
        InOrder, OfficeFirst, Exclusive, Shut, Enough, Counted, NotYetOpen, Closing, Inside, Buying
<1>1. CASE AttachToSharedMemory(b)
  <2> USE <1>1 DEF BuyerThread, AttachToSharedMemory
  <2>1. ~NotYetOpen /\ ~NotYetOpen' OBVIOUS
  <2>2. CASE segment = "present" /\ buyer_pc' = [buyer_pc EXCEPT ![b] = "lock"]
    BY <2>1, <2>2
  <2>3. CASE buyer_pc' = [c \in Buyers |-> IF buyer_pc[c] = "exit" THEN "exit" ELSE "dead"]
    BY <2>1, <2>3
  <2> QED BY <2>2, <2>3
<1>2. CASE LockAndAsk(b)
  <2> USE <1>2 DEF BuyerThread, LockAndAsk, Lock
  <2>1. OfficeFirst' OBVIOUS
  <2>2. Exclusive' OBVIOUS
  <2>3. Shut' OBVIOUS
  <2>4. Enough' BY OneBuys
  <2>5. Counted' BY OneBuys
  <2> QED BY <2>1, <2>2, <2>3, <2>4, <2>5
<1>3. CASE TestAvailable(b)
  BY <1>3, OneBuys DEF BuyerThread, TestAvailable
<1>4. CASE TakeTickets(b)
  <2> USE <1>4 DEF BuyerThread, TakeTickets
  <2>1. OfficeFirst' OBVIOUS
  <2>2. Exclusive' OBVIOUS
  <2>3. Shut' OBVIOUS
  <2>4. available_tickets' = available_tickets - tickets_to_buy[b] /\ tickets_to_buy[b] \in Nat
    OBVIOUS
  <2>5. Enough'
    <3>1. available_tickets' >= 0 BY <2>4
    <3>2. \A c \in Buyers : buyer_pc'[c] \in Inside => tickets_to_buy'[c] >= 1 OBVIOUS
    <3>3. \A c \in Buyers : buyer_pc'[c] # "take" BY OneBuys
    <3> QED BY <3>1, <3>2, <3>3
  <2>6. Counted'
    <3>1. ~NotYetOpen /\ available_tickets + transactions <= TICKETS
      OBVIOUS
    <3>2. available_tickets' + transactions' + 1 <= TICKETS
      <4>1. tickets_to_buy[b] >= 1 /\ transactions' = transactions
        OBVIOUS
      <4> HIDE DEF BuyerThread, TakeTickets, InOrder
      <4> QED BY <2>4, <3>1, <4>1
    <3> QED BY <2>4, <3>2
  <2> QED BY <2>1, <2>2, <2>3, <2>5, <2>6
<1>5. CASE LogPurchase(b)
  BY <1>5, OneBuys DEF BuyerThread, LogPurchase
<1>6. CASE CountTransaction(b)
  BY <1>6, OneBuys DEF BuyerThread, CountTransaction
<1>7. CASE Unlock(b)
  BY <1>7, OneBuys DEF BuyerThread, Unlock
<1>8. CASE Leave(b)
  BY <1>8, OneBuys DEF BuyerThread, Leave
<1> QED BY <1>1, <1>2, <1>3, <1>4, <1>5, <1>6, <1>7, <1>8 DEF BuyerThread

LEMMA OfficeInvStep == ASSUME OfficeInv, [ticketSteps]_<<ticketVars, courseVars>> PROVE OfficeInv'
<1>1. CASE ticketSteps
  <2>1. TicketsTyped' BY <1>1, TicketsTypedStep DEF OfficeInv, ticketSteps
  <2>2. ASSUME Calm' PROVE InOrder'
    <3>1. Calm BY <1>1, <2>2 DEF ticketSteps, courseVars, Calm
    <3>2. CASE OfficeNext BY <3>1, <3>2, InOrderOffice DEF OfficeInv
    <3>3. ASSUME NEW b \in Buyers, BuyerThread(b) PROVE InOrder'
      BY <3>1, <3>3, InOrderBuyer DEF OfficeInv
    <3> QED BY <1>1, <3>2, <3>3 DEF ticketSteps, TicketsNext
  <2> QED BY <2>1, <2>2 DEF OfficeInv
<1>2. CASE UNCHANGED <<ticketVars, courseVars>>
  BY <1>2 DEF OfficeInv, TicketsTyped, TicketsTypeOK, PollsLeft, InOrder, OfficeFirst, Exclusive, Shut,
     Enough, Counted, NotYetOpen, Closing, ticketVars, officeVars, buyerVars, courseVars, Calm
<1> QED BY <1>1, <1>2

THEOREM Ordered == TicketsSpec => []OfficeInv
<1>1. TicketsInit => OfficeInv BY TicketsTypedInit, InOrderInit DEF OfficeInv
<1>2. OfficeInv /\ [ticketSteps]_<<ticketVars, courseVars>> => OfficeInv' BY OfficeInvStep
<1> QED BY <1>1, <1>2, PTL DEF TicketsSpec, ticketSteps

\* purchases_log is never written beyond its end, for any number of buyers.
THEOREM LogFits == TicketsSpec => []LogInBounds
<1>1. OfficeInv => LogInBounds
  <2> SUFFICES ASSUME OfficeInv, Calm, NEW b \in Buyers, buyer_pc[b] = "log"
               PROVE  transactions < LOG_SIZE
    BY DEF LogInBounds
  <2> QED BY TicketsAssumption DEF OfficeInv, TicketsTyped, TicketsTypeOK, InOrder, OfficeFirst, Enough, Counted
<1> QED BY <1>1, Ordered, PTL

\* When the mutex or the segment is gone nobody buys any more, nor can begin to.
THEOREM NothingAfterClosing == TicketsSpec => []ClosedForGood
<1>1. OfficeInv => ClosedForGood
  BY DEF OfficeInv, InOrder, Shut, Closing, ClosedForGood
<1> QED BY <1>1, Ordered, PTL

-----------------------------------------------------------------------------
(* The tickets and the log *)

\* The sum over the log, with what a purchase under way has taken.
Balance ==
    ~NotYetOpen =>
        /\ (\A b \in Buyers : buyer_pc[b] \notin {"log", "count"})
              => available_tickets + Logged = TICKETS
        /\ \A b \in Buyers :
              /\ buyer_pc[b] = "log" => available_tickets + Logged + tickets_to_buy[b] = TICKETS
              /\ buyer_pc[b] = "count"
                    => /\ transactions < LOG_SIZE
                       /\ available_tickets + Logged + purchases_log[transactions] = TICKETS

BalanceInv == OfficeInv /\ (Calm => Balance)

LEMMA LogRange ==
    ASSUME OfficeInv, Calm, ~NotYetOpen
    PROVE  /\ transactions <= LOG_SIZE
           /\ \A b \in Buyers : buyer_pc[b] \in {"log", "count"} => transactions < LOG_SIZE
BY TicketsAssumption DEF OfficeInv, TicketsTyped, TicketsTypeOK, InOrder, Enough, Counted

LEMMA LoggedInt == ASSUME OfficeInv, Calm, ~NotYetOpen PROVE Logged \in Int
<1>1. transactions \in Nat /\ purchases_log \in [0 .. LOG_SIZE - 1 -> Nat] /\ LOG_SIZE \in Nat
  BY TicketsAssumption DEF OfficeInv, TicketsTyped, TicketsTypeOK
<1>2. IsFiniteSet(0 .. transactions - 1) BY <1>1, FS_Interval
<1>3. \A i \in 0 .. transactions - 1 : purchases_log[i] \in Int BY <1>1, LogRange
<1> QED BY <1>2, <1>3, SumInt DEF Logged

\* Nothing logged yet.
LEMMA LoggedNone == ASSUME transactions = 0 PROVE Logged = 0
<1>1. 0 .. transactions - 1 = {} OBVIOUS
<1> QED BY <1>1, SumEmpty DEF Logged

\* A purchase is logged above those that are there.
LEMMA LoggedKept ==
    ASSUME OfficeInv, Calm, ~NotYetOpen, transactions' = transactions,
           \A i \in 0 .. transactions - 1 : purchases_log'[i] = purchases_log[i]
    PROVE  Logged' = Logged
<1>1. transactions \in Nat BY DEF OfficeInv, TicketsTyped, TicketsTypeOK
<1>2. IsFiniteSet(0 .. transactions - 1) BY <1>1, FS_Interval
<1> QED BY <1>2, SumSame DEF Logged

LEMMA LoggedNext ==
    ASSUME OfficeInv, Calm, ~NotYetOpen, transactions < LOG_SIZE,
           transactions' = transactions + 1, purchases_log' = purchases_log
    PROVE  Logged' = Logged + purchases_log[transactions]
<1>1. transactions \in Nat /\ purchases_log \in [0 .. LOG_SIZE - 1 -> Nat] /\ LOG_SIZE \in Nat
  BY TicketsAssumption DEF OfficeInv, TicketsTyped, TicketsTypeOK
<1> DEFINE S == 0 .. transactions - 1
<1>2. IsFiniteSet(S) /\ transactions \notin S BY <1>1, FS_Interval
<1>3. 0 .. transactions' - 1 = S \cup {transactions} BY <1>1
<1>4. \A i \in S \cup {transactions} : purchases_log[i] \in Int BY <1>1
<1>5. Logged' = SumFunctionOnSet(purchases_log, S \cup {transactions}) BY <1>3 DEF Logged
<1>6. Logged = SumFunctionOnSet(purchases_log, S) BY DEF Logged
<1> HIDE DEF S
<1> QED BY <1>2, <1>4, <1>5, <1>6, SumAdd

LEMMA BalanceOffice == ASSUME BalanceInv, Calm, OfficeNext PROVE Balance'
<1> USE DEF Office, buyerVars, NotYetOpen
<1>1. CASE NotYetOpen
  <2>1. CASE ClearLog
    <3>1. /\ \A b \in Buyers : buyer_pc'[b] = "start"
          /\ transactions' = 0 /\ available_tickets' = TICKETS
      BY <1>1, <2>1 DEF OfficeNext, ClearLog, BalanceInv, OfficeInv, InOrder, OfficeFirst
    <3>2. Logged' = 0
      <4>1. (transactions = 0 => Logged = 0)' BY LoggedNone, PTL
      <4> QED BY <3>1, <4>1
    <3> QED BY <3>1, <3>2, TicketsAssumption DEF Balance
  <2>2. CASE ~ClearLog
    <3>1. NotYetOpen'
      BY <1>1, <2>2 DEF OfficeNext, CreateSharedMemory, InitCounters, InitMutex, Poll,
         PrintTicketReport, DestroyMutex, CleanupSharedMemory
    <3> QED BY <3>1 DEF Balance
  <2> QED BY <2>1, <2>2
<1>2. CASE ~NotYetOpen
  <2>1. UNCHANGED <<available_tickets, purchases_log, transactions, buyer_pc, tickets_to_buy>>
    BY <1>2 DEF OfficeNext, CreateSharedMemory, InitCounters, InitMutex, ClearLog, Poll,
       PrintTicketReport, DestroyMutex, CleanupSharedMemory
  <2>2. Logged' = Logged BY <2>1 DEF Logged
  <2> QED BY <1>2, <2>1, <2>2 DEF Balance, BalanceInv
<1> QED BY <1>1, <1>2

LEMMA BalanceBuyer ==
    ASSUME BalanceInv, Calm, NEW b \in Buyers, BuyerThread(b)
    PROVE  Balance'
<1> USE DEF Buyer, BalanceInv, officeVars, Buying, Inside
<1>1. CASE NotYetOpen
  <2>1. NotYetOpen' BY <1>1 DEF BuyerThread, NotYetOpen
  <2> QED BY <2>1 DEF Balance
<1>2. CASE ~NotYetOpen
  <2> USE <1>2
  <2>1. ~NotYetOpen' BY DEF BuyerThread, NotYetOpen
  <2> USE <2>1
  <2>2. /\ available_tickets \in Nat /\ purchases_log \in [0 .. LOG_SIZE - 1 -> Nat]
        /\ transactions \in Nat /\ LOG_SIZE \in Nat
        /\ buyer_pc \in [Buyers -> {"start", "lock", "exit", "dead"} \cup Inside]
        /\ tickets_to_buy \in [Buyers -> Nat]
    BY TicketsAssumption DEF OfficeInv, TicketsTyped, TicketsTypeOK, InOrder, Enough
  <2>3. Logged \in Int BY LoggedInt
  <2>4. \A c \in Buyers : buyer_pc[b] \in Buying /\ buyer_pc[c] \in Inside => c = b
    BY OneBuys DEF OfficeInv
  <2>5. ASSUME UNCHANGED <<available_tickets, purchases_log, transactions>>,
               buyer_pc[b] \notin {"log", "count"}, buyer_pc'[b] \notin {"log", "count"},
               \A c \in Buyers : buyer_pc'[c] \in {"log", "count"} =>
                  buyer_pc'[c] = buyer_pc[c] /\ tickets_to_buy'[c] = tickets_to_buy[c],
               \A c \in Buyers : buyer_pc[c] \in {"log", "count"} => buyer_pc'[c] = buyer_pc[c]
        PROVE  Balance'
    <3>1. Logged' = Logged BY <2>5 DEF Logged
    <3> QED BY <2>5, <3>1 DEF Balance
  <2>6. CASE AttachToSharedMemory(b)
    <3>1. CASE Buyer(b, "start", "lock") BY <2>2, <2>5, <2>6, <3>1 DEF BuyerThread, AttachToSharedMemory
    <3>2. CASE segment # "present"
      <4>1. \A c \in Buyers : buyer_pc[c] \notin Buying
        BY <3>2 DEF OfficeInv, InOrder, Shut, Closing, TicketsTyped, TicketsTypeOK, OfficeFirst, NotYetOpen
      <4> QED BY <2>2, <2>5, <2>6, <3>2, <4>1 DEF BuyerThread, AttachToSharedMemory
    <3> QED BY <2>6, <3>1, <3>2 DEF AttachToSharedMemory
  <2>7. CASE LockAndAsk(b) BY <2>2, <2>5, <2>7 DEF BuyerThread, LockAndAsk, Lock
  <2>8. CASE TestAvailable(b) BY <2>2, <2>5, <2>8 DEF BuyerThread, TestAvailable
  <2>9. CASE TakeTickets(b)
    <3>1. \A c \in Buyers : c # b => buyer_pc'[c] \notin {"log", "count"} BY <2>2, <2>4, <2>9 DEF TakeTickets
    <3>2. \A c \in Buyers : buyer_pc[c] \notin {"log", "count"} BY <2>4, <2>9 DEF TakeTickets
    <3>3. Logged' = Logged BY <2>9 DEF Logged, TakeTickets
    <3>4. available_tickets + Logged = TICKETS BY <3>2 DEF Balance
    <3>5. available_tickets' = available_tickets - tickets_to_buy[b] /\ tickets_to_buy' = tickets_to_buy
      BY <2>9 DEF TakeTickets
    <3>6. buyer_pc'[b] = "log" BY <2>2, <2>9 DEF TakeTickets
    <3>7. tickets_to_buy[b] \in Nat BY <2>2
    <3>8. available_tickets' + Logged' + tickets_to_buy'[b] = TICKETS
      BY <2>2, <2>3, <3>3, <3>4, <3>5, <3>7
    <3> QED BY <3>1, <3>6, <3>8 DEF Balance
  <2>10. CASE LogPurchase(b)
    <3>1. \A c \in Buyers : c # b => buyer_pc'[c] \notin {"log", "count"} BY <2>2, <2>4, <2>10 DEF LogPurchase
    <3>2. transactions < LOG_SIZE BY <2>10, LogRange DEF LogPurchase
    <3>3. Logged' = Logged
      <4>1. \A i \in 0 .. transactions - 1 : purchases_log'[i] = purchases_log[i]
        BY <2>2, <3>2, <2>10 DEF LogPurchase
      <4> QED BY <4>1, <2>10, LoggedKept DEF LogPurchase
    <3>4. purchases_log'[transactions'] = tickets_to_buy[b] BY <2>2, <2>10, <3>2 DEF LogPurchase
    <3>5. available_tickets + Logged + tickets_to_buy[b] = TICKETS BY <2>10 DEF Balance, LogPurchase
    <3>6. buyer_pc'[b] = "count" /\ transactions' = transactions /\ available_tickets' = available_tickets
      BY <2>2, <2>10 DEF LogPurchase
    <3> QED BY <3>1, <3>2, <3>3, <3>4, <3>5, <3>6 DEF Balance
  <2>11. CASE CountTransaction(b)
    <3>1. \A c \in Buyers : buyer_pc'[c] \notin {"log", "count"} BY <2>2, <2>4, <2>11 DEF CountTransaction
    <3>2. /\ transactions < LOG_SIZE
          /\ available_tickets + Logged + purchases_log[transactions] = TICKETS
      BY <2>11 DEF Balance, CountTransaction
    <3>3. Logged' = Logged + purchases_log[transactions]
      BY <2>11, <3>2, LoggedNext DEF CountTransaction
    <3>4. purchases_log[transactions] \in Nat BY <2>2, <3>2
    <3>5. available_tickets' + Logged' = TICKETS
      BY <2>2, <2>3, <2>11, <3>2, <3>3, <3>4 DEF CountTransaction
    <3> QED BY <3>1, <3>5 DEF Balance
  <2>12. CASE Unlock(b) BY <2>2, <2>5, <2>12 DEF BuyerThread, Unlock
  <2>13. CASE Leave(b) BY <2>2, <2>5, <2>13 DEF BuyerThread, Leave
  <2> QED BY <2>6, <2>7, <2>8, <2>9, <2>10, <2>11, <2>12, <2>13 DEF BuyerThread
<1> QED BY <1>1, <1>2

LEMMA BalanceStep == ASSUME BalanceInv, [ticketSteps]_<<ticketVars, courseVars>> PROVE BalanceInv'
<1>1. OfficeInv' BY OfficeInvStep DEF BalanceInv
<1>2. CASE ticketSteps
  <2>1. Calm' => Calm BY <1>2 DEF ticketSteps, courseVars, Calm
  <2>2. ASSUME Calm PROVE Balance'
    <3>1. CASE OfficeNext BY <2>2, <3>1, BalanceOffice
    <3>2. ASSUME NEW b \in Buyers, BuyerThread(b) PROVE Balance' BY <2>2, <3>2, BalanceBuyer
    <3> QED BY <1>2, <3>1, <3>2 DEF ticketSteps, TicketsNext
  <2> QED BY <1>1, <2>1, <2>2 DEF BalanceInv
<1>3. CASE UNCHANGED <<ticketVars, courseVars>>
  BY <1>1, <1>3 DEF BalanceInv, Balance, Logged, NotYetOpen, ticketVars, officeVars, buyerVars, courseVars, Calm
<1> QED BY <1>2, <1>3

\* No ticket is sold twice or lost, for any number of buyers and tickets: whenever
\* nobody is in a purchase, those available and those in the log add up.
THEOREM NoTicketLost == TicketsSpec => []TicketsConserved
<1>1. TicketsInit => BalanceInv
  BY TicketsTypedInit, InOrderInit DEF BalanceInv, OfficeInv, Balance, NotYetOpen, TicketsInit
<1>2. BalanceInv /\ [ticketSteps]_<<ticketVars, courseVars>> => BalanceInv' BY BalanceStep
<1>3. BalanceInv => TicketsConserved
  BY DEF BalanceInv, Balance, TicketsConserved, Opened, NotYetOpen, Buying
<1> QED BY <1>1, <1>2, <1>3, PTL DEF TicketsSpec, ticketSteps

-----------------------------------------------------------------------------
(* The last report *)

\* From the first poll that finds nothing on, nobody buys; and a report that was
\* printed since then is complete.
LastSeen ==
    sold_out_count > 0 =>
        /\ available_tickets = 0
        /\ \A b \in Buyers : buyer_pc[b] \notin Buying
        /\ office_pc # "report" /\ SOLD_OUT_POLLS > 1
              => report = [tickets |-> 0, transactions |-> transactions]

ReportInv == OfficeInv /\ (Calm => LastSeen /\ (Closing => sold_out_count > 0))

LEMMA LastSeenStep == ASSUME ReportInv, Calm, TicketsNext PROVE LastSeen'
<1> USE DEF ReportInv, OfficeInv, LastSeen, Buying
<1>1. sold_out_count \in Nat /\ (NotYetOpen => sold_out_count = 0)
  BY DEF TicketsTyped, TicketsTypeOK, InOrder, OfficeFirst
<1>2. CASE OfficeNext
  <2> USE <1>1, <1>2 DEF Office, buyerVars, OfficeNext, NotYetOpen
  <2>1. CASE CreateSharedMemory BY <2>1 DEF CreateSharedMemory
  <2>2. CASE InitCounters BY <2>2 DEF InitCounters
  <2>3. CASE InitMutex BY <2>3 DEF InitMutex
  <2>4. CASE ClearLog BY <2>4 DEF ClearLog
  <2>5. CASE Poll
    <3>1. CASE available_tickets = 0
      <4>1. ASSUME NEW b \in Buyers PROVE buyer_pc[b] \notin Buying
        BY <2>5, TicketsAssumption DEF Poll, InOrder, Exclusive, Shut, TicketsTyped, TicketsTypeOK, Inside
      <4>2. office_pc' # "report" /\ SOLD_OUT_POLLS > 1 => sold_out_count > 0
        BY <2>5, <3>1, TicketsAssumption DEF Poll
      <4> QED BY <2>5, <3>1, <4>1, <4>2 DEF Poll
    <3>2. CASE available_tickets # 0 BY <2>5, <3>2 DEF Poll
    <3> QED BY <3>1, <3>2
  <2>6. CASE PrintTicketReport BY <2>6 DEF PrintTicketReport
  <2>7. CASE DestroyMutex BY <2>7 DEF DestroyMutex
  <2>8. CASE CleanupSharedMemory BY <2>8 DEF CleanupSharedMemory
  <2> QED BY <2>1, <2>2, <2>3, <2>4, <2>5, <2>6, <2>7, <2>8
<1>3. ASSUME NEW b \in Buyers, BuyerThread(b) PROVE LastSeen'
  <2> SUFFICES ASSUME sold_out_count > 0 PROVE LastSeen'
    BY <1>3 DEF BuyerThread, officeVars
  <2>1. /\ available_tickets' = 0 /\ transactions' = transactions
        /\ \A c \in Buyers : buyer_pc'[c] \notin Buying
    <3> USE <1>3 DEF BuyerThread, Buyer, TicketsTyped, TicketsTypeOK
    <3>1. CASE AttachToSharedMemory(b) BY <3>1 DEF AttachToSharedMemory
    <3>2. CASE LockAndAsk(b) BY <3>2 DEF LockAndAsk, Lock
    <3>3. CASE TestAvailable(b) BY <3>3 DEF TestAvailable
    <3>4. CASE Unlock(b) BY <3>4 DEF Unlock
    <3>5. CASE Leave(b) BY <3>5 DEF Leave
    <3> QED BY <3>1, <3>2, <3>3, <3>4, <3>5 DEF TakeTickets, LogPurchase, CountTransaction
  <2> QED BY <1>3, <2>1 DEF BuyerThread, officeVars
<1> QED BY <1>2, <1>3 DEF TicketsNext

LEMMA ReportStep == ASSUME ReportInv, [ticketSteps]_<<ticketVars, courseVars>> PROVE ReportInv'
<1>1. OfficeInv' BY OfficeInvStep DEF ReportInv
<1>2. CASE ticketSteps
  <2>1. Calm' => Calm BY <1>2 DEF ticketSteps, courseVars, Calm
  <2>2. ASSUME Calm PROVE LastSeen' BY <1>2, <2>2, LastSeenStep DEF ticketSteps
  <2>3. ASSUME Calm PROVE (Closing => sold_out_count > 0)'
    <3>1. CASE OfficeNext
      BY <2>3, <3>1, TicketsAssumption
      DEF OfficeNext, CreateSharedMemory, InitCounters, InitMutex, ClearLog, Poll, PrintTicketReport,
          DestroyMutex, CleanupSharedMemory, Office, Closing, ReportInv, OfficeInv, TicketsTyped, TicketsTypeOK
    <3>2. ASSUME NEW b \in Buyers, BuyerThread(b) PROVE (Closing => sold_out_count > 0)'
      BY <2>3, <3>2 DEF BuyerThread, officeVars, Closing, ReportInv
    <3> QED BY <1>2, <3>1, <3>2 DEF ticketSteps, TicketsNext
  <2> QED BY <1>1, <2>1, <2>2, <2>3 DEF ReportInv
<1>3. CASE UNCHANGED <<ticketVars, courseVars>>
  BY <1>1, <1>3 DEF ReportInv, LastSeen, Closing, ticketVars, officeVars, buyerVars, courseVars, Calm
<1> QED BY <1>2, <1>3

\* When the office has gone its last report says SOLD OUT and has all transactions,
\* for any number of buyers, and any number of polls above one.
THEOREM LastReport == TicketsSpec => []LastReportComplete
<1>1. TicketsInit => ReportInv
  BY TicketsTypedInit, InOrderInit DEF ReportInv, OfficeInv, LastSeen, Closing, TicketsInit
<1>2. ReportInv /\ [ticketSteps]_<<ticketVars, courseVars>> => ReportInv' BY ReportStep
<1>3. ReportInv => LastReportComplete
  BY DEF ReportInv, OfficeInv, InOrder, Shut, Closing, LastSeen, LastReportComplete
<1> QED BY <1>1, <1>2, <1>3, PTL DEF TicketsSpec, ticketSteps

-----------------------------------------------------------------------------
(* The ticket office as a shop *)

\* A purchase that is under way has logged what it took.
LoggedInHand ==
    \A b \in Buyers : buyer_pc[b] = "count" => purchases_log[transactions] = tickets_to_buy[b]

ShopInv == ReportInv /\ (Calm => LoggedInHand)

LEMMA LoggedInHandStep == ASSUME OfficeInv, Calm, LoggedInHand, TicketsNext PROVE LoggedInHand'
<1> USE DEF LoggedInHand, Buying, Inside
<1>1. CASE OfficeNext
  <2>1. NotYetOpen => \A b \in Buyers : buyer_pc[b] = "start" BY DEF OfficeInv, InOrder, OfficeFirst
  <2>2. UNCHANGED <<buyer_pc, tickets_to_buy>> BY <1>1 DEF OfficeNext, buyerVars
  <2>3. ~NotYetOpen => UNCHANGED <<purchases_log, transactions>>
    BY <1>1 DEF OfficeNext, CreateSharedMemory, InitCounters, InitMutex, ClearLog, Poll, PrintTicketReport,
       DestroyMutex, CleanupSharedMemory, Office, NotYetOpen
  <2> QED BY <2>1, <2>2, <2>3
<1>2. ASSUME NEW b \in Buyers, BuyerThread(b) PROVE LoggedInHand'
  <2> USE <1>2 DEF BuyerThread, Buyer
  <2>1. /\ buyer_pc \in [Buyers -> {"start", "lock", "exit", "dead"} \cup Inside]
        /\ tickets_to_buy \in [Buyers -> Nat] /\ transactions \in Nat
        /\ purchases_log \in [0 .. LOG_SIZE - 1 -> Nat]
    BY TicketsAssumption DEF OfficeInv, TicketsTyped, TicketsTypeOK
  <2>2. \A c \in Buyers : buyer_pc[b] \in Buying /\ buyer_pc[c] \in Inside => c = b BY OneBuys DEF OfficeInv
  <2>3. CASE AttachToSharedMemory(b) BY <2>1, <2>3 DEF AttachToSharedMemory
  <2>4. CASE LockAndAsk(b) BY <2>1, <2>4 DEF LockAndAsk, Lock
  <2>5. CASE TestAvailable(b) BY <2>1, <2>5 DEF TestAvailable
  <2>6. CASE TakeTickets(b) BY <2>1, <2>6 DEF TakeTickets
  <2>7. CASE LogPurchase(b)
    <3>1. ~NotYetOpen BY <2>7 DEF LogPurchase, OfficeInv, InOrder, OfficeFirst
    <3>2. transactions < LOG_SIZE BY <2>7, <3>1, LogRange DEF LogPurchase
    <3>3. \A c \in Buyers : buyer_pc'[c] = "count" => c = b BY <2>1, <2>2, <2>7 DEF LogPurchase
    <3> QED BY <2>1, <2>7, <3>2, <3>3, TicketsAssumption DEF LogPurchase
  <2>8. CASE CountTransaction(b)
    <3>1. \A c \in Buyers : buyer_pc'[c] # "count" BY <2>1, <2>2, <2>8 DEF CountTransaction
    <3> QED BY <3>1
  <2>9. CASE Unlock(b) BY <2>1, <2>9 DEF Unlock
  <2>10. CASE Leave(b) BY <2>1, <2>10 DEF Leave
  <2> QED BY <2>3, <2>4, <2>5, <2>6, <2>7, <2>8, <2>9, <2>10
<1> QED BY <1>1, <1>2 DEF TicketsNext

\* What the shop has and has sold, as the specification maps it.
Stock == IF NotYetOpen THEN TICKETS ELSE available_tickets + InHand
Purchases == [i \in 1 .. transactions |-> purchases_log[i - 1]]

\* Unless a purchase is counted, the shop has the same tickets and has sold the same.
SameShop == Stock' = Stock /\ Purchases' = Purchases

LEMMA NothingInHand ==
    ASSUME \A b \in Buyers : buyer_pc[b] \notin {"log", "count"}
    PROVE  InHand = 0
BY DEF InHand

LEMMA TakenInHand ==
    ASSUME OfficeInv, Calm, NEW b \in Buyers, buyer_pc[b] \in {"log", "count"}
    PROVE  holder = b /\ mutex = "works" /\ InHand = tickets_to_buy[b]
<1>1. mutex = "works"
  BY DEF OfficeInv, InOrder, Shut, Closing, Buying, TicketsTyped, TicketsTypeOK
<1>2. holder = b BY <1>1 DEF OfficeInv, InOrder, Exclusive, Inside, Buying
<1> QED BY <1>1, <1>2 DEF InHand

LEMMA HandsKept ==
    ASSUME UNCHANGED <<holder, tickets_to_buy>>,
           \A c \in Buyers : buyer_pc'[c] \in {"log", "count"} <=> buyer_pc[c] \in {"log", "count"}
    PROVE  InHand' = InHand
BY DEF InHand

\* The office opens with its tickets, prints what there is, and closes sold out.
LEMMA OfficeOfShop ==
    ASSUME ShopInv, Calm, OfficeNext
    PROVE  \/ SameShop /\ UNCHANGED <<report, segment = "removed">>
           \/ Counter!PrintReport
           \/ Counter!Close
<1> USE DEF Office, NotYetOpen
<1>1. /\ transactions \in Nat /\ available_tickets \in Int /\ NoBuyer \notin Buyers
      /\ UNCHANGED <<buyer_pc, tickets_to_buy>>
      /\ OfficeInv /\ OfficeFirst /\ Shut /\ LastSeen /\ (Closing => sold_out_count > 0)
  BY TicketsAssumption DEF ShopInv, ReportInv, OfficeInv, TicketsTyped, TicketsTypeOK, InOrder, OfficeNext, buyerVars
<1>2. office_pc # "exit" /\ segment # "removed"
  BY <1>1 DEF OfficeNext, Shut, CreateSharedMemory, InitCounters, InitMutex, ClearLog, Poll, PrintTicketReport,
     DestroyMutex, CleanupSharedMemory
<1>3. CASE CreateSharedMemory \/ InitCounters \/ InitMutex
  <2>1. NotYetOpen /\ NotYetOpen' /\ UNCHANGED report /\ segment' # "removed"
    BY <1>2, <1>3 DEF CreateSharedMemory, InitCounters, InitMutex
  <2>2. transactions = 0 /\ transactions' = 0
    BY <1>1, <1>3, <2>1 DEF OfficeFirst, CreateSharedMemory, InitCounters, InitMutex
  <2>3. Purchases' = Purchases BY <2>2 DEF Purchases
  <2> QED BY <1>2, <2>1, <2>3 DEF SameShop, Stock
<1>4. CASE ClearLog
  <2>1. NotYetOpen /\ ~NotYetOpen' /\ UNCHANGED <<report, segment, holder>> BY <1>4 DEF ClearLog
  <2>2. /\ transactions = 0 /\ transactions' = 0 /\ available_tickets' = TICKETS
        /\ \A b \in Buyers : buyer_pc[b] = "start"
    BY <1>1, <1>4 DEF ClearLog, OfficeFirst
  <2>3. Purchases' = Purchases BY <2>2 DEF Purchases
  <2>4. InHand' = 0 BY <1>1, <2>2 DEF InHand
  <2>5. Stock = TICKETS /\ Stock' = TICKETS BY <2>1, <2>2, <2>4, TicketsAssumption DEF Stock
  <2> QED BY <2>1, <2>3, <2>5 DEF SameShop
<1>5. CASE Poll \/ DestroyMutex
  <2>1. /\ ~NotYetOpen /\ ~NotYetOpen'
        /\ UNCHANGED <<report, segment, holder, available_tickets, transactions, purchases_log>>
    BY <1>5 DEF Poll, DestroyMutex
  <2>2. InHand' = InHand BY <1>1, <2>1, HandsKept
  <2>3. Purchases' = Purchases BY <2>1 DEF Purchases
  <2> QED BY <2>1, <2>2, <2>3 DEF SameShop, Stock
<1>6. CASE PrintTicketReport
  <2>1. /\ ~NotYetOpen /\ ~NotYetOpen' /\ holder = NoBuyer
        /\ UNCHANGED <<segment, holder, available_tickets, transactions, purchases_log>>
        /\ report' = [tickets |-> available_tickets, transactions |-> transactions]
    BY <1>6 DEF PrintTicketReport
  <2>2. InHand = 0 /\ InHand' = InHand BY <1>1, <2>1 DEF InHand
  <2>3. Purchases' = Purchases BY <2>1 DEF Purchases
  <2>4. Stock = available_tickets /\ Stock' = Stock BY <1>1, <2>1, <2>2 DEF Stock
  <2>5. Len(Purchases) = transactions BY <1>1 DEF Purchases
  <2>6. /\ ~(segment = "removed") /\ report' = [tickets |-> Stock, transactions |-> Len(Purchases)]
        /\ UNCHANGED <<Stock, Purchases, segment = "removed">>
    BY <1>2, <2>1, <2>3, <2>4, <2>5
  <2> QED BY <2>6 DEF Counter!PrintReport, Stock, Purchases
<1>7. CASE CleanupSharedMemory
  <2>1. /\ ~NotYetOpen /\ ~NotYetOpen' /\ Closing /\ office_pc # "report"
        /\ UNCHANGED <<report, holder, available_tickets, transactions, purchases_log>>
        /\ segment' = "removed"
    BY <1>7 DEF CleanupSharedMemory, Closing
  <2>2. available_tickets = 0 /\ InHand = 0 /\ InHand' = InHand
    BY <1>1, <2>1, NothingInHand, HandsKept DEF Shut, Buying
  <2>3. Purchases' = Purchases BY <2>1 DEF Purchases
  <2>4. Stock = 0 /\ Stock' = Stock BY <2>1, <2>2 DEF Stock
  <2>5. Len(Purchases) = transactions BY <1>1 DEF Purchases
  <2>6. SOLD_OUT_POLLS > 1 => report = [tickets |-> 0, transactions |-> Len(Purchases)]
    BY <1>1, <2>1, <2>5 DEF LastSeen
  <2>7. /\ ~(segment = "removed") /\ Stock = 0 /\ (segment = "removed")' = TRUE
        /\ UNCHANGED <<Stock, Purchases, report>>
    BY <1>2, <2>1, <2>3, <2>4
  <2> QED BY <2>6, <2>7 DEF Counter!Close, Stock, Purchases
<1> QED BY <1>3, <1>4, <1>5, <1>6, <1>7 DEF OfficeNext

\* A buyer sells itself its tickets when it counts the purchase.
LEMMA BuyerOfShop ==
    ASSUME ShopInv, Calm, NEW b \in Buyers, BuyerThread(b)
    PROVE  \/ SameShop /\ UNCHANGED <<report, segment = "removed">>
           \/ Counter!Sell
<1> USE DEF BuyerThread, Buyer, officeVars, Buying, Inside
<1>1. /\ OfficeInv /\ LoggedInHand /\ OfficeFirst /\ Exclusive /\ Shut /\ Enough
      /\ buyer_pc \in [Buyers -> {"start", "lock", "exit", "dead"} \cup Inside]
      /\ tickets_to_buy \in [Buyers -> 0 .. MAX_BUY] /\ MAX_BUY \in Nat
      /\ transactions \in Nat /\ available_tickets \in Int
      /\ purchases_log \in [0 .. LOG_SIZE - 1 -> Nat] /\ LOG_SIZE \in Nat
      /\ mutex \in {"works", "destroyed"} /\ segment \in {"none", "present", "removed"}
      /\ holder \in Buyers \cup {NoBuyer} /\ NoBuyer \notin Buyers
  BY TicketsAssumption DEF ShopInv, ReportInv, OfficeInv, InOrder, TicketsTyped, TicketsTypeOK
<1>2. ~NotYetOpen /\ ~NotYetOpen' /\ UNCHANGED <<report, segment, mutex>>
  BY <1>1 DEF OfficeFirst, NotYetOpen, AttachToSharedMemory, LockAndAsk, Lock, TestAvailable, TakeTickets,
     LogPurchase, CountTransaction, Unlock, Leave
<1>3. \A c \in Buyers : buyer_pc[c] \in {"log", "count"} => holder = c /\ mutex = "works"
  BY <1>1, TakenInHand
<1>4. \A c \in Buyers : buyer_pc[b] \in Buying /\ buyer_pc[c] \in Inside => c = b
  BY <1>1, OneBuys DEF OfficeInv
<1>5. ASSUME UNCHANGED <<available_tickets, purchases_log, transactions>>, InHand' = InHand
      PROVE  SameShop
  BY <1>2, <1>5 DEF SameShop, Stock, Purchases
<1>6. CASE AttachToSharedMemory(b)
  <2>1. CASE Buyer(b, "start", "lock") BY <1>1, <1>2, <1>5, <1>6, <2>1, HandsKept DEF AttachToSharedMemory
  <2>2. CASE segment # "present"
    <3>1. \A c \in Buyers : buyer_pc[c] \notin Buying
      BY <1>1, <1>2, <2>2 DEF OfficeFirst, Shut, Closing, NotYetOpen
    <3>2. \A c \in Buyers : buyer_pc'[c] \in {"exit", "dead"} BY <1>6, <2>2 DEF AttachToSharedMemory
    <3>3. InHand' = InHand BY <3>1, <3>2 DEF InHand
    <3> QED BY <1>2, <1>5, <1>6, <3>3 DEF AttachToSharedMemory
  <2> QED BY <1>6, <2>1, <2>2 DEF AttachToSharedMemory
<1>7. CASE LockAndAsk(b)
  <2>1. \A c \in Buyers : buyer_pc[c] \notin {"log", "count"} BY <1>1, <1>3, <1>7 DEF LockAndAsk, Lock
  <2>2. \A c \in Buyers : buyer_pc'[c] \notin {"log", "count"} BY <1>1, <1>7, <2>1 DEF LockAndAsk, Lock
  <2>3. InHand' = InHand BY <2>1, <2>2 DEF InHand
  <2> QED BY <1>2, <1>5, <1>7, <2>3 DEF LockAndAsk, Lock
<1>8. CASE TestAvailable(b) BY <1>1, <1>2, <1>5, <1>8, HandsKept DEF TestAvailable
<1>9. CASE TakeTickets(b)
  <2>1. mutex = "works" /\ holder = b BY <1>1, <1>9 DEF TakeTickets, Shut, Closing, Exclusive
  <2>2. InHand = 0 BY <1>9, <2>1 DEF InHand, TakeTickets
  <2>3. InHand' = tickets_to_buy[b] BY <1>1, <1>9, <2>1 DEF InHand, TakeTickets
  <2>4. available_tickets + InHand = available_tickets' + InHand'
    BY <1>1, <1>9, <2>2, <2>3 DEF TakeTickets
  <2> QED BY <1>2, <1>9, <2>4 DEF SameShop, Stock, Purchases, TakeTickets
<1>10. CASE LogPurchase(b)
  <2>1. InHand' = InHand BY <1>1, <1>10, HandsKept DEF LogPurchase
  <2>2. \A i \in 1 .. transactions : purchases_log'[i - 1] = purchases_log[i - 1]
    BY <1>1, <1>2, <1>10, LogRange DEF LogPurchase
  <2>3. Purchases' = Purchases BY <1>10, <2>2 DEF Purchases, LogPurchase
  <2>4. Stock' = Stock BY <1>2, <1>10, <2>1 DEF Stock, LogPurchase
  <2> QED BY <1>2, <2>3, <2>4 DEF SameShop
<1>11. CASE CountTransaction(b)
  <2> DEFINE n == tickets_to_buy[b]
  <2>1. InHand = n BY <1>1, <1>11, TakenInHand DEF CountTransaction
  <2>2. InHand' = 0
    <3>1. \A c \in Buyers : buyer_pc'[c] \notin {"log", "count"} BY <1>1, <1>4, <1>11 DEF CountTransaction
    <3> QED BY <3>1 DEF InHand
  <2>3. n \in 1 .. MAX_BUY /\ available_tickets >= 0 BY <1>1, <1>11 DEF Enough, CountTransaction
  <2>4. Stock = available_tickets + n /\ Stock' = available_tickets
    BY <1>1, <1>2, <1>11, <2>1, <2>2 DEF Stock, CountTransaction
  <2>5. purchases_log[transactions] = n BY <1>1, <1>11 DEF LoggedInHand, CountTransaction
  <2>6. Purchases' = Append(Purchases, n)
    <3>1. Purchases' = [i \in 1 .. transactions + 1 |-> purchases_log[i - 1]]
      BY <1>11 DEF Purchases, CountTransaction
    <3>2. /\ Len(Purchases) = transactions
          /\ \A i \in 1 .. transactions : Purchases[i] = purchases_log[i - 1]
      BY <1>1 DEF Purchases
    <3>3. Append(Purchases, n) = [i \in 1 .. transactions + 1 |-> IF i <= transactions THEN Purchases[i] ELSE n]
      BY <1>1, <3>2
    <3> QED BY <1>1, <2>5, <3>1, <3>2, <3>3
  <2>7. n <= Stock /\ Stock' = Stock - n BY <1>1, <2>3, <2>4
  <2>8. ~(segment = "removed")
    BY <1>1, <1>11 DEF Shut, Closing, CountTransaction
  <2> HIDE DEF n
  <2>9. /\ ~(segment = "removed") /\ n \in 1 .. MAX_BUY /\ n <= Stock
        /\ Stock' = Stock - n /\ Purchases' = Append(Purchases, n)
        /\ UNCHANGED <<report, segment = "removed">>
    BY <1>2, <2>3, <2>6, <2>7, <2>8
  <2> QED BY <2>9 DEF Counter!Sell, Stock, Purchases, NotYetOpen
<1>12. CASE Unlock(b) \/ Leave(b)
  <2>1. CASE holder = b
    <3>1. \A c \in Buyers : buyer_pc[c] \notin {"log", "count"} BY <1>3, <1>12, <2>1 DEF Unlock, Leave
    <3>2. \A c \in Buyers : buyer_pc'[c] \notin {"log", "count"} BY <1>1, <1>12, <3>1 DEF Unlock, Leave
    <3>3. InHand' = InHand BY <3>1, <3>2 DEF InHand
    <3> QED BY <1>2, <1>5, <1>12, <3>3 DEF Unlock, Leave
  <2>2. CASE holder # b
    BY <1>1, <1>2, <1>5, <1>12, <2>2, HandsKept DEF Unlock, Leave, Unlocked
  <2> QED BY <2>1, <2>2
<1> QED BY <1>6, <1>7, <1>8, <1>9, <1>10, <1>11, <1>12

\* For any number of buyers and tickets and at a proper pace, the office and its buyers
\* implement a shop that sells one whole purchase at a time (Shop.tla).
THEOREM ShopImplemented == TicketsSpec => SoldOneByOne
<1>1. TicketsInit => ShopInv /\ (Calm => Counter!ShopInit)
  <2> SUFFICES ASSUME TicketsInit PROVE ShopInv /\ (Calm => Counter!ShopInit) OBVIOUS
  <2>1. ShopInv
    BY TicketsTypedInit, InOrderInit DEF ShopInv, LoggedInHand, ReportInv, OfficeInv, LastSeen, Closing, TicketsInit
  <2>2. transactions = 0 /\ office_pc = "create" /\ segment = "none"
        /\ report = [tickets |-> 0, transactions |-> 0]
    BY DEF TicketsInit
  <2>3. [i \in 1 .. transactions |-> purchases_log[i - 1]] = <<>> BY <2>2
  <2> QED BY <2>1, <2>2, <2>3 DEF Counter!ShopInit
<1>2. ShopInv /\ [ticketSteps]_<<ticketVars, courseVars>> => ShopInv'
  <2> SUFFICES ASSUME ShopInv, [ticketSteps]_<<ticketVars, courseVars>> PROVE ShopInv' OBVIOUS
  <2>1. ReportInv' BY ReportStep DEF ShopInv
  <2>2. CASE ticketSteps
    <3>1. Calm' => Calm BY <2>2 DEF ticketSteps, courseVars, Calm
    <3> QED BY <2>1, <2>2, <3>1, LoggedInHandStep DEF ShopInv, ReportInv, ticketSteps
  <2>3. CASE UNCHANGED <<ticketVars, courseVars>>
    BY <2>1, <2>3 DEF ShopInv, LoggedInHand, ticketVars, buyerVars, courseVars, Calm
  <2> QED BY <2>2, <2>3
<1>3. ShopInv /\ [ticketSteps]_<<ticketVars, courseVars>> => [Calm => Counter!ShopNext]_(Counter!shopVars)
  <2> SUFFICES ASSUME ShopInv, [ticketSteps]_<<ticketVars, courseVars>>, Calm
               PROVE  Counter!ShopNext \/ UNCHANGED Counter!shopVars
    OBVIOUS
  <2>1. SameShop /\ UNCHANGED <<report, segment = "removed">> => UNCHANGED Counter!shopVars
    BY DEF SameShop, Stock, Purchases, NotYetOpen, Counter!shopVars
  <2>2. CASE ticketSteps
    <3>1. CASE OfficeNext BY <2>1, <3>1, OfficeOfShop DEF Counter!ShopNext
    <3>2. ASSUME NEW b \in Buyers, BuyerThread(b) PROVE Counter!ShopNext \/ UNCHANGED Counter!shopVars
      BY <2>1, <3>2, BuyerOfShop DEF Counter!ShopNext
    <3> QED BY <2>2, <3>1, <3>2 DEF ticketSteps, TicketsNext
  <2>3. CASE UNCHANGED <<ticketVars, courseVars>>
    BY <2>3 DEF ticketVars, officeVars, buyerVars, InHand, Counter!shopVars
  <2> QED BY <2>2, <2>3
<1> QED BY <1>1, <1>2, <1>3, PTL DEF TicketsSpec, ticketSteps, SoldOneByOne

-----------------------------------------------------------------------------
(* The game: pos_mtx *)

\* Under pos_mtx.
Holding == {"act", "clamp", "stop", "unlock"}

GamePlaces == {"place", "create", "test", "getch", "lock", "act", "clamp", "stop", "unlock",
               "result", "join", "exit", "unborn"}

\* A thread is between lock and unlock if and only if the mutex names it, and
\* main() starts the others when it has placed the ball and the X.
Guarded ==
    /\ game_pc \in [GameThreads -> GamePlaces]
    /\ pos_mtx \in GameThreads \cup {"free"}
    /\ \A t \in GameThreads : game_pc[t] \in Holding <=> pos_mtx = t
    /\ game_pc["main"] \in {"place", "create"} => \A t \in GameThreads \ {"main"} : game_pc[t] = "unborn"
    /\ \A t \in GameThreads : game_pc[t] = "clamp" => t = "keys"

gameSteps == GameNext /\ UNCHANGED courseVars

LEMMA GuardedInit == ASSUME GameInit PROVE Guarded
BY DEF GameInit, Guarded, GamePlaces, GameThreads, Holding

\* Each thread takes and leaves the mutex for itself only.
LEMMA GuardedStep == ASSUME Guarded, GameNext PROVE Guarded'
<1> PICK t \in GameThreads : ThreadStep(t) BY DEF GameNext
<1> USE DEF Guarded, GamePlaces, GameThreads, Holding, Thread
<1>1. CASE TestRunningFlag(t) BY <1>1 DEF TestRunningFlag
<1>2. CASE LockPositions(t) BY <1>2 DEF LockPositions
<1>3. CASE UnlockPositions(t) BY <1>3 DEF UnlockPositions
<1>4. CASE t = "keys" /\ (PressKey \/ PressQ \/ ClampBall \/ GetKey)
  BY <1>4 DEF PressKey, PressQ, ClampBall, GetKey
<1>5. CASE t = "x" /\ RandomStep BY <1>5 DEF RandomStep
<1>6. CASE t = "collision" /\ (Collide \/ Miss) BY <1>6 DEF Collide, Miss
<1>7. CASE t = "main" /\ (Place \/ CreateGameThreads \/ Draw \/ ShowResult \/ JoinThreads)
  <2>1. CASE Place BY <2>1 DEF Place
  <2>2. CASE CreateGameThreads BY <2>2 DEF CreateGameThreads
  <2>3. CASE Draw BY <2>3 DEF Draw
  <2>4. CASE ShowResult BY <2>4 DEF ShowResult
  <2>5. CASE JoinThreads BY <2>5 DEF JoinThreads
  <2> QED BY <1>7, <2>1, <2>2, <2>3, <2>4, <2>5
<1> QED BY <1>1, <1>2, <1>3, <1>4, <1>5, <1>6, <1>7 DEF ThreadStep

-----------------------------------------------------------------------------
(* The game: the border *)

Screen == (0 .. max_cols - 1) \X (0 .. max_rows - 1)

\* From the start on, the X is inside the border, and the ball too, except in
\* the hands of the keyboard thread, which may have moved it onto the border.
OnScreen ==
    /\ game_pc["main"] \notin {"place", "create"}
          => /\ x_pos \in Borders
             /\ ball_pos \in IF game_pc["keys"] = "clamp" THEN Screen ELSE Borders
    /\ game_pc["main"] = "create" => {ball_pos, x_pos} \subseteq Borders
    /\ ball_pos \in Screen /\ x_pos \in Screen

LEMMA WithinBorder ==
    ASSUME NEW c \in Int, NEW max \in Nat \ 0 .. 2
    PROVE  Within(c, max) \in 1 .. max - 2
BY DEF Within

LEMMA ClampInside == ASSUME NEW p \in Int \X Int PROVE Clamp(p) \in Borders
BY WithinBorder, GameAssumption DEF Clamp, Borders

LEMMA OnScreenStep == ASSUME max_cols >= 5, Guarded, OnScreen, GameNext PROVE OnScreen'
<1> PICK t \in GameThreads : ThreadStep(t) BY DEF GameNext
<1> USE GameAssumption DEF Guarded, OnScreen, GamePlaces, GameThreads, Holding, Thread
<1>0. Screen \subseteq Int \X Int /\ Borders \subseteq Screen BY DEF Screen, Borders
<1>1. CASE TestRunningFlag(t) BY <1>1 DEF TestRunningFlag
<1>2. CASE LockPositions(t) BY <1>2 DEF LockPositions
<1>3. CASE UnlockPositions(t) BY <1>3 DEF UnlockPositions
<1>4. CASE t = "keys" /\ (PressKey \/ PressQ \/ ClampBall \/ GetKey)
  <2>0. game_pc["main"] \notin {"place", "create"} BY <1>4 DEF PressKey, PressQ, ClampBall, GetKey
  <2>1. CASE PressKey
    <3>1. ball_pos \in Borders BY <2>0, <2>1 DEF PressKey
    <3>2. ball_pos' \in Screen BY <2>1, <3>1 DEF PressKey, Keys, Borders, Screen
    <3> QED BY <2>0, <2>1, <3>2 DEF PressKey
  <2>2. CASE PressQ BY <1>0, <2>0, <2>2 DEF PressQ
  <2>3. CASE ClampBall BY <1>0, <2>0, <2>3, ClampInside DEF ClampBall
  <2>4. CASE GetKey BY <2>0, <2>4 DEF GetKey
  <2> QED BY <1>4, <2>1, <2>2, <2>3, <2>4
<1>5. CASE t = "x" /\ RandomStep
  <2>1. x_pos' \in Borders
    <3>1. PICK dx \in -1 .. 1, dy \in -1 .. 1 : x_pos' = Clamp(<<x_pos[1] + dx, x_pos[2] + dy>>)
      BY <1>5 DEF RandomStep
    <3> QED BY <1>0, <3>1, ClampInside
  <2>2. game_pc["main"] \notin {"place", "create"} BY <1>5 DEF RandomStep
  <2> QED BY <1>0, <1>5, <2>1, <2>2 DEF RandomStep
<1>6. CASE t = "collision" /\ (Collide \/ Miss) BY <1>6 DEF Collide, Miss
<1>7. CASE t = "main" /\ (Place \/ CreateGameThreads \/ Draw \/ ShowResult \/ JoinThreads)
  <2>1. CASE Place
    <3>1. {ball_pos', x_pos'} \subseteq Borders BY <2>1 DEF Place, Borders
    <3> QED BY <1>0, <2>1, <3>1 DEF Place
  <2>2. CASE CreateGameThreads BY <2>2 DEF CreateGameThreads
  <2>3. CASE Draw BY <2>3 DEF Draw
  <2>4. CASE ShowResult BY <2>4 DEF ShowResult
  <2>5. CASE JoinThreads BY <2>5 DEF JoinThreads
  <2> QED BY <1>7, <2>1, <2>2, <2>3, <2>4, <2>5
<1> QED BY <1>1, <1>2, <1>3, <1>4, <1>5, <1>6, <1>7 DEF ThreadStep

\* For a screen of any size (a border needs five columns to have the start
\* inside): whoever takes the mutex finds the ball and the X inside the border.
THEOREM InsideTheBorder == GameSpec => []InsideBorders
<1>1. CASE max_cols >= 5
  <2>1. GameInit => Guarded /\ OnScreen
    <3> SUFFICES ASSUME GameInit PROVE OnScreen BY GuardedInit
    <3>1. game_pc["main"] = "place" BY DEF GameInit, GameThreads
    <3>2. ball_pos \in Screen /\ x_pos \in Screen BY GameAssumption DEF GameInit, Screen
    <3> QED BY <3>1, <3>2 DEF OnScreen
  <2>2. Guarded /\ OnScreen /\ [gameSteps]_<<gameVars, courseVars>> => (Guarded /\ OnScreen)'
    <3> SUFFICES ASSUME Guarded, OnScreen, [gameSteps]_<<gameVars, courseVars>> PROVE (Guarded /\ OnScreen)'
      OBVIOUS
    <3>1. CASE gameSteps BY <1>1, <3>1, GuardedStep, OnScreenStep DEF gameSteps
    <3>2. CASE UNCHANGED gameVars BY <3>2 DEF gameVars, Guarded, OnScreen
    <3> QED BY <3>1, <3>2
  <2>3. Guarded /\ OnScreen => InsideBorders
    BY DEF Guarded, OnScreen, InsideBorders, Holding, GameThreads
  <2> QED BY <2>1, <2>2, <2>3, PTL DEF GameSpec, gameSteps
<1>2. CASE ~(max_cols >= 5)
  <2>1. InsideBorders BY <1>2 DEF InsideBorders
  <2> QED BY <2>1, PTL
<1> QED BY <1>1, <1>2

-----------------------------------------------------------------------------
(* The game: the end *)

\* running is cleared by q, or by the collision thread when won is set; and
\* main() comes to the result by seeing running cleared.
Decided ==
    /\ game_pc["collision"] = "stop" => won
    /\ ~running => quit \/ won
    /\ game_pc["main"] \in {"result", "join", "exit"} => ~running
    /\ shown = "Bye!" => quit

LEMMA DecidedStep == ASSUME Guarded, Decided, GameNext PROVE Decided'
<1> PICK t \in GameThreads : ThreadStep(t) BY DEF GameNext
<1> USE DEF Guarded, Decided, GamePlaces, GameThreads, Thread
<1>1. CASE TestRunningFlag(t) BY <1>1 DEF TestRunningFlag
<1>2. CASE LockPositions(t) BY <1>2 DEF LockPositions
<1>3. CASE UnlockPositions(t) BY <1>3 DEF UnlockPositions
<1>4. CASE t = "keys" /\ (PressKey \/ PressQ \/ ClampBall \/ GetKey)
  <2>1. CASE PressKey BY <2>1 DEF PressKey
  <2>2. CASE PressQ
    <3>1. quit' /\ won' = won /\ shown' = shown BY <2>2 DEF PressQ
    <3>2. \A s \in GameThreads \ {"keys"} : game_pc'[s] = game_pc[s] BY <2>2 DEF PressQ
    <3>3. ~running' BY <2>2 DEF PressQ
    <3> QED BY <3>1, <3>2, <3>3
  <2>3. CASE ClampBall BY <2>3 DEF ClampBall
  <2>4. CASE GetKey BY <2>4 DEF GetKey
  <2> QED BY <1>4, <2>1, <2>2, <2>3, <2>4
<1>5. CASE t = "x" /\ RandomStep BY <1>5 DEF RandomStep
<1>6. CASE t = "collision" /\ (Collide \/ Miss)
  <2>1. CASE Collide
    <3>1. UNCHANGED <<quit, shown>> /\ game_pc'["main"] = game_pc["main"] BY <2>1 DEF Collide
    <3>2. won' BY <2>1 DEF Collide
    <3>3. running' = running \/ ~running' BY <2>1 DEF Collide
    <3> QED BY <3>1, <3>2, <3>3
  <2>2. CASE Miss BY <2>2 DEF Miss
  <2> QED BY <1>6, <2>1, <2>2
<1>7. CASE t = "main" /\ (Place \/ CreateGameThreads \/ Draw \/ ShowResult \/ JoinThreads)
  <2>1. CASE Place BY <2>1 DEF Place
  <2>2. CASE CreateGameThreads BY <2>2 DEF CreateGameThreads
  <2>3. CASE Draw BY <2>3 DEF Draw
  <2>4. CASE ShowResult BY <2>4 DEF ShowResult
  <2>5. CASE JoinThreads BY <2>5 DEF JoinThreads
  <2> QED BY <1>7, <2>1, <2>2, <2>3, <2>4, <2>5
<1> QED BY <1>1, <1>2, <1>3, <1>4, <1>5, <1>6, <1>7 DEF ThreadStep

\* On any screen: "Bye!" only for those who gave up.
THEOREM ByeWhenGivenUp == GameSpec => []ByeOnlyAfterQuit
<1>1. GameInit => Guarded /\ Decided
  BY GuardedInit DEF GameInit, Decided, GameThreads
<1>2. Guarded /\ Decided /\ [gameSteps]_<<gameVars, courseVars>> => (Guarded /\ Decided)'
  <2> SUFFICES ASSUME Guarded, Decided, [gameSteps]_<<gameVars, courseVars>> PROVE (Guarded /\ Decided)'
    OBVIOUS
  <2>1. CASE gameSteps BY <2>1, GuardedStep, DecidedStep DEF gameSteps
  <2>2. CASE UNCHANGED gameVars BY <2>2 DEF gameVars, Guarded, Decided
  <2> QED BY <2>1, <2>2
<1>3. Decided => ByeOnlyAfterQuit BY DEF Decided, ByeOnlyAfterQuit
<1> QED BY <1>1, <1>2, <1>3, PTL DEF GameSpec, gameSteps

-----------------------------------------------------------------------------
(* The race *)

Exited == {h \in Horses : horse_pc[h] = "exit"}

\* Whatever the pace: the index counts horses that are through, though perhaps
\* not all of them, and so does what a horse has loaded.
Counting ==
    /\ RaceTypeOK
    /\ finish_count <= Cardinality(Exited)
    /\ \A h \in Horses : horse_pc[h] \in {"store", "count"} => place[h] <= Cardinality(Exited)
    /\ ended => Exited = Horses

\* At a calm pace one horse finishes at a time, none of the others is missed, and
\* those who are through are in the list, the one that has just stored itself at
\* its end.
OneByOne ==
    Calm =>
        /\ \A g, h \in Horses : horse_pc[g] \in Finishing /\ horse_pc[h] \in Finishing => g = h
        /\ finish_count = Cardinality(Exited)
        /\ \A h \in Horses :
              /\ horse_pc[h] \in {"store", "count"} => place[h] = finish_count
              /\ horse_pc[h] \in {"reload", "count"} => finish_order[finish_count] = h
              /\ horse_pc[h] = "exit" => \E i \in 0 .. finish_count - 1 : finish_order[i] = h

raceSteps == RaceNext /\ UNCHANGED courseVars

LEMMA HorsesFinite == IsFiniteSet(Horses) /\ Cardinality(Horses) = NUM_HORSES
BY RaceAssumption, FS_Interval DEF Horses

LEMMA ExitedFinite ==
    /\ IsFiniteSet(Exited) /\ Cardinality(Exited) \in 0 .. NUM_HORSES
    /\ Cardinality(Exited) = NUM_HORSES => Exited = Horses
    /\ Exited # Horses => Cardinality(Exited) < NUM_HORSES
<1>1. Exited \subseteq Horses BY DEF Exited
<1> HIDE DEF Exited
<1> QED BY <1>1, HorsesFinite, FS_Subset, FS_CardinalityType, RaceAssumption

\* A horse is through when it has counted, and not before.
LEMMA ExitedChanges ==
    ASSUME RaceTypeOK, NEW h \in Horses, HorseRun(h)
    PROVE  IF horse_pc[h] = "count"
           THEN Exited' = Exited \cup {h} /\ Cardinality(Exited') = Cardinality(Exited) + 1
           ELSE Exited' = Exited
<1> USE DEF RaceTypeOK, Horse, Finishing
<1>1. CASE CountPlace(h)
  <2>1. Exited' = Exited \cup {h} /\ h \notin Exited BY <1>1 DEF CountPlace, Exited
  <2>2. Cardinality(Exited \cup {h}) = Cardinality(Exited) + 1
    <3> HIDE DEF Exited
    <3> QED BY <2>1, ExitedFinite, FS_AddElement
  <2> QED BY <1>1, <2>1, <2>2 DEF CountPlace
<1>2. CASE \E step \in 0 .. STEP - 1 : Move(h, step) BY <1>2 DEF Move, Exited
<1>3. CASE LoadPlace(h) \/ StorePlace(h) \/ ReloadPlace(h)
  BY <1>3 DEF LoadPlace, StorePlace, ReloadPlace, Exited
<1> QED BY <1>1, <1>2, <1>3 DEF HorseRun

LEMMA RaceTypes == ASSUME RaceTypeOK, RaceNext PROVE RaceTypeOK'
<1> USE RaceAssumption DEF RaceTypeOK, Finishing, Horse
<1>1. CASE Results BY <1>1 DEF Results
<1>2. ASSUME NEW h \in Horses, HorseRun(h) PROVE RaceTypeOK'
  <2>1. ASSUME NEW step \in 0 .. STEP - 1, Move(h, step) PROVE RaceTypeOK'
    <3>1. track[h] + step \in Nat
      <4>1. track[h] \in Nat OBVIOUS
      <4>2. step \in Nat OBVIOUS
      <4> QED BY <4>1, <4>2
    <3>2. track' \in [Horses -> 0 .. TRACK_LENGTH] BY <2>1, <3>1 DEF Move
    <3>3. horse_pc' \in [Horses -> {"run", "exit"} \cup Finishing] BY <2>1 DEF Move
    <3> QED BY <1>2, <2>1, <3>2, <3>3 DEF Move, HorseRun
  <2>2. CASE LoadPlace(h) BY <1>2, <2>2 DEF LoadPlace, HorseRun
  <2>3. CASE StorePlace(h) BY <1>2, <2>3 DEF StorePlace, HorseRun
  <2>4. CASE ReloadPlace(h) BY <1>2, <2>4 DEF ReloadPlace, HorseRun
  <2>5. CASE CountPlace(h) BY <1>2, <2>5 DEF CountPlace, HorseRun
  <2> QED BY <1>2, <2>1, <2>2, <2>3, <2>4, <2>5 DEF HorseRun
<1> QED BY <1>1, <1>2 DEF RaceNext

LEMMA CountingStep == ASSUME Counting, RaceNext PROVE Counting'
<1>1. RaceTypeOK' BY RaceTypes DEF Counting
<1>2. CASE Results BY <1>1, <1>2 DEF Results, Counting, Exited
<1>3. ASSUME NEW h \in Horses, HorseRun(h) PROVE Counting'
  <2> USE DEF Counting
  <2>1. Cardinality(Exited) \in Nat /\ Cardinality(Exited') \in Nat /\ Cardinality(Exited') >= Cardinality(Exited)
    BY <1>3, ExitedChanges, ExitedFinite
  <2>2. horse_pc[h] # "exit" /\ Exited # Horses
    BY <1>3 DEF HorseRun, Move, LoadPlace, StorePlace, ReloadPlace, CountPlace, Horse, Exited
  <2>3. ~ended' BY <1>3, <2>2 DEF HorseRun, RaceTypeOK
  <2>4. finish_count' <= Cardinality(Exited')
    <3>1. CASE CountPlace(h) BY <1>3, <2>1, <3>1, ExitedChanges DEF CountPlace, Horse, RaceTypeOK
    <3>2. CASE UNCHANGED finish_count BY <2>1, <3>2 DEF RaceTypeOK
    <3> QED BY <1>3, <3>1, <3>2 DEF HorseRun, Move, LoadPlace, StorePlace, ReloadPlace
  <2>5. ASSUME NEW g \in Horses, horse_pc'[g] \in {"store", "count"}
        PROVE  place'[g] <= Cardinality(Exited')
    <3>1. CASE UNCHANGED <<place, horse_pc>> BY <2>1, <2>5, <3>1 DEF RaceTypeOK
    <3>2. CASE \E step \in 0 .. STEP - 1 : Move(h, step)
      BY <2>1, <2>5, <3>2 DEF Move, Horse, RaceTypeOK, Finishing
    <3>3. CASE LoadPlace(h) \/ ReloadPlace(h)
      BY <2>1, <2>5, <3>3 DEF LoadPlace, ReloadPlace, Horse, RaceTypeOK, Finishing
    <3>4. CASE StorePlace(h) \/ CountPlace(h)
      BY <2>1, <2>5, <3>4 DEF StorePlace, CountPlace, Horse, RaceTypeOK, Finishing
    <3> QED BY <1>3, <3>2, <3>3, <3>4 DEF HorseRun
  <2> QED BY <1>1, <2>3, <2>4, <2>5
<1> QED BY <1>2, <1>3 DEF RaceNext

LEMMA OneByOneStep == ASSUME Counting, OneByOne, raceSteps PROVE OneByOne'
<1> SUFFICES ASSUME Calm, Calm' PROVE OneByOne' BY DEF OneByOne, raceSteps, courseVars, Calm
<1> USE DEF OneByOne
<1>1. CASE Results BY <1>1 DEF Results, Exited
<1>2. ASSUME NEW h \in Horses, HorseRun(h) PROVE OneByOne'
  <2> USE DEF Counting, RaceTypeOK, Horse, Finishing
  <2>0. Cardinality(Exited) \in Nat BY ExitedFinite
  <2>1. CASE \E step \in 0 .. STEP - 1 : Move(h, step)
    <3>1. UNCHANGED <<finish_order, finish_count, place>> /\ Exited' = Exited
      BY <1>2, <2>1, ExitedChanges DEF Move
    <3>2. \A g \in Horses : horse_pc[g] \notin Finishing BY <2>1 DEF Move
    <3>3. \A g \in Horses : g # h => horse_pc'[g] = horse_pc[g] BY <2>1 DEF Move
    <3>4. horse_pc'[h] \in {"run", "load"} BY <2>1 DEF Move
    <3> QED BY <3>1, <3>2, <3>3, <3>4
  <2>2. CASE LoadPlace(h)
    <3>1. Exited' = Exited BY <1>2, <2>2, ExitedChanges DEF LoadPlace
    <3> QED BY <2>2, <3>1 DEF LoadPlace
  <2>3. CASE StorePlace(h)
    <3>1. Exited' = Exited BY <1>2, <2>3, ExitedChanges DEF StorePlace
    <3>2. place[h] = finish_count /\ finish_count < NUM_HORSES
      BY <2>3, ExitedFinite DEF StorePlace, Exited
    <3>3. finish_order'[finish_count] = h /\ \A i \in 0 .. finish_count - 1 : finish_order'[i] = finish_order[i]
      <4>1. finish_count \in Horses BY <3>2, RaceAssumption DEF Horses
      <4>2. finish_order' = [finish_order EXCEPT ![finish_count] = h] BY <2>3, <3>2 DEF StorePlace
      <4>3. 0 .. finish_count - 1 \subseteq Horses BY <3>2, RaceAssumption DEF Horses
      <4> QED BY <4>1, <4>2, <4>3
    <3>4. \A g \in Horses : g # h => horse_pc[g] \notin Finishing BY <2>3 DEF StorePlace
    <3>5. UNCHANGED <<finish_count, place>> /\ horse_pc' = [horse_pc EXCEPT ![h] = "reload"]
      BY <2>3 DEF StorePlace
    <3> QED BY <3>1, <3>3, <3>4, <3>5
  <2>4. CASE ReloadPlace(h)
    <3>1. Exited' = Exited BY <1>2, <2>4, ExitedChanges DEF ReloadPlace
    <3> QED BY <2>4, <3>1 DEF ReloadPlace
  <2>5. CASE CountPlace(h)
    <3>1. finish_count' = finish_count + 1 BY <2>5 DEF CountPlace
    <3>2. Cardinality(Exited') = Cardinality(Exited) + 1 BY <1>2, <2>5, ExitedChanges DEF CountPlace
    <3>3. UNCHANGED <<finish_order, place>> /\ horse_pc' = [horse_pc EXCEPT ![h] = "exit"]
      BY <2>5 DEF CountPlace
    <3>4. finish_order[finish_count] = h /\ finish_count \in 0 .. finish_count' - 1
      BY <2>5, <3>1 DEF CountPlace
    <3>5. \A g \in Horses : g # h => horse_pc[g] \notin Finishing BY <2>5 DEF CountPlace
    <3>6. \A g \in Horses : horse_pc'[g] = "exit" => \E i \in 0 .. finish_count' - 1 : finish_order'[i] = g
      <4>1. 0 .. finish_count - 1 \subseteq 0 .. finish_count' - 1 BY <3>1
      <4> QED BY <3>3, <3>4, <4>1
    <3>7. \A g \in Horses : horse_pc'[g] \notin Finishing BY <3>3, <3>5
    <3>8. finish_count' = Cardinality(Exited') BY <3>1, <3>2, <2>0
    <3> QED BY <3>6, <3>7, <3>8
  <2> QED BY <1>2, <2>1, <2>2, <2>3, <2>4, <2>5 DEF HorseRun
<1> QED BY <1>1, <1>2 DEF raceSteps, RaceNext

\* For any number of horses: no horse is stored beyond the end of finish_order,
\* although nothing protects the index; and if they finish one by one the
\* results have them all.
THEOREM PlacesFit == RaceSpec => [](PlacesInBounds /\ RaceTypeOK)
<1>1. RaceInit => Counting /\ OneByOne
  <2> SUFFICES ASSUME RaceInit PROVE Counting /\ OneByOne OBVIOUS
  <2>1. Exited = {} BY DEF RaceInit, Exited
  <2>2. Cardinality(Exited) = 0 BY <2>1, FS_EmptySet
  <2>3. RaceTypeOK
    <3>1. 0 \in Horses BY RaceAssumption DEF Horses
    <3>2. 0 \in 0 .. TRACK_LENGTH BY RaceAssumption
    <3>3. track \in [Horses -> 0 .. TRACK_LENGTH] /\ finish_order \in [Horses -> Horses]
      BY <3>1, <3>2 DEF RaceInit
    <3>4. /\ horse_pc \in [Horses -> {"run", "exit"} \cup Finishing] /\ place \in [Horses -> Nat]
          /\ finish_count \in Nat /\ ended \in BOOLEAN
      BY DEF RaceInit
    <3> QED BY <3>3, <3>4 DEF RaceTypeOK
  <2> QED BY <2>2, <2>3 DEF RaceInit, Counting, OneByOne, Finishing
<1>2. Counting /\ OneByOne /\ [raceSteps]_<<raceVars, courseVars>> => (Counting /\ OneByOne)'
  <2> SUFFICES ASSUME Counting, OneByOne, [raceSteps]_<<raceVars, courseVars>> PROVE (Counting /\ OneByOne)'
    OBVIOUS
  <2>1. CASE raceSteps BY <2>1, CountingStep, OneByOneStep DEF raceSteps
  <2>2. CASE UNCHANGED <<raceVars, courseVars>>
    BY <2>2 DEF raceVars, courseVars, Counting, OneByOne, RaceTypeOK, Exited, Calm
  <2> QED BY <2>1, <2>2
<1>3. Counting /\ OneByOne => PlacesInBounds /\ RaceTypeOK
  <2> SUFFICES ASSUME Counting, OneByOne PROVE PlacesInBounds BY DEF Counting
  <2>1. ASSUME NEW h \in Horses, horse_pc[h] = "store" PROVE place[h] \in Horses
    <3>1. Cardinality(Exited) < NUM_HORSES BY <2>1, ExitedFinite DEF Exited
    <3> QED BY <2>1, <3>1, ExitedFinite, RaceAssumption DEF Counting, RaceTypeOK, Horses
  <2>2. ASSUME Calm, ended PROVE {finish_order[i] : i \in Horses} = Horses
    <3>1. finish_count = NUM_HORSES BY <2>2, HorsesFinite DEF Counting, OneByOne
    <3>2. 0 .. finish_count - 1 = Horses BY <3>1 DEF Horses
    <3>3. \A h \in Horses : \E i \in Horses : finish_order[i] = h
      BY <2>2, <3>2 DEF Counting, OneByOne, Exited
    <3> QED BY <3>3 DEF Counting, RaceTypeOK
  <2> QED BY <2>1, <2>2 DEF PlacesInBounds
<1> QED BY <1>1, <1>2, <1>3, PTL DEF RaceSpec, raceSteps

-----------------------------------------------------------------------------
(* The decoder: the handlers of each thread *)

DecoderPlaces == {"signal", "timer", "create", "join", "read", "lock", "count", "unlock", "exit", "unborn"}

DecoderTyped ==
    /\ progress \in [Decoders -> Nat] /\ written \in [Decoders -> Nat]
    /\ progress_mutex \in DecoderThreads \cup {NoThread}
    /\ pixels_in_file \in Nat
    /\ decoder_pc \in [DecoderThreads -> DecoderPlaces]
    /\ tick_pc \in [DecoderThreads -> Seq({"lock", "report"})]
    /\ next_line_of_report \in 0 .. NUM_THREADS
    /\ tick_report \in [Decoders -> Nat]

\* A tick of t that has the mutex, the i-th from below.
Reports(t, i) == i \in 1 .. Len(tick_pc[t]) /\ tick_pc[t][i] = "report"

\* What a step of the handler on top makes of the others: nothing.
LEMMA TopReplaced ==
    ASSUME NEW S, NEW s \in Seq(S), s # <<>>, NEW x \in S
    PROVE  /\ Front(s) \o <<x>> \in Seq(S) /\ Len(Front(s) \o <<x>>) = Len(s)
           /\ \A i \in 1 .. Len(s) - 1 : (Front(s) \o <<x>>)[i] = s[i]
           /\ (Front(s) \o <<x>>)[Len(s)] = x
           /\ Last(s) = s[Len(s)] /\ Len(s) \in Nat \ {0}
BY DEF Front, Last

LEMMA TopRemoved ==
    ASSUME NEW S, NEW s \in Seq(S), s # <<>>
    PROVE  /\ Front(s) \o <<>> \in Seq(S) /\ Len(Front(s) \o <<>>) = Len(s) - 1
           /\ \A i \in 1 .. Len(s) - 1 : (Front(s) \o <<>>)[i] = s[i]
           /\ Last(s) = s[Len(s)] /\ Len(s) \in Nat \ {0}
<1>0. Len(s) \in Nat \ {0} OBVIOUS
<1>1. /\ Front(s) \in Seq(S) /\ Len(Front(s)) = Len(s) - 1
      /\ \A i \in 1 .. Len(s) - 1 : Front(s)[i] = s[i]
  <2>1. Front(s) = SubSeq(s, 1, Len(s) - 1) BY DEF Front
  <2>2. SubSeq(s, 1, Len(s) - 1) \in Seq(S) BY <1>0
  <2>3. Len(SubSeq(s, 1, Len(s) - 1)) = Len(s) - 1
    <3>1. CASE Len(s) = 1 BY <3>1
    <3>2. CASE Len(s) > 1 BY <3>2
    <3> QED BY <1>0, <3>1, <3>2
  <2>4. \A i \in 1 .. Len(s) - 1 : SubSeq(s, 1, Len(s) - 1)[i] = s[i] BY <1>0
  <2> QED BY <2>1, <2>2, <2>3, <2>4
<1>2. Front(s) \o <<>> \in Seq(S) /\ Len(Front(s) \o <<>>) = Len(Front(s)) BY <1>1
<1>3. \A i \in 1 .. Len(s) - 1 : (Front(s) \o <<>>)[i] = Front(s)[i] BY <1>1
<1> QED BY <1>0, <1>1, <1>2, <1>3 DEF Last

\* Other threads' handlers are not touched.
LEMMA FramesBut ==
    ASSUME DecoderTyped, NEW t \in DecoderThreads, NEW w \in Seq({"lock", "report"}),
           tick_pc' = [tick_pc EXCEPT ![t] = w]
    PROVE  /\ tick_pc' \in [DecoderThreads -> Seq({"lock", "report"})]
           /\ \A i \in Nat : Reports(t, i)' <=> (i \in 1 .. Len(w) /\ w[i] = "report")
           /\ \A u \in DecoderThreads \ {t}, i \in Nat : Reports(u, i)' <=> Reports(u, i)
<1>1. tick_pc' \in [DecoderThreads -> Seq({"lock", "report"})] BY DEF DecoderTyped
<1>2. tick_pc'[t] = w /\ \A u \in DecoderThreads \ {t} : tick_pc'[u] = tick_pc[u] BY DEF DecoderTyped
<1> QED BY <1>1, <1>2 DEF Reports

LEMMA TickLockFrames ==
    ASSUME DecoderTyped, NEW t \in DecoderThreads, TickLock(t)
    PROVE  /\ tick_pc' \in [DecoderThreads -> Seq({"lock", "report"})]
           /\ \A u \in DecoderThreads, i \in Nat :
                 Reports(u, i)' => Reports(u, i) \/ (u = t /\ i = Len(tick_pc[t]))
<1> DEFINE s == tick_pc[t]
           w == Front(s) \o <<"report">>
<1>1. s \in Seq({"lock", "report"}) /\ s # <<>> BY DEF DecoderTyped, TickLock, Ticking
<1>2. tick_pc' = [tick_pc EXCEPT ![t] = w] BY DEF TickLock, Ticking
<1> HIDE DEF s
<1>3. /\ w \in Seq({"lock", "report"}) /\ Len(w) = Len(s)
      /\ \A i \in 1 .. Len(s) - 1 : w[i] = s[i]
      /\ Len(s) \in Nat \ {0}
  BY <1>1, TopReplaced
<1>4. \A i \in Nat : Reports(t, i) <=> (i \in 1 .. Len(s) /\ s[i] = "report") BY DEF Reports, s
<1> HIDE DEF w
<1>5. /\ tick_pc' \in [DecoderThreads -> Seq({"lock", "report"})]
      /\ \A i \in Nat : Reports(t, i)' <=> (i \in 1 .. Len(w) /\ w[i] = "report")
      /\ \A u \in DecoderThreads \ {t}, i \in Nat : Reports(u, i)' <=> Reports(u, i)
  BY <1>2, <1>3, FramesBut
<1>6. \A i \in Nat : Reports(t, i)' => Reports(t, i) \/ i = Len(s) BY <1>3, <1>4, <1>5
<1> QED BY <1>3, <1>4, <1>5, <1>6 DEF s

LEMMA ReportLineFrames ==
    ASSUME DecoderTyped, NEW t \in DecoderThreads, ReportLine(t)
    PROVE  /\ tick_pc' \in [DecoderThreads -> Seq({"lock", "report"})]
           /\ \A u \in DecoderThreads, i \in Nat : Reports(u, i)' => Reports(u, i)
           /\ Len(tick_pc[t]) \in Nat /\ Reports(t, Len(tick_pc[t]))
<1> DEFINE s == tick_pc[t]
           w == Front(s) \o <<"report">>
<1>1. s \in Seq({"lock", "report"}) /\ s # <<>> /\ Last(s) = "report" BY DEF DecoderTyped, ReportLine, Ticking
<1>2. tick_pc' = [tick_pc EXCEPT ![t] = w] BY DEF ReportLine, Ticking
<1> HIDE DEF s
<1>3. /\ w \in Seq({"lock", "report"}) /\ Len(w) = Len(s)
      /\ \A i \in 1 .. Len(s) - 1 : w[i] = s[i]
      /\ Last(s) = s[Len(s)] /\ Len(s) \in Nat \ {0}
  BY <1>1, TopReplaced
<1>4. \A i \in Nat : Reports(t, i) <=> (i \in 1 .. Len(s) /\ s[i] = "report") BY DEF Reports, s
<1> HIDE DEF w
<1>5. /\ tick_pc' \in [DecoderThreads -> Seq({"lock", "report"})]
      /\ \A i \in Nat : Reports(t, i)' <=> (i \in 1 .. Len(w) /\ w[i] = "report")
      /\ \A u \in DecoderThreads \ {t}, i \in Nat : Reports(u, i)' <=> Reports(u, i)
  BY <1>2, <1>3, FramesBut
<1>6. Reports(t, Len(s)) BY <1>1, <1>3, <1>4
<1>7. \A i \in Nat : Reports(t, i)' => Reports(t, i) BY <1>1, <1>3, <1>4, <1>5
<1> QED BY <1>3, <1>5, <1>6, <1>7 DEF s

LEMMA TickUnlockFrames ==
    ASSUME DecoderTyped, NEW t \in DecoderThreads, TickUnlock(t)
    PROVE  /\ tick_pc' \in [DecoderThreads -> Seq({"lock", "report"})]
           /\ \A u \in DecoderThreads, i \in Nat :
                 Reports(u, i)' => Reports(u, i) /\ (u # t \/ i # Len(tick_pc[t]))
           /\ Len(tick_pc[t]) \in Nat /\ Reports(t, Len(tick_pc[t]))
<1> DEFINE s == tick_pc[t]
           w == Front(s) \o <<>>
<1>1. s \in Seq({"lock", "report"}) /\ s # <<>> /\ Last(s) = "report" BY DEF DecoderTyped, TickUnlock, Ticking
<1>2. tick_pc' = [tick_pc EXCEPT ![t] = w] BY DEF TickUnlock, Ticking
<1> HIDE DEF s
<1>3. /\ w \in Seq({"lock", "report"}) /\ Len(w) = Len(s) - 1
      /\ \A i \in 1 .. Len(s) - 1 : w[i] = s[i]
      /\ Last(s) = s[Len(s)] /\ Len(s) \in Nat \ {0}
  BY <1>1, TopRemoved
<1>4. \A i \in Nat : Reports(t, i) <=> (i \in 1 .. Len(s) /\ s[i] = "report") BY DEF Reports, s
<1> HIDE DEF w
<1>5. /\ tick_pc' \in [DecoderThreads -> Seq({"lock", "report"})]
      /\ \A i \in Nat : Reports(t, i)' <=> (i \in 1 .. Len(w) /\ w[i] = "report")
      /\ \A u \in DecoderThreads \ {t}, i \in Nat : Reports(u, i)' <=> Reports(u, i)
  BY <1>2, <1>3, FramesBut
<1>6. Reports(t, Len(s)) BY <1>1, <1>3, <1>4
<1>7. \A i \in Nat : Reports(t, i)' => Reports(t, i) /\ i # Len(s) BY <1>3, <1>4, <1>5
<1> QED BY <1>3, <1>5, <1>6, <1>7 DEF s

LEMMA DeliverFrames ==
    ASSUME DecoderTyped, NEW t \in DecoderThreads, Deliver(t)
    PROVE  /\ tick_pc' \in [DecoderThreads -> Seq({"lock", "report"})]
           /\ \A u \in DecoderThreads, i \in Nat : Reports(u, i)' => Reports(u, i)
<1> DEFINE s == tick_pc[t]
           w == Append(s, "lock")
<1>1. s \in Seq({"lock", "report"}) BY DEF DecoderTyped
<1>2. tick_pc' = [tick_pc EXCEPT ![t] = w] BY DEF Deliver
<1>3. /\ w \in Seq({"lock", "report"}) /\ Len(w) = Len(s) + 1
      /\ \A i \in 1 .. Len(s) : w[i] = s[i]
      /\ w[Len(s) + 1] = "lock" /\ Len(s) \in Nat
  BY <1>1
<1>4. \A i \in Nat : Reports(t, i) <=> (i \in 1 .. Len(s) /\ s[i] = "report") BY DEF Reports
<1> HIDE DEF s, w
<1>5. /\ tick_pc' \in [DecoderThreads -> Seq({"lock", "report"})]
      /\ \A i \in Nat : Reports(t, i)' <=> (i \in 1 .. Len(w) /\ w[i] = "report")
      /\ \A u \in DecoderThreads \ {t}, i \in Nat : Reports(u, i)' <=> Reports(u, i)
  BY <1>2, <1>3, FramesBut
<1>6. \A i \in Nat : Reports(t, i)' => Reports(t, i) BY <1>3, <1>4, <1>5
<1> QED BY <1>3, <1>4, <1>5, <1>6 DEF s

-----------------------------------------------------------------------------
(* The decoder: progress_mutex *)

\* A thread is between lock and unlock, in Decode or in one of its ticks but not
\* in both, only while progress_mutex names it.
Excluded ==
    /\ \A d \in Decoders : decoder_pc[d] \in {"count", "unlock"}
          => progress_mutex = d /\ \A i \in Nat : ~Reports(d, i)
    /\ \A t \in DecoderThreads, i, j \in Nat :
          Reports(t, i) => progress_mutex = t /\ (Reports(t, j) => i = j)

\* What a tick has read is still so.
Snapshot ==
    \A t \in DecoderThreads, i \in Nat : Reports(t, i) =>
        \A d \in 0 .. next_line_of_report - 1 : tick_report[d] = progress[d]

TickInv == DecoderTyped /\ Excluded /\ Snapshot

decoderSteps == DecoderNext /\ UNCHANGED courseVars

LEMMA ThreadNumbers ==
    /\ MainThread \in DecoderThreads /\ Decoders \subseteq DecoderThreads
    /\ MainThread \notin Decoders /\ NoThread \notin DecoderThreads
BY DEF MainThread, NoThread, DecoderThreads, Decoders

LEMMA TickInvInit == ASSUME DecoderInit PROVE TickInv
<1>1. DecoderTyped
  BY DecoderAssumption, ThreadNumbers DEF DecoderInit, DecoderTyped, DecoderPlaces, MainThread
<1>2. \A t \in DecoderThreads, i \in Nat : ~Reports(t, i)
  BY DEF DecoderInit, Reports
<1>3. \A d \in Decoders : decoder_pc[d] = "unborn" BY ThreadNumbers DEF DecoderInit
<1> QED BY <1>1, <1>2, <1>3 DEF TickInv, Excluded, Snapshot

LEMMA TryTestStep == ASSUME TickInv, NEW t \in DecoderThreads, TryTest(t) PROVE TickInv'
<1> USE ThreadNumbers, DecoderAssumption
<1>0. UNCHANGED <<progress, written, pixels_in_file, decoder_pc, timer>> BY DEF TryTest
<1>1. CASE TickLock(t)
  <2>1. progress_mutex = NoThread /\ progress_mutex' = t /\ next_line_of_report' = 0 /\ UNCHANGED tick_report
    BY <1>1 DEF TickLock
  <2>2. /\ \A d \in Decoders : decoder_pc[d] \notin {"count", "unlock"}
        /\ \A u \in DecoderThreads, i \in Nat : ~Reports(u, i)
    BY <2>1 DEF TickInv, Excluded
  <2>3. \A u \in DecoderThreads, i \in Nat : Reports(u, i)' => u = t /\ i = Len(tick_pc[t])
    BY <1>1, <2>2, TickLockFrames DEF TickInv
  <2>4. DecoderTyped' BY <1>0, <1>1, <2>1, TickLockFrames DEF TickInv, DecoderTyped
  <2>5. Excluded' BY <1>0, <2>1, <2>2, <2>3 DEF Excluded
  <2>6. Snapshot' BY <2>1 DEF Snapshot
  <2> QED BY <2>4, <2>5, <2>6 DEF TickInv
<1>2. CASE ReportLine(t)
  <2>1. /\ UNCHANGED progress_mutex
        /\ next_line_of_report < NUM_THREADS /\ next_line_of_report' = next_line_of_report + 1
        /\ tick_report' = [tick_report EXCEPT ![next_line_of_report] = progress[next_line_of_report]]
    BY <1>2 DEF ReportLine
  <2>2. \A u \in DecoderThreads, i \in Nat : Reports(u, i)' => Reports(u, i)
    BY <1>2, ReportLineFrames DEF TickInv
  <2>3. next_line_of_report \in Decoders BY <2>1 DEF TickInv, DecoderTyped, Decoders
  <2>4. DecoderTyped'
    <3>1. next_line_of_report' \in 0 .. NUM_THREADS BY <2>1 DEF TickInv, DecoderTyped
    <3>2. tick_report' \in [Decoders -> Nat] BY <2>1, <2>3 DEF TickInv, DecoderTyped
    <3> QED BY <1>0, <1>2, <2>1, <3>1, <3>2, ReportLineFrames DEF TickInv, DecoderTyped
  <2>5. Excluded' BY <1>0, <2>1, <2>2 DEF TickInv, Excluded
  <2>6. \A d \in 0 .. next_line_of_report - 1 : tick_report[d] = progress[d]
    BY <1>2, ReportLineFrames DEF TickInv, Snapshot
  <2>7. \A d \in 0 .. next_line_of_report' - 1 : tick_report'[d] = progress[d]
    <3>1. next_line_of_report \in Nat /\ next_line_of_report' = next_line_of_report + 1
      BY <2>1 DEF TickInv, DecoderTyped
    <3>2. \A d \in 0 .. next_line_of_report' - 1 : d = next_line_of_report \/ d \in 0 .. next_line_of_report - 1
      BY <3>1
    <3>3. \A d \in 0 .. next_line_of_report - 1 : d \in Decoders /\ d # next_line_of_report
      BY <2>3 DEF Decoders
    <3>4. tick_report \in [Decoders -> Nat] BY DEF TickInv, DecoderTyped
    <3> QED BY <2>1, <2>3, <2>6, <3>2, <3>3, <3>4
  <2>8. Snapshot' BY <1>0, <2>7 DEF Snapshot
  <2> QED BY <2>4, <2>5, <2>8 DEF TickInv
<1>3. CASE TickUnlock(t)
  <2>1. progress_mutex' = NoThread /\ UNCHANGED <<next_line_of_report, tick_report>>
    BY <1>3 DEF TickUnlock
  <2>2. progress_mutex = t /\ \A i \in Nat : Reports(t, i) => i = Len(tick_pc[t])
    BY <1>3, TickUnlockFrames DEF TickInv, Excluded
  <2>3. \A u \in DecoderThreads, i \in Nat : ~Reports(u, i)'
    BY <1>3, <2>2, TickUnlockFrames DEF TickInv, Excluded
  <2>4. \A d \in Decoders : decoder_pc[d] \notin {"count", "unlock"}
    BY <1>3, <2>2, TickUnlockFrames DEF TickInv, Excluded
  <2>5. DecoderTyped' BY <1>0, <1>3, <2>1, TickUnlockFrames DEF TickInv, DecoderTyped
  <2> QED BY <1>0, <2>3, <2>4, <2>5 DEF TickInv, Excluded, Snapshot
<1> QED BY <1>1, <1>2, <1>3 DEF TryTest

LEMMA AlarmStep == ASSUME TickInv, Alarm PROVE TickInv'
<1>1. UNCHANGED <<progress, written, pixels_in_file, decoder_pc, progress_mutex, next_line_of_report, tick_report>>
  BY DEF Alarm, TimerExpires, Deliver
<1>2. /\ tick_pc' \in [DecoderThreads -> Seq({"lock", "report"})]
      /\ \A u \in DecoderThreads, i \in Nat : Reports(u, i)' => Reports(u, i)
  <2>1. CASE TimerExpires BY <2>1 DEF TimerExpires, Reports, TickInv, DecoderTyped
  <2>2. ASSUME NEW t \in DecoderThreads, Deliver(t)
        PROVE  /\ tick_pc' \in [DecoderThreads -> Seq({"lock", "report"})]
               /\ \A u \in DecoderThreads, i \in Nat : Reports(u, i)' => Reports(u, i)
    BY <2>2, DeliverFrames DEF TickInv
  <2> QED BY <2>1, <2>2 DEF Alarm
<1> QED BY <1>1, <1>2, ThreadNumbers DEF TickInv, DecoderTyped, Excluded, Snapshot

\* main(), except where it ends the process with all its threads.
LEMMA MainStepAlone ==
    ASSUME TickInv, DecoderMain, UNCHANGED <<progress_mutex, tickVars>> PROVE TickInv'
<1>1. UNCHANGED <<progress, progress_mutex, written, pixels_in_file, tickVars>> BY DEF DecoderMain
<1>2. \A t \in DecoderThreads, i \in Nat : Reports(t, i)' <=> Reports(t, i)
  BY <1>1 DEF Reports, tickVars
<1>3. /\ decoder_pc' \in [DecoderThreads -> DecoderPlaces]
      /\ \A d \in Decoders : decoder_pc'[d] \in {"count", "unlock"} => decoder_pc[d] \in {"count", "unlock"}
  <2> USE ThreadNumbers DEF Decoding, TickInv, DecoderTyped, DecoderPlaces
  <2>1. CASE InstallTryTest BY <2>1 DEF InstallTryTest
  <2>2. CASE SetTimer BY <2>2 DEF SetTimer
  <2>3. CASE CreateDecoder BY <2>3 DEF CreateDecoder
  <2>4. CASE CreateFails BY <2>4 DEF CreateFails
  <2>5. CASE JoinDecoders BY <2>5 DEF JoinDecoders
  <2> QED BY <2>1, <2>2, <2>3, <2>4, <2>5 DEF DecoderMain
<1>4. DecoderTyped' BY <1>1, <1>3 DEF TickInv, DecoderTyped, tickVars
<1>5. Excluded'
  <2>1. UNCHANGED progress_mutex BY <1>1
  <2>2. Excluded BY DEF TickInv
  <2>3. \A d \in Decoders : decoder_pc'[d] \in {"count", "unlock"} => decoder_pc[d] \in {"count", "unlock"} BY <1>3
  <2>4. ASSUME NEW d \in Decoders, decoder_pc'[d] \in {"count", "unlock"}
        PROVE  progress_mutex' = d /\ \A i \in Nat : ~Reports(d, i)'
    BY <1>2, <2>1, <2>2, <2>3, <2>4, ThreadNumbers DEF Excluded
  <2>5. ASSUME NEW t \in DecoderThreads, NEW i \in Nat, NEW j \in Nat, Reports(t, i)'
        PROVE  progress_mutex' = t /\ (Reports(t, j)' => i = j)
    BY <1>2, <2>1, <2>2, <2>5 DEF Excluded
  <2> QED BY <2>4, <2>5 DEF Excluded
<1>6. Snapshot' BY <1>1, <1>2 DEF TickInv, Snapshot, tickVars
<1> QED BY <1>4, <1>5, <1>6 DEF TickInv

LEMMA MainStep == ASSUME TickInv, DecoderMain PROVE TickInv'
<1>1. CASE UNCHANGED <<progress_mutex, tickVars>> BY <1>1, MainStepAlone
<1>2. CASE CreateFails /\ ~Python
  <2>1. /\ UNCHANGED <<progress, written, pixels_in_file, next_line_of_report, tick_report>>
        /\ decoder_pc' = [t \in DecoderThreads |-> "exit"] /\ progress_mutex' = NoThread
        /\ tick_pc' = [t \in DecoderThreads |-> <<>>]
    BY <1>2 DEF CreateFails, DecoderMain
  <2>2. \A t \in DecoderThreads, i \in Nat : ~Reports(t, i)' BY <2>1 DEF Reports
  <2>3. \A d \in Decoders : decoder_pc'[d] = "exit" BY <2>1, ThreadNumbers
  <2>4. DecoderTyped' BY <2>1 DEF TickInv, DecoderTyped, DecoderPlaces
  <2> QED BY <2>2, <2>3, <2>4 DEF TickInv, Excluded, Snapshot
<1>3. UNCHANGED <<progress_mutex, tickVars>> \/ (CreateFails /\ ~Python)
  BY DEF DecoderMain, InstallTryTest, SetTimer, CreateDecoder, CreateFails, JoinDecoders, tickVars
<1> QED BY <1>1, <1>2, <1>3

LEMMA DecodeStep == ASSUME TickInv, NEW d \in Decoders, Decode(d) PROVE TickInv'
<1> USE ThreadNumbers DEF TickInv, DecoderTyped, Decoding, DecoderPlaces
<1>1. UNCHANGED <<pixels_in_file, timer, alarm, tick_pc, next_line_of_report, tick_report>>
  BY DEF Decode, tickVars
<1>2. \A t \in DecoderThreads, i \in Nat : Reports(t, i)' <=> Reports(t, i) BY <1>1 DEF Reports
<1>3. CASE DecodePixel(d) \/ EndOfPixels(d) \/ LeaveEarly(d)
  <2>1. DecoderTyped'
    <3>1. written[d] + 1 \in Nat OBVIOUS
    <3>2. written' \in [Decoders -> Nat] BY <1>3, <3>1 DEF DecodePixel, EndOfPixels, LeaveEarly
    <3>3. decoder_pc' \in [DecoderThreads -> DecoderPlaces] BY <1>3 DEF DecodePixel, EndOfPixels, LeaveEarly
    <3>4. UNCHANGED <<progress, progress_mutex>> BY <1>3 DEF DecodePixel, EndOfPixels, LeaveEarly
    <3> HIDE DEF DecoderPlaces, Decoding
    <3> QED BY <1>1, <3>2, <3>3, <3>4
  <2>2. Excluded'
    <3>1. UNCHANGED progress_mutex BY <1>3 DEF DecodePixel, EndOfPixels, LeaveEarly
    <3>2. \A t \in Decoders : decoder_pc'[t] \in {"count", "unlock"} => decoder_pc[t] \in {"count", "unlock"}
      BY <1>3 DEF DecodePixel, EndOfPixels, LeaveEarly
    <3>3. Excluded OBVIOUS
    <3>4. ASSUME NEW t \in Decoders, decoder_pc'[t] \in {"count", "unlock"}
          PROVE  progress_mutex' = t /\ \A i \in Nat : ~Reports(t, i)'
      BY <1>2, <3>1, <3>2, <3>3, <3>4 DEF Excluded
    <3> HIDE DEF TickInv, DecoderTyped
    <3>5. ASSUME NEW t \in DecoderThreads, NEW i \in Nat, NEW j \in Nat, Reports(t, i)'
          PROVE  progress_mutex' = t /\ (Reports(t, j)' => i = j)
      BY <1>2, <3>1, <3>3, <3>5 DEF Excluded
    <3> QED BY <3>4, <3>5 DEF Excluded
  <2>3. Snapshot'
    <3>1. UNCHANGED <<progress, next_line_of_report, tick_report>>
      BY <1>1, <1>3 DEF DecodePixel, EndOfPixels, LeaveEarly
    <3>2. Snapshot OBVIOUS
    <3> HIDE DEF TickInv, DecoderTyped
    <3> QED BY <1>2, <3>1, <3>2 DEF Snapshot
  <2> QED BY <2>1, <2>2, <2>3
<1>4. CASE LockProgress(d)
  <2>1. DecoderTyped' BY <1>1, <1>4 DEF LockProgress
  <2>2. \A t \in DecoderThreads, i \in Nat : ~Reports(t, i) BY <1>4 DEF LockProgress, Excluded
  <2>3. Excluded' BY <1>2, <1>4, <2>2 DEF Excluded, LockProgress
  <2>4. Snapshot' BY <1>2, <2>2 DEF Snapshot
  <2> QED BY <2>1, <2>3, <2>4
<1>5. CASE CountPixel(d) \/ UnlockProgress(d)
  <2>1. DecoderTyped'
    <3>1. progress[d] + 1 \in Nat OBVIOUS
    <3>2. progress' \in [Decoders -> Nat] BY <1>5, <3>1 DEF CountPixel, UnlockProgress
    <3>3. decoder_pc' \in [DecoderThreads -> DecoderPlaces] BY <1>5 DEF CountPixel, UnlockProgress
    <3>4. progress_mutex' \in DecoderThreads \cup {NoThread} /\ UNCHANGED written
      BY <1>5 DEF CountPixel, UnlockProgress
    <3> HIDE DEF DecoderPlaces, Decoding
    <3> QED BY <1>1, <3>2, <3>3, <3>4
  <2>2. \A t \in DecoderThreads, i \in Nat : ~Reports(t, i)
    BY <1>5 DEF CountPixel, UnlockProgress, Excluded
  <2>3. \A e \in Decoders : e # d => decoder_pc[e] \notin {"count", "unlock"}
    BY <1>5 DEF CountPixel, UnlockProgress, Excluded
  <2>4. Excluded' BY <1>2, <1>5, <2>2, <2>3 DEF Excluded, CountPixel, UnlockProgress
  <2>5. Snapshot' BY <1>2, <2>2 DEF Snapshot
  <2> QED BY <2>1, <2>4, <2>5
<1> QED BY <1>3, <1>4, <1>5 DEF Decode

LEMMA TickInvKept == TickInv /\ [decoderSteps]_<<decoderVars, courseVars>> => TickInv'
<1> SUFFICES ASSUME TickInv, [decoderSteps]_<<decoderVars, courseVars>> PROVE TickInv' OBVIOUS
<1>1. CASE decoderSteps BY <1>1, TryTestStep, AlarmStep, MainStep, DecodeStep DEF decoderSteps, DecoderNext
<1>2. CASE UNCHANGED decoderVars BY <1>2 DEF decoderVars, TickInv, DecoderTyped, Excluded, Snapshot, Reports
<1> QED BY <1>1, <1>2

\* For any number of threads and pixels, in C and in Python, and at any pace: a
\* tick prints the counters of one moment.
THEOREM TickSnapshot == DecoderSpec => []TickIsSnapshot
<1>1. TickInv => TickIsSnapshot
  <2> SUFFICES ASSUME TickInv, NEW t \in DecoderThreads, "report" \in ToSet(tick_pc[t])
               PROVE  \A d \in 0 .. next_line_of_report - 1 : tick_report[d] = progress[d]
    BY DEF TickIsSnapshot
  <2>1. PICK i \in DOMAIN tick_pc[t] : tick_pc[t][i] = "report" BY DEF ToSet
  <2>2. i \in Nat /\ Reports(t, i) BY <2>1 DEF TickInv, DecoderTyped, Reports
  <2> QED BY <2>2 DEF TickInv, Snapshot
<1> QED BY <1>1, TickInvInit, TickInvKept, PTL DEF DecoderSpec, decoderSteps

-----------------------------------------------------------------------------
(* The decoder: the counts *)

\* A pixel is counted after it is written.  A thread that ends has come to the end
\* of the file, or complained; or main() has, and ended the process.
PixelsCounted(d) ==
    /\ IF decoder_pc[d] = "exit" THEN progress[d] \in {written[d], written[d] - 1}
       ELSE written[d] = progress[d] + IF decoder_pc[d] \in {"lock", "count"} THEN 1 ELSE 0
    /\ decoder_pc[d] = "exit" /\ {d, MainThread} \cap gave_up = {}
          => progress[d] = written[d] /\ written[d] = pixels_in_file
    /\ decoder_pc[d] = "unborn" => written[d] = 0
    /\ d \in gave_up => decoder_pc[d] = "exit" /\ (~Python => written[d] = 0)

\* main() ends when all threads have, or it has complained, or there is nothing to do.
Launched ==
    /\ decoder_pc[MainThread] \in {"signal", "timer"} => \A d \in Decoders : decoder_pc[d] = "unborn"
    /\ decoder_pc[MainThread] = "join" /\ MainThread \notin gave_up
          => \A d \in Decoders : decoder_pc[d] # "unborn"
    /\ decoder_pc[MainThread] = "exit"
          => \/ \A d \in Decoders : decoder_pc[d] = "exit"
             \/ /\ \A d \in Decoders : decoder_pc[d] \in {"exit", "unborn"}
                /\ MainThread \in gave_up \/ pixels_in_file = 0

Tally == Launched /\ \A d \in Decoders : PixelsCounted(d)

\* A thread at work.
LEMMA TallyOfDecode ==
    ASSUME DecoderTyped, Tally, UNCHANGED program, NEW d \in Decoders, Decode(d) PROVE Tally'
<1> USE ThreadNumbers DEF DecoderTyped, Decoding, DecoderPlaces
<1>0. UNCHANGED pixels_in_file /\ PixelsCounted(d) /\ progress[d] \in Nat /\ written[d] \in Nat
  BY DEF Decode, Tally
<1>1. /\ decoder_pc' = [decoder_pc EXCEPT ![d] = decoder_pc'[d]]
      /\ decoder_pc'[d] # "unborn" /\ decoder_pc[d] \notin {"exit", "unborn"}
      /\ \A e \in Decoders \ {d} : written'[e] = written[e] /\ progress'[e] = progress[e]
      /\ gave_up' \in {gave_up, gave_up \cup {d}}
  BY DEF Decode, DecodePixel, EndOfPixels, LeaveEarly, LockProgress, CountPixel, UnlockProgress, Complains
<1>2. \A e \in Decoders \ {d} : PixelsCounted(e)' 
  <2> SUFFICES ASSUME NEW e \in Decoders \ {d} PROVE PixelsCounted(e)' OBVIOUS
  <2>1. PixelsCounted(e) /\ decoder_pc'[e] = decoder_pc[e] BY <1>1 DEF Tally
  <2>2. (e \in gave_up' <=> e \in gave_up) /\ ({e, MainThread} \cap gave_up' = {e, MainThread} \cap gave_up)
    BY <1>1
  <2> HIDE DEF DecoderTyped
  <2> QED BY <1>0, <1>1, <2>1, <2>2 DEF PixelsCounted, Python
<1>3. Launched' BY <1>0, <1>1 DEF Tally, Launched
<1>4. PixelsCounted(d)'
  <2> USE DEF PixelsCounted
  <2>1. CASE DecodePixel(d) BY <1>0, <2>1 DEF DecodePixel
  <2>2. CASE EndOfPixels(d) BY <1>0, <2>2 DEF EndOfPixels
  <2>3. CASE LeaveEarly(d) 
    <3>1. written[d] = progress[d] BY <1>0, <2>3 DEF LeaveEarly
    <3>2. decoder_pc'[d] = "exit" /\ d \in gave_up' /\ UNCHANGED progress
      BY <2>3 DEF LeaveEarly, Complains
    <3>3. CASE (Python \/ written[d] = 0) /\ UNCHANGED written BY <3>1, <3>2, <3>3 DEF Python
    <3>4. CASE Python /\ written' = [written EXCEPT ![d] = @ + 1]
      <4>1. written'[d] = written[d] + 1 BY <3>4
      <4>2. progress'[d] = written'[d] - 1 BY <1>0, <3>1, <3>2, <4>1
      <4> QED BY <3>2, <3>4, <4>2 DEF Python
    <3> QED BY <2>3, <3>3, <3>4 DEF LeaveEarly
  <2>4. CASE LockProgress(d) BY <1>0, <2>4 DEF LockProgress
  <2>5. CASE CountPixel(d) BY <1>0, <2>5 DEF CountPixel
  <2>6. CASE UnlockProgress(d) BY <1>0, <2>6 DEF UnlockProgress
  <2> QED BY <2>1, <2>2, <2>3, <2>4, <2>5, <2>6 DEF Decode
<1> QED BY <1>2, <1>3, <1>4 DEF Tally

LEMMA TallyOfMain == ASSUME DecoderTyped, Tally, UNCHANGED program, DecoderMain PROVE Tally'
<1> USE ThreadNumbers DEF DecoderTyped, Decoding, DecoderPlaces, Tally, Launched, PixelsCounted, Python
<1>0. UNCHANGED <<progress, written, pixels_in_file>> BY DEF DecoderMain
<1>1. CASE InstallTryTest BY <1>0, <1>1 DEF InstallTryTest
<1>2. CASE SetTimer BY <1>0, <1>2 DEF SetTimer, Complains
<1>3. CASE CreateDecoder
  <2>1. PICK d \in Decoders :
            /\ decoder_pc[d] = "unborn" /\ \A e \in 0 .. d - 1 : decoder_pc[e] # "unborn"
            /\ decoder_pc' = [decoder_pc EXCEPT ![d] = "read",
                                ![MainThread] = IF d = NUM_THREADS - 1 THEN "join" ELSE "create"]
    BY <1>3 DEF CreateDecoder
  <2>2. decoder_pc'[MainThread] = (IF d = NUM_THREADS - 1 THEN "join" ELSE "create") /\ decoder_pc'[d] = "read"
    BY <2>1
  <2>3. \A e \in Decoders : e # d => decoder_pc'[e] = decoder_pc[e] BY <2>1
  <2>4. UNCHANGED gave_up BY <1>3 DEF CreateDecoder
  <2>5. d = NUM_THREADS - 1 => \A e \in Decoders : e = d \/ e \in 0 .. d - 1 BY DecoderAssumption DEF Decoders
  <2>6. \A e \in Decoders : PixelsCounted(e)' BY <1>0, <2>1, <2>2, <2>3, <2>4
  <2>7. Launched' BY <1>0, <2>1, <2>2, <2>3, <2>4, <2>5
  <2> QED BY <2>6, <2>7
<1>4. CASE CreateFails
  <2>1. gave_up' = gave_up \cup {MainThread} BY <1>4 DEF CreateFails, Complains
  <2>2. CASE decoder_pc' = [decoder_pc EXCEPT ![MainThread] = "join"] BY <1>0, <2>1, <2>2
  <2>3. CASE decoder_pc' = [t \in DecoderThreads |-> "exit"]
    <3>1. \A e \in Decoders : decoder_pc'[e] = "exit" BY <2>3
    <3>2. \A e \in Decoders : PixelsCounted(e)'
      <4> SUFFICES ASSUME NEW e \in Decoders PROVE PixelsCounted(e)' OBVIOUS
      <4>1. progress[e] \in {written[e], written[e] - 1}
        <5>1. progress[e] \in Nat /\ written[e] \in Nat OBVIOUS
        <5>2. CASE decoder_pc[e] \in {"lock", "count"}
          <6>1. written[e] = progress[e] + 1 BY <5>2
          <6> QED BY <5>1, <6>1
        <5>3. CASE decoder_pc[e] = "exit" BY <5>3
        <5>4. CASE decoder_pc[e] \notin {"lock", "count", "exit"}
          <6>1. written[e] = progress[e] + 0 BY <5>4
          <6> QED BY <5>1, <6>1
        <5> QED BY <5>2, <5>3, <5>4
      <4>2. e \in gave_up' => e \in gave_up BY <2>1
      <4> QED BY <1>0, <2>1, <3>1, <4>1, <4>2
    <3> QED BY <1>0, <2>3, <3>1, <3>2
  <2> QED BY <1>4, <2>2, <2>3 DEF CreateFails
<1>5. CASE JoinDecoders BY <1>0, <1>5 DEF JoinDecoders
<1> QED BY <1>1, <1>2, <1>3, <1>4, <1>5 DEF DecoderMain

LEMMA TallyStep == ASSUME DecoderTyped, Tally, UNCHANGED program, DecoderNext PROVE Tally'
<1>1. CASE UNCHANGED <<progress, written, gave_up, pixels_in_file, decoder_pc>>
  BY <1>1 DEF Tally, Launched, PixelsCounted, Python
<1> QED BY <1>1, TallyOfMain, TallyOfDecode DEF DecoderNext, Alarm, TryTest

\* For any number of threads and pixels, in C and in Python, and whatever fails:
\* when main() is through, a thread that has not complained has written and counted
\* every pixel, unless main() itself has complained; in C, one that has complained
\* has written none; and the counts miss at most one pixel of each.
THEOREM EveryPixelCounted == DecoderSpec => []AllCounted
<1>1. DecoderInit => Tally
  BY ThreadNumbers DEF DecoderInit, Tally, Launched, PixelsCounted, MainThread
<1>2. TickInv /\ Tally /\ [decoderSteps]_<<decoderVars, courseVars>> => Tally'
  <2> SUFFICES ASSUME TickInv, Tally, [decoderSteps]_<<decoderVars, courseVars>> PROVE Tally' OBVIOUS
  <2>1. CASE decoderSteps BY <2>1, TallyStep DEF decoderSteps, TickInv, courseVars
  <2>2. CASE UNCHANGED <<decoderVars, courseVars>>
    BY <2>2 DEF decoderVars, courseVars, Tally, Launched, PixelsCounted, Python
  <2> QED BY <2>1, <2>2
<1>3. TickInv /\ Tally => AllCounted
  <2> SUFFICES ASSUME TickInv, Tally, decoder_pc[MainThread] = "exit", NEW d \in Decoders
               PROVE  /\ {d, MainThread} \cap gave_up = {} =>
                            progress[d] = written[d] /\ written[d] = pixels_in_file
                      /\ d \in gave_up /\ ~Python => written[d] = 0
                      /\ progress[d] \in {written[d], written[d] - 1}
    BY DEF AllCounted
  <2>1. PixelsCounted(d) /\ progress[d] \in Nat /\ written[d] \in Nat BY DEF Tally, TickInv, DecoderTyped
  <2>2. CASE decoder_pc[d] = "exit" BY <2>1, <2>2 DEF PixelsCounted
  <2>3. CASE decoder_pc[d] # "exit"
    <3>1. decoder_pc[d] = "unborn" /\ (MainThread \in gave_up \/ pixels_in_file = 0)
      BY <2>3 DEF Tally, Launched
    <3>2. written[d] = progress[d] + 0 /\ written[d] = 0 BY <2>1, <3>1 DEF PixelsCounted
    <3> QED BY <2>1, <3>1, <3>2
  <2> QED BY <2>2, <2>3
<1> QED BY <1>1, <1>2, <1>3, TickInvInit, TickInvKept, PTL DEF DecoderSpec, decoderSteps
=============================================================================
