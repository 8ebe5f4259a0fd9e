---------------------------- MODULE AirportPyProofs ----------------------------
(***************************************************************************)
(* The airport with the Python air control, for any number of workers: its *)
(* types, its locks, its counts, that it implements Departures, which pids *)
(* the slots of the shared memory hold, and that what one program counts   *)
(* is backed by what another has announced, although signals merge and     *)
(* handlers nest.  All of it is for programs that start in any order over  *)
(* any memory; only the last needs ground control's first tick to come     *)
(* after the startup of the others.                                        *)
(***************************************************************************)
EXTENDS AirportPy, AirportProofs, FiniteSetTheorems, SequenceTheorems

-----------------------------------------------------------------------------
(* Types *)

\* A worker's step changes nothing of the kernel but what is pending, and keeps
\* the types.
LEMMA WorkerType ==
    ASSUME OSTypeOK, RadioTypeOK, AirTypeOK, NEW t \in Controllers, TakeoffWorker(t)
    PROVE  OSTypeOK' /\ RadioTypeOK' /\ AirTypeOK'
<1> USE BatchAssumption, ControllersAssumption
<1>1. "radio" \in Procs /\ "USR1" \in Signals /\ "TERM" \in Signals
    BY DEF Procs, Signals
<1>2. pending' \in [Procs -> SUBSET Signals]
    BY <1>1, KillType
    DEF TakeoffWorker, LoopTest, QuickCheck, TryRunway1, TryRunway2, TryRunway, Acquire, Release,
        DoubleCheck, CountTakeoff, ReportBatch, ReleaseRunway, EndRadio, SignalRadio, OSTypeOK
<1>3. OSTypeOK' /\ RadioTypeOK'
    BY <1>2 DEF TakeoffWorker, OSTypeOK, RadioTypeOK, radioVars
<1>4. pc' \in [Controllers -> Labels]
    BY DEF TakeoffWorker, LoopTest, QuickCheck, TryRunway1, TryRunway2, TryRunway, Acquire, Release,
       DoubleCheck, CountTakeoff, ReportBatch, ReleaseRunway, EndRadio, Step, AirTypeOK, Labels
<1>5. AirTypeOK'
    BY <1>4 DEF TakeoffWorker, LoopTest, QuickCheck, TryRunway1, TryRunway2, TryRunway, Acquire,
       Release, DoubleCheck, CountTakeoff, ReportBatch, ReleaseRunway, GiveRunwayBack, EndRadio,
       AirTypeOK, Runways, countVars, lockVars, handlerVars
<1>6. QED
    BY <1>3, <1>5

\* The signal handler's runs stay a sequence, one per call.
LEMMA HandlerType ==
    ASSUME OSTypeOK, RadioTypeOK, AirTypeOK, SigUsr2Handler
    PROVE  OSTypeOK' /\ RadioTypeOK' /\ AirTypeOK'
<1> USE BatchAssumption, ControllersAssumption
<1>1. "air" \in Procs /\ "USR2" \in Signals
    BY DEF Procs, Signals
<1>2. OSTypeOK' /\ RadioTypeOK'
    BY <1>1, TakeType DEF SigUsr2Handler, Trip, CallHandler, HandlerLocks, HandlerReturns,
       OSTypeOK, RadioTypeOK, radioVars
<1>3. handlers \in Seq({"wait", "held"})
    BY DEF AirTypeOK
<1>4. handlers' \in Seq({"wait", "held"})
    <2>1. CASE Trip
        BY <1>3, <2>1 DEF Trip
    <2>2. CASE CallHandler
        BY <1>3, <2>2 DEF CallHandler
    <2>3. CASE HandlerLocks
        BY <1>3, <2>3 DEF HandlerLocks
    <2>4. CASE HandlerReturns
        BY <1>3, <2>4 DEF HandlerReturns
    <2>5. QED
        BY <2>1, <2>2, <2>3, <2>4 DEF SigUsr2Handler
<1>5. tripped' \in BOOLEAN
    BY Zenon DEF SigUsr2Handler, Trip, CallHandler, HandlerLocks, HandlerReturns, AirTypeOK
<1>6. /\ air_planes' \in Int
      /\ state_lock' \in Controllers \cup {Main, NoThread}
    BY DEF SigUsr2Handler, Trip, CallHandler, HandlerLocks, HandlerReturns, AirTypeOK
<1>7. QED
    BY <1>2, <1>4, <1>5, <1>6 DEF SigUsr2Handler, AirTypeOK, threadVars

\* No step of air control breaks the types.
LEMMA AirType ==
    ASSUME OSTypeOK, RadioTypeOK, AirTypeOK, AirNext
    PROVE  OSTypeOK' /\ RadioTypeOK' /\ AirTypeOK'
<1>1. "air" \in Procs /\ "radio" \in Procs /\ "ground" \in Procs /\ "USR2" \in Signals
    BY DEF Procs, Signals
<1>2. CASE AirMain
    <2>1. OSTypeOK'
        <3>1. shm' \in [Procs -> SlotValues]
            BY <1>1, <1>2 DEF AirMain, CreateSharedMemory, OpenMemory, SizeMemory, GiveSize, SetSlot,
               ZeroSlots, StoreAirPid, PopenRadio, StoreRadioPid, InstallHandler,
               StartThreads, WaitForGround, JoinAndCleanUp, OSTypeOK, SlotValues
        <3>2. status' \in [Procs -> {"new", "up", "dead"}]
            BY <1>1, <1>2 DEF AirMain, CreateSharedMemory, OpenMemory, SizeMemory, GiveSize, SetSlot,
               ZeroSlots, StoreAirPid, PopenRadio, StoreRadioPid, InstallHandler,
               StartThreads, WaitForGround, JoinAndCleanUp, OSTypeOK
        <3>3. handled' \in [Procs -> SUBSET Signals]
            <4>1. {"USR2"} \in SUBSET Signals
                BY <1>1
            <4>2. handled' = handled \/ handled' = [handled EXCEPT !["air"] = {"USR2"}]
                BY <1>2 DEF AirMain, CreateSharedMemory, OpenMemory, SizeMemory, GiveSize, SetSlot,
                   ZeroSlots, StoreAirPid, PopenRadio, StoreRadioPid, InstallHandler,
                   StartThreads, WaitForGround, JoinAndCleanUp
            <4>3. QED
                BY <1>1, <4>1, <4>2 DEF OSTypeOK
        <3>4. pending' \in [Procs -> SUBSET Signals]
            <4>1. pending' = pending \/ pending' = [pending EXCEPT !["air"] = {}]
                BY <1>2 DEF AirMain, CreateSharedMemory, OpenMemory, SizeMemory, GiveSize, SetSlot,
                   ZeroSlots, StoreAirPid, PopenRadio, StoreRadioPid, InstallHandler,
                   StartThreads, WaitForGround, JoinAndCleanUp
            <4>2. QED
                BY <1>1, <4>1 DEF OSTypeOK
        <3>5. linked' \in BOOLEAN
            BY <1>2, Zenon DEF AirMain, CreateSharedMemory, OpenMemory, SizeMemory, GiveSize, SetSlot,
               ZeroSlots, StoreAirPid, PopenRadio, StoreRadioPid, InstallHandler,
               StartThreads, WaitForGround, JoinAndCleanUp, OSTypeOK
        <3>6. QED
            BY <1>2, <3>1, <3>2, <3>3, <3>4, <3>5 DEF AirMain, OSTypeOK
    <2>2. RadioTypeOK'
        BY <1>2 DEF AirMain, CreateSharedMemory, OpenMemory, SizeMemory, GiveSize, SetSlot, ZeroSlots,
           StoreAirPid, PopenRadio, StoreRadioPid, InstallHandler,
           StartThreads, WaitForGround, JoinAndCleanUp, RadioTypeOK
    <2>3. main_pc' \in {"create", "truncate", "zero0", "zero1", "zero2", "store", "popen", "slot",
                      "signal", "spawn", "wait", "join", "exit"}
        BY <1>2 DEF AirMain, CreateSharedMemory, OpenMemory, SizeMemory, GiveSize, SetSlot, ZeroSlots,
           StoreAirPid, PopenRadio, StoreRadioPid, InstallHandler,
           StartThreads, WaitForGround, JoinAndCleanUp, MainStep
    <2>4. pc' \in [Controllers -> Labels]
        BY <1>2 DEF AirMain, CreateSharedMemory, OpenMemory, SizeMemory, GiveSize, SetSlot, ZeroSlots,
           StoreAirPid, PopenRadio, StoreRadioPid, InstallHandler,
           StartThreads, WaitForGround, JoinAndCleanUp, AirTypeOK, Labels
    <2>5. AirTypeOK'
        BY <1>2, <2>3, <2>4 DEF AirMain, AirTypeOK, countVars, lockVars, handlerVars
    <2>6. QED
        BY <2>1, <2>2, <2>5
<1>3. CASE \E t \in Controllers : TakeoffWorker(t)
    BY <1>3, WorkerType
<1>4. CASE SigUsr2Handler
    BY <1>4, HandlerType
<1>5. CASE DefaultAction("air") /\ UNCHANGED <<radioVars, airVars>>
    BY <1>1, <1>5, DefaultActionType
    DEF RadioTypeOK, AirTypeOK, radioVars, airVars, countVars, lockVars, threadVars, handlerVars
<1>6. QED
    BY <1>2, <1>3, <1>4, <1>5 DEF AirNext

\* Every variable of the three programs and of the kernel keeps its type.
THEOREM TypeCorrect == Spec => []TypeOK
<1>1. Init => TypeOK
    <2>1. SUFFICES ASSUME Init PROVE TypeOK
        OBVIOUS
    <2>2. OSTypeOK
        <3>1. shm \in [Procs -> SlotValues]
            BY <2>1 DEF Init, OSInit, SlotValues
        <3>2. stack \in [Procs -> Seq(Frames)]
            BY <2>1 DEF Init, OSInit
        <3>3. QED
            BY <2>1, <3>1, <3>2, StaleMemoryAssumption DEF Init, OSInit, OSTypeOK
    <2>3. RadioTypeOK /\ GroundTypeOK
        BY <2>1 DEF Init, RadioInit, GroundInit, RadioTypeOK, GroundTypeOK
    <2>4. AirTypeOK
        <3>1. handlers \in Seq({"wait", "held"})
            BY <2>1 DEF Init, AirInit
        <3>2. tripped \in BOOLEAN
            BY <2>1 DEF Init, AirInit
        <3>3. main_pc = "create" /\ state_lock = NoThread
            BY <2>1 DEF Init, AirInit
        <3>4. air_planes = 0 /\ air_takeoffs = 0 /\ total_takeoffs = 0
            BY <2>1 DEF Init, AirInit
        <3>5. /\ runway \in [Runways -> Controllers \cup {NoThread}]
              /\ pc \in [Controllers -> Labels]
              /\ current_runway \in [Controllers -> Runways \cup {0}]
            BY <2>1 DEF Init, AirInit, Labels
        <3>6. QED
            BY <3>1, <3>2, <3>3, <3>4, <3>5 DEF AirTypeOK
    <2>5. QED
        BY <2>2, <2>3, <2>4 DEF TypeOK
<1>2. TypeOK /\ [Next]_vars => TypeOK'
    <2>1. SUFFICES ASSUME TypeOK, [Next]_vars PROVE TypeOK'
        OBVIOUS
    <2>2. CASE AirNext /\ UNCHANGED groundVars
        BY <2>1, <2>2, AirType DEF TypeOK, GroundTypeOK, groundVars
    <2>3. CASE RadioNext /\ UNCHANGED <<airVars, groundVars>>
        BY <2>1, <2>3, RadioType DEF TypeOK, GroundTypeOK, groundVars,
           AirTypeOK, airVars, countVars, lockVars, threadVars, handlerVars
    <2>4. CASE GroundNext /\ UNCHANGED <<radioVars, airVars>>
        BY <2>1, <2>4, GroundType DEF TypeOK, RadioTypeOK, radioVars,
           AirTypeOK, airVars, countVars, lockVars, threadVars, handlerVars
    <2>5. CASE UNCHANGED vars
        BY <2>1, <2>5 DEF TypeOK, OSTypeOK, RadioTypeOK, GroundTypeOK, AirTypeOK, vars, osVars,
           radioVars, groundVars, airVars, countVars, lockVars, threadVars, handlerVars
    <2>6. QED
        BY <2>1, <2>2, <2>3, <2>4, <2>5 DEF Next
<1>3. QED
    BY <1>1, <1>2, PTL DEF Spec

-----------------------------------------------------------------------------
(* Locks *)

\* Until main() starts them the workers are not in their loop.
IdleUntilStarted ==
    main_pc \notin {"wait", "join", "exit"} =>
        \A t \in Controllers : pc[t] = "idle"

LockInv == AirTypeOK /\ IdleUntilStarted /\ LocksHeld

\* A worker's part of LocksHeld, and the handler's: state_lock has one owner, so
\* a step of one of them leaves the other's part alone.
WorkerLocks ==
    /\ \A t \in Controllers :
          /\ pc[t] \in OnRunway <=> current_runway[t] # 0
          /\ pc[t] \in OnRunway => runway[current_runway[t]] = t
          /\ pc[t] \in Critical <=> state_lock = t
    /\ \A r \in Runways : runway[r] # NoThread => current_runway[runway[r]] = r

HandlerHoldsLock ==
    /\ \A i, j \in 1 .. Len(handlers) :
          handlers[i] = "held" /\ handlers[j] = "held" => i = j
    /\ (\E i \in 1 .. Len(handlers) : handlers[i] = "held") <=> state_lock = Main

\* A step of a worker that takes or gives back no lock, and stays on its side of
\* each critical section, leaves the locks as they were.
LEMMA SameSide ==
    ASSUME LockInv, NEW t \in Controllers, NEW from \in Labels, NEW to \in Labels,
           Step(t, from, to), UNCHANGED <<lockVars, current_runway>>,
           from \in OnRunway <=> to \in OnRunway,
           from \in Critical <=> to \in Critical
    PROVE  WorkerLocks'
<1>1. \A u \in Controllers :
          /\ pc'[u] \in OnRunway <=> pc[u] \in OnRunway
          /\ pc'[u] \in Critical <=> pc[u] \in Critical
    BY DEF Step, LockInv, AirTypeOK
<1>2. QED
    BY <1>1, Zenon DEF LockInv, LocksHeld, WorkerLocks, lockVars

\* No step of a worker breaks the discipline of the three locks.
LEMMA WorkerKeepsLocks ==
    ASSUME LockInv, NEW t \in Controllers, TakeoffWorker(t)
    PROVE  LocksHeld'
<1> USE ControllersAssumption
<1>1. WorkerLocks'
    <2>1. CASE LoopTest(t) \/ QuickCheck(t)
        BY <2>1, SameSide DEF LoopTest, QuickCheck, Labels, OnRunway, Critical
    <2>2. CASE CountTakeoff(t)
        BY <2>2, SameSide DEF CountTakeoff, Labels, OnRunway, Critical
    <2>3. CASE ReportBatch(t) \/ EndRadio(t)
        BY <2>3, SameSide DEF ReportBatch, EndRadio, Labels, OnRunway, Critical
    <2>4. CASE TryRunway1(t)
        BY <2>4 DEF TryRunway1, TryRunway, Step, LockInv, AirTypeOK, LocksHeld, WorkerLocks,
           OnRunway, Critical, Runways
    <2>5. CASE TryRunway2(t)
        BY <2>5 DEF TryRunway2, TryRunway, Step, LockInv, AirTypeOK, LocksHeld, WorkerLocks,
           OnRunway, Critical, Runways
    <2>6. CASE Acquire(t, "lock", "recheck") \/ Acquire(t, "finish", "term")
        BY <2>6 DEF Acquire, Step, LockInv, AirTypeOK, LocksHeld, WorkerLocks, OnRunway, Critical
    <2>7. CASE Release(t, "bail", "loop") \/ Release(t, "unlock", "release")
               \/ Release(t, "leave", "done")
        BY <2>7 DEF Release, Step, LockInv, AirTypeOK, LocksHeld, WorkerLocks, OnRunway, Critical
    <2>8. CASE DoubleCheck(t)
        BY <2>8 DEF DoubleCheck, GiveRunwayBack, Step, LockInv, AirTypeOK, LocksHeld, WorkerLocks,
           OnRunway, Critical, Runways
    <2>9. CASE ReleaseRunway(t)
        BY <2>9 DEF ReleaseRunway, GiveRunwayBack, Step, LockInv, AirTypeOK, LocksHeld, WorkerLocks,
           OnRunway, Critical, Runways
    <2>10. QED
        BY <2>1, <2>2, <2>3, <2>4, <2>5, <2>6, <2>7, <2>8, <2>9 DEF TakeoffWorker
<1>2. UNCHANGED handlers
    BY DEF TakeoffWorker, handlerVars
<1>3. state_lock' = Main <=> state_lock = Main
    <2>1. pc[t] \in Critical <=> state_lock = t
        BY DEF LockInv, LocksHeld
    <2>2. UNCHANGED state_lock \/ (state_lock = NoThread /\ state_lock' = t)
          \/ (state_lock = t /\ state_lock' = NoThread)
        BY <2>1 DEF TakeoffWorker, LoopTest, QuickCheck, TryRunway1, TryRunway2, TryRunway, Acquire,
           Release, DoubleCheck, CountTakeoff, ReportBatch, ReleaseRunway, EndRadio, lockVars,
           Step, Critical
    <2>3. QED
        BY <2>2
<1>4. HandlerHoldsLock'
    BY <1>2, <1>3 DEF LockInv, LocksHeld, HandlerHoldsLock
<1>5. QED
    BY <1>1, <1>4, Zenon DEF LocksHeld, WorkerLocks, HandlerHoldsLock

\* A sequence without its last element.
LEMMA ButLast ==
    ASSUME NEW S, NEW s \in Seq(S), s # <<>>
    PROVE  /\ Len(SubSeq(s, 1, Len(s) - 1)) = Len(s) - 1
           /\ \A i \in 1 .. Len(s) - 1 : SubSeq(s, 1, Len(s) - 1)[i] = s[i]
<1> DEFINE n == Len(s) - 1
<1>1. n \in Nat /\ \A i \in 1 .. n : s[i] \in S
    OBVIOUS
<1>2. Len(SubSeq(s, 1, n)) = n
    <2> HIDE DEF n
    <2>1. Len(SubSeq(s, 1, n)) = IF 1 <= n THEN n - 1 + 1 ELSE 0
        BY <1>1, SubSeqProperties
    <2>2. QED
        BY <1>1, <2>1
<1>3. ASSUME NEW i \in 1 .. n PROVE SubSeq(s, 1, n)[i] = s[i]
    OBVIOUS
<1>4. QED
    BY <1>2, <1>3

\* Nor does the signal handler, however deep its runs nest: a run that takes the
\* lock finds it free, and the one that holds it is the innermost that can.
LEMMA HandlerKeepsLocks ==
    ASSUME LockInv, SigUsr2Handler
    PROVE  LocksHeld'
<1> DEFINE n == Len(handlers)
<1> USE ControllersAssumption
<1>1. handlers \in Seq({"wait", "held"}) /\ n \in Nat
    BY DEF LockInv, AirTypeOK
<1>2. HandlerHoldsLock
    BY Zenon DEF LockInv, LocksHeld, HandlerHoldsLock
<1>3. HandlerHoldsLock' /\ (UNCHANGED state_lock \/ {state_lock, state_lock'} = {Main, NoThread})
    <2>1. CASE Trip
        BY <1>2, <2>1 DEF Trip, HandlerHoldsLock
    <2>2. CASE CallHandler
        <3>1. handlers' = Append(handlers, "wait") /\ UNCHANGED state_lock
            BY <2>2 DEF CallHandler
        <3>2. Len(handlers') = n + 1 /\ handlers'[n + 1] = "wait"
            BY <1>1, <3>1
        <3>3. \A i \in 1 .. n : handlers'[i] = handlers[i]
            BY <1>1, <3>1
        <3>4. HandlerHoldsLock'
            BY <1>1, <1>2, <3>1, <3>2, <3>3 DEF HandlerHoldsLock
        <3>5. QED
            BY <3>1, <3>4
    <2>3. CASE HandlerLocks
        <3>1. state_lock = NoThread /\ state_lock' = Main /\ Main # NoThread
            BY <2>3 DEF HandlerLocks
        <3>2. handlers' = [handlers EXCEPT ![n] = "held"] /\ n \in 1 .. n
            BY <1>1, <2>3 DEF HandlerLocks
        <3>3. Len(handlers') = n /\ \A i \in 1 .. n : handlers'[i] = "held" <=> i = n
            BY <1>1, <1>2, <3>1, <3>2 DEF HandlerHoldsLock
        <3>4. \A i, j \in 1 .. Len(handlers') :
                  handlers'[i] = "held" /\ handlers'[j] = "held" => i = j
            BY <3>3
        <3>5. \E i \in 1 .. Len(handlers') : handlers'[i] = "held"
            BY <3>2, <3>3
        <3>6. HandlerHoldsLock'
            BY <3>1, <3>4, <3>5 DEF HandlerHoldsLock
        <3>7. QED
            BY <3>1, <3>6
    <2>4. CASE HandlerReturns
        <3>1. n \in 1 .. n /\ handlers[n] = "held"
            BY <1>1, <2>4 DEF HandlerReturns, Innermost
        <3>2. state_lock = Main /\ state_lock' = NoThread /\ Main # NoThread
            BY <1>2, <2>4, <3>1 DEF HandlerReturns, HandlerHoldsLock
        <3>3. handlers' = SubSeq(handlers, 1, n - 1)
            BY <2>4 DEF HandlerReturns
        <3>4. Len(handlers') = n - 1 /\ \A i \in 1 .. n - 1 : handlers'[i] = handlers[i]
            BY <1>1, <3>1, <3>3, ButLast
        <3>5. \A i \in 1 .. n - 1 : handlers'[i] # "held"
            BY <1>1, <1>2, <3>1, <3>4 DEF HandlerHoldsLock
        <3>6. HandlerHoldsLock'
            BY <1>1, <3>2, <3>4, <3>5 DEF HandlerHoldsLock
        <3>7. QED
            BY <3>2, <3>6
    <2>5. QED
        BY <2>1, <2>2, <2>3, <2>4 DEF SigUsr2Handler
<1>4. \A t \in Controllers : state_lock' = t <=> state_lock = t
    BY <1>3
<1>5. UNCHANGED <<pc, current_runway, runway>>
    BY DEF SigUsr2Handler, threadVars
<1>6. WorkerLocks'
    BY <1>4, <1>5 DEF LockInv, LocksHeld, WorkerLocks
<1>7. QED
    BY <1>3, <1>6, Zenon DEF LocksHeld, WorkerLocks, HandlerHoldsLock

\* No step of the airport breaks the discipline of the locks.
LEMMA LocksStep ==
    ASSUME LockInv, AirTypeOK', [Next]_vars
    PROVE  LockInv'
<1>1. CASE UNCHANGED airVars
    BY <1>1 DEF LockInv, IdleUntilStarted, LocksHeld, airVars, lockVars, threadVars, handlerVars
<1>2. CASE AirMain
    <2>1. UNCHANGED <<state_lock, runway, current_runway, handlers>>
        BY <1>2 DEF AirMain, lockVars, handlerVars
    <2>2. CASE StartThreads
        <3>1. main_pc' = "wait" /\ \A t \in Controllers : pc[t] = "idle" /\ pc'[t] = "loop"
            BY <2>2 DEF StartThreads, MainStep, LockInv, IdleUntilStarted
        <3>2. LocksHeld'
            BY <2>1, <3>1 DEF LockInv, LocksHeld, OnRunway, Critical
        <3>3. QED
            BY <3>1, <3>2 DEF LockInv, IdleUntilStarted
    <2>3. CASE ~StartThreads
        <3>1. UNCHANGED pc
            BY <1>2, <2>3 DEF AirMain, CreateSharedMemory, PopenRadio, StoreRadioPid, InstallHandler,
               WaitForGround, JoinAndCleanUp
        <3>2. IdleUntilStarted'
            BY <1>2, <2>3, <3>1 DEF LockInv, IdleUntilStarted, AirMain, CreateSharedMemory,
               OpenMemory, SizeMemory, GiveSize, SetSlot, ZeroSlots, StoreAirPid,
               PopenRadio, StoreRadioPid, InstallHandler, WaitForGround, JoinAndCleanUp, MainStep
        <3>3. LocksHeld'
            BY <2>1, <3>1 DEF LockInv, LocksHeld
        <3>4. QED
            BY <3>2, <3>3 DEF LockInv
    <2>4. QED
        BY <2>2, <2>3
<1>3. ASSUME NEW t \in Controllers, TakeoffWorker(t)
      PROVE  LockInv'
    <2>1. LocksHeld'
        BY <1>3, WorkerKeepsLocks
    <2>2. pc[t] # "idle" /\ UNCHANGED main_pc
        BY <1>3 DEF TakeoffWorker, LoopTest, QuickCheck, TryRunway1, TryRunway2, TryRunway, Acquire,
           Release, DoubleCheck, CountTakeoff, ReportBatch, ReleaseRunway, EndRadio, Step
    <2>3. IdleUntilStarted'
        BY <2>2 DEF LockInv, IdleUntilStarted
    <2>4. QED
        BY <2>1, <2>3 DEF LockInv
<1>4. CASE SigUsr2Handler
    <2>1. IdleUntilStarted'
        BY <1>4 DEF SigUsr2Handler, threadVars, LockInv, IdleUntilStarted
    <2>2. QED
        BY <1>4, <2>1, HandlerKeepsLocks DEF LockInv
<1>5. QED
    BY <1>1, <1>2, <1>3, <1>4 DEF Next, AirNext, vars

\* LockInv, the inductive form of LocksHeld, is an invariant.
LEMMA LocksInvariant == Spec => []LockInv
<1>1. Init /\ TypeOK => LockInv
    <2>1. SUFFICES ASSUME Init, TypeOK PROVE LockInv
        OBVIOUS
    <2>2. IdleUntilStarted
        BY <2>1 DEF Init, AirInit, IdleUntilStarted
    <2>3. LocksHeld
        BY <2>1, ControllersAssumption DEF Init, AirInit, LocksHeld, OnRunway, Critical
    <2>4. QED
        BY <2>1, <2>2, <2>3 DEF LockInv, TypeOK
<1>2. LockInv /\ TypeOK' /\ [Next]_vars => LockInv'
    BY LocksStep DEF TypeOK
<1>3. QED
    BY <1>1, <1>2, TypeCorrect, PTL DEF Spec

\* The locks are held as the workers and the handler think they are (LocksHeld),
\* for any number of workers and however deep the handler's runs nest.
THEOREM MutualExclusion == Spec => []LocksHeld
<1>1. LockInv => LocksHeld
    BY DEF LockInv
<1>2. QED
    BY <1>1, LocksInvariant, PTL

-----------------------------------------------------------------------------
(* Counts *)

\* What a worker's step does to the counts: four actions change them.
LEMMA WorkerCounts ==
    ASSUME NEW t \in Controllers, TakeoffWorker(t),
           ~DoubleCheck(t), ~CountTakeoff(t), ~ReportBatch(t)
    PROVE  UNCHANGED countVars
BY DEF TakeoffWorker, LoopTest, QuickCheck, TryRunway1, TryRunway2, TryRunway, Acquire, Release,
   ReleaseRunway, EndRadio, countVars

\* The steps of air control that are not a worker's bring planes, at most.
LEMMA OtherCounts ==
    ASSUME AirTypeOK, [Next]_vars, ~(\E t \in Controllers : TakeoffWorker(t))
    PROVE  /\ UNCHANGED <<total_takeoffs, air_takeoffs>>
           /\ air_planes' = air_planes \/ air_planes' = air_planes + BATCH
           /\ UNCHANGED pc \/ StartThreads
<1>1. CASE UNCHANGED airVars
    BY <1>1 DEF airVars, countVars, threadVars
<1>2. CASE AirMain
    BY <1>2 DEF AirMain, CreateSharedMemory, PopenRadio, StoreRadioPid, InstallHandler,
       StartThreads, WaitForGround, JoinAndCleanUp, countVars
<1>3. CASE SigUsr2Handler
    BY <1>3 DEF SigUsr2Handler, Trip, CallHandler, HandlerLocks, HandlerReturns, threadVars
<1>4. QED
    BY <1>1, <1>2, <1>3 DEF Next, AirNext, vars

\* Python's double check under the lock (main.py:88): however many workers saw the
\* last plane, one takes off with it (PlanesNonNegative).
THEOREM NoTakeoffWithoutPlane == Spec => []PlanesNonNegative
<1>1. Init => PlanesNonNegative
    BY DEF Init, AirInit, PlanesNonNegative
<1>2. PlanesNonNegative /\ TypeOK /\ [Next]_vars => PlanesNonNegative'
    <2>1. SUFFICES ASSUME PlanesNonNegative, AirTypeOK, [Next]_vars
                   PROVE  PlanesNonNegative'
        BY DEF TypeOK
    <2>2. ASSUME NEW t \in Controllers, TakeoffWorker(t)
          PROVE  PlanesNonNegative'
        BY <2>1, <2>2, WorkerCounts
        DEF DoubleCheck, CountTakeoff, ReportBatch, countVars, PlanesNonNegative, AirTypeOK
    <2>3. CASE ~(\E t \in Controllers : TakeoffWorker(t))
        BY <2>1, <2>3, OtherCounts, BatchAssumption DEF PlanesNonNegative, AirTypeOK
    <2>4. QED
        BY <2>2, <2>3
<1>3. QED
    BY <1>1, <1>2, TypeCorrect, PTL DEF Spec

\* Workers that will count a take-off unless they find no plane.
Committed == {t \in Controllers :
                pc[t] \in {"planes", "runway1", "runway2", "lock", "recheck", "count"}}

\* The inductive form of OvershootBounded: it counts those workers as well.
CommittedBounded ==
    total_takeoffs + Cardinality(Committed) <= TOTAL_TAKEOFFS + Cardinality(Controllers) - 1

\* Committed is a finite set, no larger than Controllers.
LEMMA CommittedSize ==
    /\ IsFiniteSet(Committed)
    /\ Cardinality(Committed) \in Nat
    /\ Cardinality(Controllers) \in Nat
    /\ Cardinality(Committed) <= Cardinality(Controllers)
BY ControllersAssumption, FS_Subset, FS_CardinalityType DEF Committed

\* A step that lets no worker past the loop test, and counts nothing, keeps the
\* bound.
LEMMA NobodyJoins ==
    ASSUME CommittedBounded, AirTypeOK, Committed' \subseteq Committed, UNCHANGED total_takeoffs
    PROVE  CommittedBounded'
<1>1. Cardinality(Committed') <= Cardinality(Committed) /\ Cardinality(Committed') \in Nat
    BY CommittedSize, FS_Subset, FS_CardinalityType
<1>2. QED
    BY <1>1, CommittedSize, TotalAssumption DEF CommittedBounded, AirTypeOK

\* A worker that passes the loop test does so while the total is too low.
LEMMA LoopTestBounded ==
    ASSUME CommittedBounded, AirTypeOK, NEW t \in Controllers, LoopTest(t)
    PROVE  CommittedBounded'
<1>1. CASE total_takeoffs < TOTAL_TAKEOFFS
    <2>1. IsFiniteSet(Controllers) /\ Committed' \subseteq Controllers
        BY ControllersAssumption DEF Committed
    <2>2. Cardinality(Committed') <= Cardinality(Controllers) /\ Cardinality(Committed') \in Nat
        BY <2>1, FS_Subset, FS_CardinalityType
    <2>3. UNCHANGED total_takeoffs
        BY DEF LoopTest, countVars
    <2>4. QED
        BY <1>1, <2>2, <2>3, CommittedSize, TotalAssumption DEF CommittedBounded, AirTypeOK
<1>2. CASE ~(total_takeoffs < TOTAL_TAKEOFFS)
    <2>1. pc' = [pc EXCEPT ![t] = "finish"]
        BY <1>2 DEF LoopTest, Step
    <2>2. Committed' \subseteq Committed
        BY <2>1 DEF Committed, AirTypeOK
    <2>3. QED
        BY <2>2, NobodyJoins DEF LoopTest, countVars
<1>3. QED
    BY <1>1, <1>2

\* A worker that counts its take-off is no longer committed to one.
LEMMA CountTakeoffBounded ==
    ASSUME CommittedBounded, AirTypeOK, NEW t \in Controllers, CountTakeoff(t)
    PROVE  CommittedBounded'
<1>1. t \in Committed
    BY DEF CountTakeoff, Step, Committed
<1>2. Committed' = Committed \ {t}
    BY DEF CountTakeoff, Step, Committed, AirTypeOK
<1>3. Cardinality(Committed') = Cardinality(Committed) - 1
    BY <1>1, <1>2, CommittedSize, FS_RemoveElement
<1>4. total_takeoffs' = total_takeoffs + 1
    BY DEF CountTakeoff
<1>5. QED
    BY <1>3, <1>4, CommittedSize, TotalAssumption DEF CommittedBounded, AirTypeOK

\* No other step of a worker gets it past the loop test.
LEMMA OthersBounded ==
    ASSUME CommittedBounded, AirTypeOK, NEW t \in Controllers, TakeoffWorker(t),
           ~LoopTest(t), ~CountTakeoff(t)
    PROVE  CommittedBounded'
<1>1. UNCHANGED total_takeoffs
    BY WorkerCounts DEF DoubleCheck, ReportBatch, countVars
<1>2. Committed' \subseteq Committed
    BY DEF TakeoffWorker, QuickCheck, TryRunway1, TryRunway2, TryRunway, Acquire, Release,
       DoubleCheck, ReportBatch, ReleaseRunway, EndRadio, Step, Committed, AirTypeOK
<1>3. QED
    BY <1>1, <1>2, NobodyJoins

\* No step of the airport breaks the bound.
LEMMA CommittedStep ==
    ASSUME CommittedBounded, AirTypeOK, [Next]_vars
    PROVE  CommittedBounded'
<1>1. ASSUME NEW t \in Controllers, TakeoffWorker(t)
      PROVE  CommittedBounded'
    BY <1>1, LoopTestBounded, CountTakeoffBounded, OthersBounded
<1>2. CASE ~(\E t \in Controllers : TakeoffWorker(t))
    <2>1. UNCHANGED total_takeoffs /\ (UNCHANGED pc \/ StartThreads)
        BY <1>2, OtherCounts
    <2>2. Committed' \subseteq Committed
        BY <2>1 DEF StartThreads, Committed
    <2>3. QED
        BY <2>1, <2>2, NobodyJoins
<1>3. QED
    BY <1>1, <1>2

\* CommittedBounded is an invariant.
LEMMA CommittedInvariant == Spec => []CommittedBounded
<1>1. Init => CommittedBounded
    <2>1. SUFFICES ASSUME Init PROVE CommittedBounded
        OBVIOUS
    <2>2. Committed = {} /\ total_takeoffs = 0
        BY <2>1 DEF Init, AirInit, Committed
    <2>3. Cardinality(Committed) = 0
        BY <2>2, FS_EmptySet
    <2>4. Cardinality(Controllers) \in Nat /\ Cardinality(Controllers) # 0
        BY ControllersAssumption, FS_CardinalityType, FS_EmptySet
    <2>5. QED
        BY <2>2, <2>3, <2>4, TotalAssumption DEF CommittedBounded
<1>2. CommittedBounded /\ TypeOK /\ [Next]_vars => CommittedBounded'
    BY CommittedStep DEF TypeOK
<1>3. QED
    BY <1>1, <1>2, TypeCorrect, PTL DEF Spec

\* Air control counts at most one take-off too many for each of the other
\* workers (OvershootBounded).
THEOREM Overshoot == Spec => []OvershootBounded
<1>1. CommittedBounded /\ TypeOK => OvershootBounded
    BY CommittedSize, TotalAssumption DEF CommittedBounded, OvershootBounded, TypeOK, AirTypeOK
<1>2. QED
    BY <1>1, CommittedInvariant, TypeCorrect, PTL

-----------------------------------------------------------------------------
(* Batches *)

\* takeoffs counts towards the next batch and is full only while its worker
\* reports it; what is reported already are whole batches; and a worker that has
\* ended the radio did so when TOTAL_TAKEOFFS were reported.
BatchInv ==
    /\ air_takeoffs <= BATCH
    /\ air_takeoffs = BATCH <=> \E t \in Controllers : pc[t] = "usr1"
    /\ \E k \in Nat : total_takeoffs = air_takeoffs + k * BATCH
    /\ \A t \in Controllers :
          /\ pc[t] \in {"finish", "term", "leave", "done"} => total_takeoffs >= TOTAL_TAKEOFFS
          /\ pc[t] \in {"leave", "done"} => total_takeoffs - air_takeoffs >= TOTAL_TAKEOFFS

\* Of two numbers of whole batches, less than a batch apart, the first is not
\* smaller.
LEMMA WholeBatchesApart ==
    ASSUME NEW k \in Nat, NEW m \in Nat, k * BATCH > m * BATCH - BATCH
    PROVE  k * BATCH >= m * BATCH
<1> USE BatchAssumption
<1>1. ASSUME k < m PROVE FALSE
    <2>1. PICK d \in Nat : m = k + 1 + d
        <3>1. m - k - 1 \in Nat /\ m = k + 1 + (m - k - 1)
            BY <1>1
        <3>2. QED
            BY <3>1
    <2>2. m * BATCH = k * BATCH + BATCH + d * BATCH /\ d * BATCH >= 0
        BY <2>1
    <2>3. k * BATCH \in Nat /\ d * BATCH \in Nat
        OBVIOUS
    <2>4. QED
        BY <2>2, <2>3
<1>2. PICK d \in Nat : k = m + d
    <2>1. k - m \in Nat /\ k = m + (k - m)
        BY <1>1
    <2>2. QED
        BY <2>1
<1>3. k * BATCH = m * BATCH + d * BATCH /\ d * BATCH \in Nat /\ m * BATCH \in Nat
    BY <1>2
<1>4. QED
    BY <1>3

\* Only one worker is in the critical section.
LEMMA AloneInside ==
    ASSUME LockInv, NEW t \in Controllers, pc[t] \in Critical
    PROVE  \A u \in Controllers : pc[u] \in Critical => u = t
BY DEF LockInv, LocksHeld

\* A worker that ends the radio holds the lock, so no batch is being reported and
\* every whole batch up to TOTAL_TAKEOFFS is.
LEMMA AllReported ==
    ASSUME BatchInv, LockInv, WholeBatches, NEW t \in Controllers, pc[t] = "term"
    PROVE  total_takeoffs - air_takeoffs >= TOTAL_TAKEOFFS
<1> USE BatchAssumption, TotalAssumption
<1>1. air_takeoffs \in Nat /\ total_takeoffs \in Nat
    BY DEF LockInv, AirTypeOK
<1>2. air_takeoffs < BATCH
    <2>1. \A u \in Controllers : pc[u] # "usr1"
        BY AloneInside DEF Critical
    <2>2. QED
        BY <1>1, <2>1 DEF BatchInv
<1>3. PICK k \in Nat : total_takeoffs = air_takeoffs + k * BATCH
    BY DEF BatchInv
<1>4. PICK m \in Nat : TOTAL_TAKEOFFS = m * BATCH
    <2>1. TOTAL_TAKEOFFS \div BATCH \in Nat
        OBVIOUS
    <2>2. TOTAL_TAKEOFFS = BATCH * (TOTAL_TAKEOFFS \div BATCH) + (TOTAL_TAKEOFFS % BATCH)
        OBVIOUS
    <2>3. TOTAL_TAKEOFFS = (TOTAL_TAKEOFFS \div BATCH) * BATCH
        BY <2>1, <2>2 DEF WholeBatches
    <2>4. QED
        BY <2>1, <2>3
<1>5. k * BATCH \in Nat /\ m * BATCH \in Nat
    OBVIOUS
<1>6. k * BATCH > m * BATCH - BATCH
    BY <1>1, <1>2, <1>3, <1>4, <1>5 DEF BatchInv
<1>7. k * BATCH >= m * BATCH
    BY <1>6, WholeBatchesApart
<1>8. QED
    BY <1>1, <1>3, <1>4, <1>5, <1>7

\* A worker's step that counts nothing, reports nothing and ends nothing: what it
\* may do to BatchInv is to leave the loop, or the program.
LEMMA QuietStep ==
    ASSUME BatchInv, AirTypeOK, NEW t \in Controllers, NEW from \in Labels, NEW to \in Labels,
           Step(t, from, to), UNCHANGED <<total_takeoffs, air_takeoffs>>,
           from # "usr1", to # "usr1",
           to \in {"finish", "term", "leave", "done"} => total_takeoffs >= TOTAL_TAKEOFFS,
           to \in {"leave", "done"} => total_takeoffs - air_takeoffs >= TOTAL_TAKEOFFS
    PROVE  BatchInv'
<1>1. pc'[t] = to /\ \A u \in Controllers : u # t => pc'[u] = pc[u]
    BY DEF Step, AirTypeOK
<1>2. pc[t] = from
    BY DEF Step
<1>3. (\E u \in Controllers : pc'[u] = "usr1") <=> (\E u \in Controllers : pc[u] = "usr1")
    BY <1>1, <1>2
<1>4. \A u \in Controllers :
         /\ pc'[u] \in {"finish", "term", "leave", "done"} => total_takeoffs >= TOTAL_TAKEOFFS
         /\ pc'[u] \in {"leave", "done"} => total_takeoffs - air_takeoffs >= TOTAL_TAKEOFFS
    BY <1>1 DEF BatchInv
<1>5. QED
    BY <1>3, <1>4 DEF BatchInv

\* Counting a take-off fills the batch by one, and the worker that fills it goes
\* to report it.
LEMMA CountTakeoffBatch ==
    ASSUME BatchInv, LockInv, NEW t \in Controllers, CountTakeoff(t)
    PROVE  BatchInv'
<1> USE BatchAssumption, TotalAssumption
<1>1. air_takeoffs \in Nat /\ total_takeoffs \in Nat
    BY DEF LockInv, AirTypeOK
<1>2. /\ pc[t] = "count"
      /\ pc'[t] = IF air_takeoffs + 1 = BATCH THEN "usr1" ELSE "unlock"
      /\ \A u \in Controllers : u # t => pc'[u] = pc[u]
    BY DEF CountTakeoff, Step, LockInv, AirTypeOK
<1>3. air_takeoffs' = air_takeoffs + 1 /\ total_takeoffs' = total_takeoffs + 1
    BY DEF CountTakeoff
<1>4. \A u \in Controllers : pc[u] # "usr1"
    BY <1>2, AloneInside DEF Critical
<1>5. air_takeoffs < BATCH
    BY <1>1, <1>4 DEF BatchInv
<1>6. air_takeoffs' = BATCH <=> \E u \in Controllers : pc'[u] = "usr1"
    BY <1>2, <1>3, <1>4
<1>7. \E k \in Nat : total_takeoffs' = air_takeoffs' + k * BATCH
    <2>1. PICK k \in Nat : total_takeoffs = air_takeoffs + k * BATCH
        BY DEF BatchInv
    <2>2. k * BATCH \in Nat
        OBVIOUS
    <2>3. total_takeoffs' = air_takeoffs' + k * BATCH
        BY <1>1, <1>3, <2>1, <2>2
    <2>4. QED
        BY <2>3
<1>8. \A u \in Controllers :
         /\ pc'[u] \in {"finish", "term", "leave", "done"} => total_takeoffs' >= TOTAL_TAKEOFFS
         /\ pc'[u] \in {"leave", "done"} => total_takeoffs' - air_takeoffs' >= TOTAL_TAKEOFFS
    BY <1>1, <1>2, <1>3 DEF BatchInv
<1>9. air_takeoffs' <= BATCH
    BY <1>1, <1>3, <1>5
<1>10. QED
    BY <1>6, <1>7, <1>8, <1>9 DEF BatchInv

\* Reporting empties the batch and adds it to those reported.
LEMMA ReportBatchBatch ==
    ASSUME BatchInv, LockInv, NEW t \in Controllers, ReportBatch(t)
    PROVE  BatchInv'
<1> USE BatchAssumption, TotalAssumption
<1>1. air_takeoffs \in Nat /\ total_takeoffs \in Nat
    BY DEF LockInv, AirTypeOK
<1>2. /\ pc[t] = "usr1" /\ pc'[t] = "unlock"
      /\ \A u \in Controllers : u # t => pc'[u] = pc[u]
    BY DEF ReportBatch, Step, LockInv, AirTypeOK
<1>3. air_takeoffs' = 0 /\ total_takeoffs' = total_takeoffs
    BY DEF ReportBatch
<1>4. air_takeoffs = BATCH
    BY <1>2 DEF BatchInv
<1>5. \A u \in Controllers : pc'[u] # "usr1"
    BY <1>2, AloneInside DEF Critical
<1>6. \E k \in Nat : total_takeoffs' = air_takeoffs' + k * BATCH
    <2>1. PICK k \in Nat : total_takeoffs = air_takeoffs + k * BATCH
        BY DEF BatchInv
    <2>2. k + 1 \in Nat /\ k * BATCH \in Nat /\ (k + 1) * BATCH = k * BATCH + BATCH
        OBVIOUS
    <2>3. total_takeoffs' = air_takeoffs' + (k + 1) * BATCH
        BY <1>3, <1>4, <2>1, <2>2
    <2>4. QED
        BY <2>2, <2>3
<1>7. \A u \in Controllers :
         /\ pc'[u] \in {"finish", "term", "leave", "done"} => total_takeoffs' >= TOTAL_TAKEOFFS
         /\ pc'[u] \in {"leave", "done"} => total_takeoffs' - air_takeoffs' >= TOTAL_TAKEOFFS
    BY <1>1, <1>2, <1>3 DEF BatchInv
<1>8. air_takeoffs' <= BATCH /\ air_takeoffs' # BATCH
    BY <1>3
<1>9. QED
    BY <1>5, <1>6, <1>7, <1>8 DEF BatchInv

\* No step of the airport breaks BatchInv.
LEMMA BatchStep ==
    ASSUME BatchInv, LockInv, WholeBatches, [Next]_vars
    PROVE  BatchInv'
<1>1. ASSUME NEW t \in Controllers, TakeoffWorker(t)
      PROVE  BatchInv'
    <2> USE DEF LockInv
    <2>1. CASE LoopTest(t)
        <3>1. UNCHANGED <<total_takeoffs, air_takeoffs>>
            BY <2>1 DEF LoopTest, countVars
        <3>2. CASE total_takeoffs < TOTAL_TAKEOFFS
            <4>1. Step(t, "loop", "planes")
                BY <2>1, <3>2 DEF LoopTest
            <4>2. QED
                BY <3>1, <4>1, QuietStep DEF Labels
        <3>3. CASE ~(total_takeoffs < TOTAL_TAKEOFFS)
            <4>1. Step(t, "loop", "finish")
                BY <2>1, <3>3 DEF LoopTest
            <4>2. total_takeoffs >= TOTAL_TAKEOFFS
                BY <3>3, TotalAssumption DEF AirTypeOK
            <4>3. QED
                BY <3>1, <4>1, <4>2, QuietStep DEF Labels
        <3>4. QED
            BY <3>2, <3>3
    <2>2. CASE QuickCheck(t)
        BY <2>2, QuietStep DEF QuickCheck, countVars, Labels
    <2>3. CASE TryRunway1(t)
        BY <2>3, QuietStep DEF TryRunway1, TryRunway, countVars, Labels
    <2>4. CASE TryRunway2(t)
        BY <2>4, QuietStep DEF TryRunway2, TryRunway, countVars, Labels
    <2>5. CASE Acquire(t, "lock", "recheck")
        BY <2>5, QuietStep DEF Acquire, countVars, Labels
    <2>6. CASE DoubleCheck(t)
        BY <2>6, QuietStep DEF DoubleCheck, Labels
    <2>7. CASE Release(t, "bail", "loop") \/ Release(t, "unlock", "release")
        BY <2>7, QuietStep DEF Release, countVars, Labels
    <2>8. CASE CountTakeoff(t)
        BY <2>8, CountTakeoffBatch
    <2>9. CASE ReportBatch(t)
        BY <2>9, ReportBatchBatch
    <2>10. CASE ReleaseRunway(t)
        BY <2>10, QuietStep DEF ReleaseRunway, countVars, Labels
    <2>11. CASE Acquire(t, "finish", "term")
        <3>1. total_takeoffs >= TOTAL_TAKEOFFS
            BY <2>11 DEF Acquire, Step, BatchInv
        <3>2. QED
            BY <2>11, <3>1, QuietStep DEF Acquire, countVars, Labels
    <2>12. CASE EndRadio(t)
        <3>1. total_takeoffs >= TOTAL_TAKEOFFS /\ total_takeoffs - air_takeoffs >= TOTAL_TAKEOFFS
            BY <2>12, AllReported DEF EndRadio, Step, BatchInv
        <3>2. QED
            BY <2>12, <3>1, QuietStep DEF EndRadio, countVars, Labels
    <2>13. CASE Release(t, "leave", "done")
        <3>1. total_takeoffs >= TOTAL_TAKEOFFS /\ total_takeoffs - air_takeoffs >= TOTAL_TAKEOFFS
            BY <2>13 DEF Release, Step, BatchInv
        <3>2. QED
            BY <2>13, <3>1, QuietStep DEF Release, countVars, Labels
    <2>14. QED
        BY <1>1, <2>1, <2>2, <2>3, <2>4, <2>5, <2>6, <2>7, <2>8, <2>9, <2>10, <2>11, <2>12, <2>13
        DEF TakeoffWorker
<1>2. CASE ~(\E t \in Controllers : TakeoffWorker(t))
    <2>1. UNCHANGED <<total_takeoffs, air_takeoffs>> /\ (UNCHANGED pc \/ StartThreads)
        BY <1>2, OtherCounts DEF LockInv
    <2>2. CASE UNCHANGED pc
        BY <2>1, <2>2 DEF BatchInv
    <2>3. CASE StartThreads
        <3>1. \A t \in Controllers : pc[t] = "idle" /\ pc'[t] = "loop"
            BY <2>3 DEF StartThreads, MainStep, LockInv, IdleUntilStarted
        <3>2. QED
            BY <2>1, <3>1 DEF BatchInv
    <2>4. QED
        BY <2>1, <2>2, <2>3
<1>3. QED
    BY <1>1, <1>2

\* BatchInv is an invariant of an airport with no more workers than a batch.
LEMMA BatchInvariant ==
    ASSUME WholeBatches
    PROVE  Spec => []BatchInv
<1>1. Init => BatchInv
    <2>1. SUFFICES ASSUME Init PROVE BatchInv
        OBVIOUS
    <2>2. air_takeoffs = 0 /\ total_takeoffs = 0 /\ \A t \in Controllers : pc[t] = "idle"
        BY <2>1 DEF Init, AirInit
    <2>3. 0 \in Nat /\ 0 * BATCH = 0 /\ 0 < BATCH
        BY BatchAssumption
    <2>4. total_takeoffs = air_takeoffs + 0 * BATCH
        BY <2>2, <2>3
    <2>5. \E k \in Nat : total_takeoffs = air_takeoffs + k * BATCH
        BY <2>3, <2>4
    <2>6. air_takeoffs <= BATCH /\ air_takeoffs # BATCH
        BY <2>2, <2>3, BatchAssumption
    <2>7. QED
        BY <2>2, <2>5, <2>6 DEF BatchInv
<1>2. BatchInv /\ LockInv /\ [Next]_vars => BatchInv'
    BY BatchStep
<1>3. QED
    BY <1>1, <1>2, LocksInvariant, PTL DEF Spec

\* Whoever ended the radio did it after every batch was reported, and no batch
\* will be full again: the few take-offs beyond TOTAL_TAKEOFFS do not make one.
LEMMA ClosedForGood ==
    ASSUME BatchInv, CommittedBounded, LockInv, WholeBatches,
           NEW t \in Controllers, pc[t] = "usr1"
    PROVE  ~Closed
<1> USE BatchAssumption, TotalAssumption
<1>1. air_takeoffs \in Nat /\ total_takeoffs \in Nat
    BY DEF LockInv, AirTypeOK
<1>2. air_takeoffs = BATCH
    BY DEF BatchInv
<1>3. total_takeoffs - air_takeoffs <= TOTAL_TAKEOFFS - 1
    BY <1>1, <1>2, CommittedSize DEF CommittedBounded, WholeBatches
<1>4. QED
    BY <1>1, <1>3 DEF BatchInv, Closed

\* The radio is ended after the last batch is reported to it (TermAfterLastBatch):
\* main.py takes the lock for that, and functions.c does not.
THEOREM NothingAfterTerm ==
    ASSUME WholeBatches
    PROVE  Spec => []TermAfterLastBatch
<1>1. BatchInv /\ CommittedBounded /\ LockInv => TermAfterLastBatch
    BY ClosedForGood DEF TermAfterLastBatch, Closed
<1>2. QED
    BY <1>1, BatchInvariant, CommittedInvariant, LocksInvariant, PTL

-----------------------------------------------------------------------------
(* Refinement of Departures *)

\* A worker's step that leaves Counting, Closed and the counts alone stutters.
LEMMA Stutter ==
    ASSUME UNCHANGED countVars, Counting' = Counting, Closed' = Closed
    PROVE  UNCHANGED D!departureVars
BY DEF countVars, D!departureVars

\* Taking a plane under the lock is a departure: the plane is there, and the
\* worker was committed.
LEMMA DepartStep ==
    ASSUME LockInv, CommittedBounded, NEW t \in Controllers, DoubleCheck(t)
    PROVE  D!Depart \/ UNCHANGED D!departureVars
<1>1. air_planes \in Int /\ total_takeoffs \in Nat /\ pc \in [Controllers -> Labels]
    BY DEF LockInv, AirTypeOK
<1>2. pc[t] = "recheck" /\ UNCHANGED <<air_takeoffs, total_takeoffs>>
    BY DEF DoubleCheck, Step
<1>3. Counting = {}
    BY <1>2, AloneInside DEF Counting, Critical
<1>4. CASE air_planes <= 0
    <2>1. pc' = [pc EXCEPT ![t] = "bail"] /\ UNCHANGED air_planes
        BY <1>1, <1>4 DEF DoubleCheck, Step
    <2>2. Counting' = {} /\ Closed' = Closed
        BY <1>1, <1>2, <1>3, <2>1 DEF Counting, Closed
    <2>3. QED
        BY <1>2, <1>3, <2>1, <2>2, Stutter DEF countVars
<1>5. CASE air_planes > 0
    <2>1. pc' = [pc EXCEPT ![t] = "count"] /\ air_planes' = air_planes - 1
        BY <1>1, <1>5 DEF DoubleCheck, Step
    <2>2. Counting' = {t} /\ Closed' = Closed
        BY <1>1, <1>2, <1>3, <2>1 DEF Counting, Closed
    <2>3. Cardinality(Counting) = 0 /\ Cardinality(Counting') = 1
        BY <1>3, <2>2, FS_EmptySet, FS_Singleton
    <2>4. Cardinality(Committed) # 0
        BY <1>2, CommittedSize, FS_EmptySet DEF Committed
    <2>5. total_takeoffs < TOTAL_TAKEOFFS + (Cardinality(Controllers) - 1)
        BY <1>1, <2>4, CommittedSize, TotalAssumption DEF CommittedBounded
    <2>6. QED
        BY <1>1, <1>2, <1>5, <2>1, <2>2, <2>3, <2>5 DEF D!Depart
<1>6. QED
    BY <1>1, <1>4, <1>5

\* Counting a take-off changes nothing of the promise: the plane has gone, and
\* the batch is not reported yet.
LEMMA CountStep ==
    ASSUME LockInv, NEW t \in Controllers, CountTakeoff(t)
    PROVE  UNCHANGED D!departureVars
<1>1. air_takeoffs \in Nat /\ total_takeoffs \in Nat /\ pc \in [Controllers -> Labels]
    BY DEF LockInv, AirTypeOK
<1>2. /\ pc[t] = "count"
      /\ pc' = [pc EXCEPT ![t] = IF air_takeoffs + 1 = BATCH THEN "usr1" ELSE "unlock"]
      /\ air_takeoffs' = air_takeoffs + 1
      /\ total_takeoffs' = total_takeoffs + 1
      /\ UNCHANGED air_planes
    BY DEF CountTakeoff, Step
<1>3. \A u \in Controllers : pc[u] = "count" => u = t
    BY <1>2, AloneInside DEF Critical
<1>4. Counting = {t} /\ Counting' = {} /\ Closed' = Closed
    BY <1>1, <1>2, <1>3 DEF Counting, Closed
<1>5. Cardinality(Counting) = 1 /\ Cardinality(Counting') = 0
    BY <1>4, FS_EmptySet, FS_Singleton
<1>6. QED
    BY <1>1, <1>2, <1>4, <1>5 DEF D!departureVars

\* Signalling the radio reports a full batch, while the day is open.
LEMMA ReportStep ==
    ASSUME BatchInv, CommittedBounded, LockInv, WholeBatches,
           NEW t \in Controllers, ReportBatch(t)
    PROVE  D!Report
<1> USE BatchAssumption
<1>1. total_takeoffs \in Nat /\ pc \in [Controllers -> Labels]
    BY DEF LockInv, AirTypeOK
<1>2. /\ pc[t] = "usr1" /\ pc' = [pc EXCEPT ![t] = "unlock"]
      /\ air_takeoffs' = 0 /\ UNCHANGED <<air_planes, total_takeoffs>>
    BY DEF ReportBatch, Step
<1>3. air_takeoffs = BATCH /\ ~Closed
    BY <1>2, ClosedForGood DEF BatchInv
<1>4. Counting = {} /\ Counting' = {} /\ ~Closed'
    BY <1>1, <1>2, <1>3, AloneInside DEF Counting, Closed, Critical
<1>5. Cardinality(Counting) = 0 /\ Cardinality(Counting') = 0
    BY <1>4, FS_EmptySet
<1>6. total_takeoffs + Cardinality(Counting) >= (total_takeoffs - air_takeoffs) + BATCH
    BY <1>1, <1>3, <1>5
<1>7. total_takeoffs' - air_takeoffs' = (total_takeoffs - air_takeoffs) + BATCH
    BY <1>1, <1>2, <1>3
<1>8. total_takeoffs' + Cardinality(Counting') = total_takeoffs + Cardinality(Counting)
    BY <1>2, <1>5
<1>9. Closed' = Closed
    BY <1>3, <1>4 DEF Closed
<1>10. QED
    BY <1>2, <1>3, <1>6, <1>7, <1>8, <1>9 DEF D!Report

\* Ending the radio closes the day, with everything reported.
LEMMA CloseStep ==
    ASSUME BatchInv, LockInv, WholeBatches, NEW t \in Controllers, EndRadio(t)
    PROVE  D!Close
<1>1. pc \in [Controllers -> Labels] /\ pc[t] = "term" /\ pc' = [pc EXCEPT ![t] = "leave"]
    BY DEF EndRadio, Step, LockInv, AirTypeOK
<1>2. UNCHANGED <<air_planes, air_takeoffs, total_takeoffs>>
    BY DEF EndRadio, countVars
<1>3. total_takeoffs - air_takeoffs >= TOTAL_TAKEOFFS
    BY <1>1, AllReported
<1>4. Counting' = Counting /\ Closed' = TRUE
    BY <1>1 DEF Counting, Closed
<1>5. QED
    BY <1>2, <1>3, <1>4 DEF D!Close

\* The other steps of a worker stutter.
LEMMA WorkerStutters ==
    ASSUME LockInv, NEW t \in Controllers, TakeoffWorker(t),
           ~DoubleCheck(t), ~CountTakeoff(t), ~ReportBatch(t), ~EndRadio(t)
    PROVE  UNCHANGED D!departureVars
<1>1. pc \in [Controllers -> Labels]
    BY DEF LockInv, AirTypeOK
<1>2. \E from, to \in Labels \ {"count"} :
          /\ Step(t, from, to)
          /\ from \in {"leave", "done"} <=> to \in {"leave", "done"}
    <2>1. CASE LoopTest(t) \/ QuickCheck(t)
        BY <2>1 DEF LoopTest, QuickCheck, Labels
    <2>2. CASE TryRunway1(t) \/ TryRunway2(t)
        BY <2>2 DEF TryRunway1, TryRunway2, TryRunway, Labels
    <2>3. CASE Acquire(t, "lock", "recheck") \/ Acquire(t, "finish", "term")
        BY <2>3 DEF Acquire, Labels
    <2>4. CASE Release(t, "bail", "loop") \/ Release(t, "unlock", "release")
               \/ Release(t, "leave", "done")
        BY <2>4 DEF Release, Labels
    <2>5. CASE ReleaseRunway(t)
        BY <2>5 DEF ReleaseRunway, Labels
    <2>6. QED
        BY <2>1, <2>2, <2>3, <2>4, <2>5 DEF TakeoffWorker
<1>3. Counting' = Counting /\ Closed' = Closed
    BY <1>1, <1>2 DEF Step, Counting, Closed
<1>4. QED
    BY <1>3, WorkerCounts, Stutter

\* Planes arrive when the signal handler has counted them; nothing else that is
\* not a worker's changes the promise.
LEMMA OthersStep ==
    ASSUME LockInv, [Next]_vars, ~(\E t \in Controllers : TakeoffWorker(t))
    PROVE  D!Arrive \/ UNCHANGED D!departureVars
<1>1. /\ UNCHANGED <<total_takeoffs, air_takeoffs>>
      /\ air_planes' = air_planes \/ air_planes' = air_planes + BATCH
      /\ UNCHANGED pc \/ StartThreads
    BY OtherCounts DEF LockInv
<1>2. Counting' = Counting /\ Closed' = Closed
    <2>1. CASE UNCHANGED pc
        BY <2>1 DEF Counting, Closed
    <2>2. CASE StartThreads
        <3>1. \A t \in Controllers : pc[t] = "idle" /\ pc'[t] = "loop"
            BY <2>2 DEF StartThreads, MainStep, LockInv, IdleUntilStarted
        <3>2. QED
            BY <3>1 DEF Counting, Closed
    <2>3. QED
        BY <1>1, <2>1, <2>2
<1>3. QED
    BY <1>1, <1>2 DEF D!Arrive, D!departureVars

\* The Python air control implements Departures (KeepsPromise), for any number of
\* workers up to a batch and any number of whole batches.
THEOREM Refinement ==
    ASSUME WholeBatches
    PROVE  Spec => KeepsPromise
<1>1. Init => D!DeparturesInit
    <2>1. SUFFICES ASSUME Init PROVE D!DeparturesInit
        OBVIOUS
    <2>2. /\ air_planes = 0 /\ air_takeoffs = 0 /\ total_takeoffs = 0
          /\ \A t \in Controllers : pc[t] = "idle"
        BY <2>1 DEF Init, AirInit
    <2>3. Counting = {} /\ ~Closed
        BY <2>2 DEF Counting, Closed
    <2>4. Cardinality(Counting) = 0
        BY <2>3, FS_EmptySet
    <2>5. QED
        BY <2>2, <2>3, <2>4 DEF D!DeparturesInit
<1>2. LockInv /\ CommittedBounded /\ BatchInv /\ [Next]_vars
          => [D!DeparturesNext]_(D!departureVars)
    <2>1. SUFFICES ASSUME LockInv, CommittedBounded, BatchInv, [Next]_vars
                   PROVE  D!DeparturesNext \/ UNCHANGED D!departureVars
        OBVIOUS
    <2>2. ASSUME NEW t \in Controllers, TakeoffWorker(t)
          PROVE  D!DeparturesNext \/ UNCHANGED D!departureVars
        BY <2>1, <2>2, DepartStep, CountStep, ReportStep, CloseStep, WorkerStutters
        DEF D!DeparturesNext
    <2>3. CASE ~(\E t \in Controllers : TakeoffWorker(t))
        BY <2>1, <2>3, OthersStep DEF D!DeparturesNext
    <2>4. QED
        BY <2>2, <2>3
<1>3. QED
    BY <1>1, <1>2, LocksInvariant, CommittedInvariant, BatchInvariant, PTL
    DEF Spec, KeepsPromise, D!DeparturesSpec

-----------------------------------------------------------------------------
(* The slots of the shared memory *)

Creating == {"create", "truncate", "zero0", "zero1", "zero2", "store"}
Starting == {"create", "truncate", "zero0", "zero1", "zero2", "store", "popen", "slot", "signal"}

\* How far air control has to be for what the slots and the other programs show.
Slots ==
    /\ main_pc \notin Creating => shm["air"] = "pid"
    /\ main_pc \notin Creating \cup {"popen", "slot"} => shm["radio"] = "pid"
    /\ main_pc \in Creating \cup {"popen"} => status["radio"] = "new"
    /\ "USR2" \in handled["air"] => main_pc \notin Starting
    /\ main_pc \in {"store", "popen", "slot", "signal", "spawn", "wait"} =>
           shm["ground"] \in {"zero", "pid"}
    /\ main_pc \in {"join", "exit"} => shm["ground"] = "pid"
    /\ Up("ground") => ground_pc # "start"
    /\ status["ground"] = "new" => ground_pc = "start"

\* Ground control has come and its pid is gone: air control has zeroed the slot
\* since.  That is for ever, because ground control stores it only once.
Erased == ground_pc # "start" /\ shm["ground"] # "pid"

\* Ground control's timer waits for the others.
Prompt ==
    ground_planes > 0 \/ "ALRM" \in pending["ground"] \/ (\E m \in 0 .. 2 : Frame("ground", "ALRM", m))
        => ground_pc = "run" /\ main_pc \notin Starting

-----------------------------------------------------------------------------
(* The counts *)

\* The planes of the signals that the handler's runs have been called for, and
\* the plane of a worker that has taken it and not counted it: at most one, since
\* it holds the lock.
Called == BATCH * Len(handlers)
Taken == IF Counting = {} THEN 0 ELSE 1

\* On the way from ground control to the radio, from there to air control, and
\* back: each signal, frame or flag that is still to be counted is a batch.
PlanesAnnounced ==
    radio_planes + Credit(Frame("ground", "ALRM", 1)) + Credit("USR2" \in pending["radio"])
        + Credit(Frame("radio", "USR2", 0)) <= ground_planes

PlanesForwarded ==
    air_planes + total_takeoffs + Taken + Called
        + Credit(tripped) + Credit("USR2" \in pending["air"]) + Credit(Frame("radio", "USR2", 1))
        <= radio_planes

TakeoffsReported ==
    radio_takeoffs + air_takeoffs + Credit("USR1" \in pending["radio"])
        + Credit(Frame("radio", "USR1", 0)) <= total_takeoffs

TakeoffsForwarded ==
    ground_takeoffs + Credit("USR1" \in pending["ground"]) + Credit(Frame("ground", "USR1", 0))
        + Credit(Frame("radio", "USR1", 1)) <= radio_takeoffs

Backed == PlanesAnnounced /\ PlanesForwarded /\ TakeoffsReported /\ TakeoffsForwarded

\* A worker that reports has a whole batch to report.
FullBatch == \A t \in Controllers : pc[t] = "usr1" => air_takeoffs = BATCH

\* What is known of a state of which the counts are to be proved.
Known == TypeOK /\ LockInv /\ Slots /\ PlanesNonNegative /\ ~Erased

CountInv == OneFrameEach /\ Prompt /\ FullBatch /\ Backed

-----------------------------------------------------------------------------
(* The slots keep their pids *)

LEMMA SlotsMain == ASSUME TypeOK, Slots, AirMain, UNCHANGED groundVars PROVE Slots'
<1> USE DEF OSTypeOK, Slots, Creating, Starting, MainStep, Up, Procs, groundVars
<1>0. OSTypeOK /\ AirTypeOK BY DEF TypeOK
<1>1. CASE CreateSharedMemory
  <2>1. UNCHANGED handled BY <1>1 DEF CreateSharedMemory
  <2>2. CASE OpenMemory BY <1>0, <2>1, <2>2 DEF OpenMemory
  <2>3. CASE SizeMemory BY <1>0, <2>1, <2>3 DEF SizeMemory
  <2>4. CASE ZeroSlots BY <1>0, <2>1, <2>4 DEF ZeroSlots, SetSlot
  <2>5. CASE StoreAirPid BY <1>0, <2>1, <2>5 DEF StoreAirPid, SetSlot
  <2> QED BY <1>1, <2>2, <2>3, <2>4, <2>5 DEF CreateSharedMemory
<1>2. CASE PopenRadio BY <1>0, <1>2 DEF PopenRadio
<1>3. CASE StoreRadioPid BY <1>0, <1>3 DEF StoreRadioPid
<1>4. CASE InstallHandler BY <1>0, <1>4 DEF InstallHandler
<1>5. CASE StartThreads BY <1>0, <1>5 DEF StartThreads
<1>6. CASE WaitForGround BY <1>0, <1>6 DEF WaitForGround
<1>7. CASE JoinAndCleanUp BY <1>0, <1>7 DEF JoinAndCleanUp
<1> QED BY <1>1, <1>2, <1>3, <1>4, <1>5, <1>6, <1>7 DEF AirMain

LEMMA SlotsKept ==
    ASSUME TypeOK, Slots, UNCHANGED <<main_pc, shm>>,
           ground_pc' = ground_pc \/ (Up("ground") /\ ground_pc # "start" /\ ground_pc' # "start"),
           \A p \in Procs : status'[p] = status[p] \/ (status[p] = "up" /\ status'[p] = "dead"),
           "USR2" \in handled'["air"] => "USR2" \in handled["air"]
    PROVE  Slots'
BY DEF TypeOK, OSTypeOK, Slots, Creating, Up, Procs

\* An exit ends a process that is up.
LEMMA ExitSlots ==
    ASSUME TypeOK, NEW p \in Procs, Up(p), Exit(p)
    PROVE  \A q \in Procs : status'[q] = status[q] \/ (status[q] = "up" /\ status'[q] = "dead")
BY DEF TypeOK, OSTypeOK, Exit, Up

LEMMA SlotsStep == ASSUME TypeOK, Slots, [Next]_vars PROVE Slots'
<1> USE DEF Procs
<1>1. CASE AirMain /\ UNCHANGED groundVars BY <1>1, SlotsMain
<1>2. ASSUME NEW t \in Controllers, TakeoffWorker(t), UNCHANGED groundVars PROVE Slots'
  BY <1>2, SlotsKept DEF TakeoffWorker, groundVars
<1>3. CASE SigUsr2Handler /\ UNCHANGED groundVars
  <2>1. handled' = handled \/ "USR2" \notin handled'["air"]
    BY <1>3 DEF SigUsr2Handler, Trip, CallHandler, HandlerLocks, HandlerReturns, Take, TypeOK, OSTypeOK
  <2> QED BY <1>3, <2>1, SlotsKept DEF SigUsr2Handler, groundVars
<1>4. ASSUME NEW p \in Procs, DefaultAction(p), UNCHANGED <<main_pc, ground_pc>> PROVE Slots'
  BY <1>4, SlotsKept, ExitSlots DEF DefaultAction
<1>5. ASSUME NEW p \in Procs, NEW s \in Signals, EnterHandler(p, s), UNCHANGED <<main_pc, ground_pc>>
      PROVE  Slots'
  <2>1. "USR2" \in handled'["air"] => "USR2" \in handled["air"]
    BY <1>5 DEF EnterHandler, Take, TypeOK, OSTypeOK
  <2> QED BY <1>5, <2>1, SlotsKept DEF EnterHandler
<1>6. CASE RadioNext /\ UNCHANGED <<airVars, groundVars>>
  <2> USE <1>6 DEF airVars, groundVars
  <2>1. CASE RadioOpen BY <2>1, SlotsKept, ExitSlots DEF RadioOpen
  <2>2. CASE RadioInstall
    <3>1. handled'["air"] = handled["air"] BY <2>2 DEF RadioInstall, Install, TypeOK, OSTypeOK
    <3> QED BY <2>2, <3>1, SlotsKept DEF RadioInstall
  <2>3. CASE RadioQuit BY <2>3, SlotsKept, ExitSlots DEF RadioQuit, InMain
  <2>4. ASSUME NEW s \in Signals, RadioSignal(s) PROVE Slots' BY <2>4, <1>5 DEF RadioSignal
  <2>5. CASE RadioHandlers
    <3>1. CASE UNCHANGED <<shm, linked, status, handled>> BY <3>1, SlotsKept
    <3>2. CASE RadioUnlink /\ UNCHANGED <<shm, handled>>
      BY <3>2, SlotsKept, ExitSlots DEF RadioUnlink, Running
    <3> QED BY <2>5, <3>1, <3>2 DEF RadioHandlers, RadioSigTerm, RadioReport, RadioDismissGround
  <2>6. CASE DefaultAction("radio") BY <2>6, <1>4
  <2> QED BY <2>1, <2>2, <2>3, <2>4, <2>5, <2>6 DEF RadioNext
<1>7. CASE GroundNext /\ UNCHANGED <<radioVars, airVars>>
  <2> USE <1>7 DEF airVars, groundVars
  <2>1. CASE MemoryOpen BY <2>1 DEF MemoryOpen, TypeOK, OSTypeOK, Slots, Up
  <2>2. CASE GroundInstall
    <3>1. handled'["air"] = handled["air"] BY <2>2 DEF GroundInstall, Install, TypeOK, OSTypeOK
    <3>2. Up("ground") /\ ground_pc # "start" /\ ground_pc' # "start"
      BY <2>2 DEF GroundInstall, Install, InMain
    <3> QED BY <2>2, <3>1, <3>2, SlotsKept DEF GroundInstall
  <2>3. CASE GroundTimer BY <2>3, SlotsKept DEF GroundTimer
  <2>4. ASSUME NEW s \in Signals, GroundSignal(s) PROVE Slots' BY <2>4, <1>5 DEF GroundSignal
  <2>5. CASE Traffic BY <2>5, SlotsKept DEF Traffic
  <2>6. CASE GroundSigHandler1 BY <2>6, SlotsKept DEF GroundSigHandler1
  <2>7. CASE SigHandlerTerm BY <2>7, SlotsKept, ExitSlots DEF SigHandlerTerm, Running
  <2>8. CASE DefaultAction("ground") /\ UNCHANGED groundVars BY <2>8, <1>4
  <2> QED BY <2>1, <2>2, <2>3, <2>4, <2>5, <2>6, <2>7, <2>8 DEF GroundNext
<1>8. CASE UNCHANGED vars
  BY <1>8, SlotsKept DEF vars, osVars, groundVars, airVars
<1>9. CASE DefaultAction("air") /\ UNCHANGED <<radioVars, airVars, groundVars>>
  BY <1>9, <1>4 DEF airVars, groundVars
<1> QED BY <1>1, <1>2, <1>3, <1>6, <1>7, <1>8, <1>9 DEF Next, AirNext

LEMMA SlotsInvariant == Spec => []Slots
<1>1. Init => Slots
  <2> SUFFICES ASSUME Init PROVE Slots
    OBVIOUS
  <2>1. \A p \in Procs : status[p] = "new" /\ handled[p] = {}
    BY DEF Init, OSInit
  <2>2. main_pc = "create" /\ ground_pc = "start"
    BY DEF Init, AirInit, GroundInit
  <2> QED BY <2>1, <2>2 DEF Slots, Creating, Up, Procs
<1>2. TypeOK /\ Slots /\ [Next]_vars => Slots' BY SlotsStep
<1> QED BY <1>1, <1>2, TypeCorrect, PTL DEF Spec

\* Air control's wait for ground control ends only when ground control has stored
\* its pid (GroundAwaited): in any order the programs start, whatever an earlier
\* run has left, and although ground control may come while air control is still
\* making the memory.
THEOREM GroundIsAwaited == Spec => []GroundAwaited
<1>1. Slots => GroundAwaited BY DEF Slots, GroundAwaited
<1> QED BY <1>1, SlotsInvariant, PTL

\* What air control has erased stays erased.
LEMMA ErasedForGood == ASSUME TypeOK, Slots, Erased, [Next]_vars PROVE Erased'
<1> USE DEF Procs, Erased
<1>0. OSTypeOK BY DEF TypeOK
<1>1. CASE UNCHANGED <<shm, ground_pc>> BY <1>1
<1>2. CASE AirMain /\ UNCHANGED groundVars
  <2>1. shm'["ground"] \in {shm["ground"], "zero"}
    <3>1. CASE CreateSharedMemory
      BY <1>0, <3>1 DEF CreateSharedMemory, OpenMemory, SizeMemory, GiveSize, ZeroSlots, StoreAirPid,
         SetSlot, OSTypeOK
    <3>2. CASE StoreRadioPid BY <1>0, <3>2 DEF StoreRadioPid, OSTypeOK
    <3> QED BY <1>2, <3>1, <3>2
        DEF AirMain, PopenRadio, InstallHandler, StartThreads, WaitForGround, JoinAndCleanUp
  <2> QED BY <1>2, <2>1 DEF groundVars
<1>3. CASE GroundNext /\ UNCHANGED <<radioVars, airVars>>
  <2>1. ~MemoryOpen BY DEF MemoryOpen, Slots
  <2>2. CASE GroundInstall BY <2>2 DEF GroundInstall
  <2>3. CASE ~GroundInstall
    BY <1>1, <1>3, <2>1, <2>3
    DEF GroundNext, GroundTimer, GroundSignal, EnterHandler, Traffic, GroundSigHandler1,
        SigHandlerTerm, DefaultAction, groundVars
  <2> QED BY <2>2, <2>3
<1>4. CASE AirNext /\ ~AirMain /\ UNCHANGED groundVars
  BY <1>1, <1>4 DEF AirNext, TakeoffWorker, SigUsr2Handler, DefaultAction, groundVars
<1>5. CASE RadioNext /\ UNCHANGED <<airVars, groundVars>>
  BY <1>1, <1>5 DEF RadioNext, RadioOpen, RadioInstall, RadioQuit, RadioSignal, EnterHandler,
     RadioHandlers, RadioSigTerm, DefaultAction, groundVars
<1>6. CASE UNCHANGED vars BY <1>1, <1>6 DEF vars, osVars, groundVars
<1> QED BY <1>2, <1>3, <1>4, <1>5, <1>6 DEF Next

-----------------------------------------------------------------------------
(* What leaves the counts backed *)

\* The numbers that Backed adds up.
LEMMA Numbers ==
    ASSUME TypeOK
    PROVE  /\ ground_planes \in Nat /\ radio_planes \in Nat /\ air_planes \in Int
           /\ total_takeoffs \in Nat /\ air_takeoffs \in Nat
           /\ radio_takeoffs \in Nat /\ ground_takeoffs \in Nat
           /\ Called \in Nat /\ Taken \in Nat
           /\ \A b \in BOOLEAN : Credit(b) \in Nat
<1>1. Len(handlers) \in Nat
  <2>1. handlers \in Seq({"wait", "held"}) BY DEF TypeOK, AirTypeOK
  <2> QED BY <2>1
<1> QED BY <1>1, BatchAssumption DEF TypeOK, GroundTypeOK, RadioTypeOK, AirTypeOK, Called, Taken, Credit

LEMMA AnnouncedKept ==
    ASSUME TypeOK, TypeOK', PlanesAnnounced, Quiet("USR2"), Quiet("ALRM"),
           UNCHANGED <<radio_planes, ground_planes>>
    PROVE  PlanesAnnounced'
BY Numbers, BatchAssumption DEF PlanesAnnounced, Quiet, Credit, Procs

LEMMA ForwardedKept ==
    ASSUME TypeOK, TypeOK', PlanesForwarded, Quiet("USR2"),
           UNCHANGED <<radio_planes, air_planes, total_takeoffs, Taken, Called, tripped>>
    PROVE  PlanesForwarded'
BY Numbers, BatchAssumption DEF PlanesForwarded, Quiet, Credit, Procs

LEMMA ReportedKept ==
    ASSUME TypeOK, TypeOK', TakeoffsReported, Quiet("USR1"),
           UNCHANGED <<radio_takeoffs, air_takeoffs, total_takeoffs>>
    PROVE  TakeoffsReported'
BY Numbers, BatchAssumption DEF TakeoffsReported, Quiet, Credit, Procs

LEMMA BackKept ==
    ASSUME TypeOK, TypeOK', TakeoffsForwarded, Quiet("USR1"),
           UNCHANGED <<radio_takeoffs, ground_takeoffs>>
    PROVE  TakeoffsForwarded'
BY Numbers, BatchAssumption DEF TakeoffsForwarded, Quiet, Credit, Procs

LEMMA PromptKept ==
    ASSUME Prompt, Quiet("ALRM"), UNCHANGED <<ground_planes, ground_pc, main_pc>>
    PROVE  Prompt'
BY DEF Prompt, Quiet, Procs, Starting

LEMMA FullBatchKept ==
    ASSUME FullBatch, UNCHANGED <<pc, air_takeoffs>>
    PROVE  FullBatch'
BY DEF FullBatch

\* Once planes are on their way, everybody is there: air control has started and
\* ground control's pid is in its slot.
LEMMA UnderWay ==
    ASSUME Known, CountInv, ground_planes > 0 \/ radio_planes > 0 \/ radio_takeoffs > 0
    PROVE  /\ ground_planes > 0
           /\ shm["ground"] = "pid" /\ shm["radio"] = "pid" /\ shm["air"] = "pid"
<1>1. radio_takeoffs > 0 => radio_planes > 0
  BY Numbers, BatchAssumption DEF Known, CountInv, Backed, PlanesForwarded, TakeoffsReported,
     PlanesNonNegative, Credit
<1>2. radio_planes > 0 => ground_planes > 0
  BY Numbers, BatchAssumption DEF Known, CountInv, Backed, PlanesAnnounced, Credit
<1>3. ground_planes > 0 BY <1>1, <1>2
<1> QED BY <1>3 DEF Known, CountInv, Prompt, Slots, Starting, Creating, Erased

-----------------------------------------------------------------------------
(* The radio *)

\* What is air control's stays when the radio or ground control steps.
LEMMA AirCountsKept ==
    ASSUME UNCHANGED airVars
    PROVE  UNCHANGED <<main_pc, air_planes, air_takeoffs, total_takeoffs, pc, tripped, Taken, Called>>
BY DEF airVars, countVars, threadVars, handlerVars, Taken, Called, Counting

\* A step that posts nothing, delivers nothing and counts nothing.
LEMMA NothingHappens ==
    ASSUME Known, TypeOK', CountInv, OneFrameEach', \A s \in Signals : Quiet(s),
           UNCHANGED <<radio_planes, radio_takeoffs, ground_planes, ground_takeoffs, ground_pc, airVars>>
    PROVE  CountInv'
<1>1. Quiet("USR1") /\ Quiet("USR2") /\ Quiet("ALRM") BY DEF Signals
<1> QED BY <1>1, AirCountsKept, AnnouncedKept, ForwardedKept, ReportedKept, BackKept, PromptKept,
           FullBatchKept DEF Known, CountInv, Backed

\* A signal reaches the radio.
LEMMA RadioDelivery ==
    ASSUME Known, TypeOK', CountInv, NEW s \in Signals, EnterHandler("radio", s),
           UNCHANGED <<radioVars, groundVars, airVars>>
    PROVE  CountInv'
<1>1. /\ OneFrameEach'
      /\ \A r \in Signals : r # s => Quiet(r)
      /\ s \in pending["radio"] /\ s \notin pending'["radio"]
      /\ \A m \in 0 .. 2 : ~Frame("radio", s, m) /\ (Frame("radio", s, m)' <=> m = 0)
      /\ \A q \in Procs : q # "radio" =>
            /\ s \in pending'[q] <=> s \in pending[q]
            /\ \A m \in 0 .. 2 : Frame(q, s, m)' <=> Frame(q, s, m)
  BY Delivery DEF Known, TypeOK, CountInv, Procs
<1>2. UNCHANGED <<radio_planes, radio_takeoffs, ground_planes, ground_takeoffs, ground_pc>>
  BY DEF radioVars, groundVars
<1>3. PlanesAnnounced'
  <2>1. CASE s = "USR2"
    <3>1. Quiet("ALRM") BY <2>1, <1>1 DEF Signals
    <3> QED BY <2>1, <3>1, <1>1, <1>2, Numbers, BatchAssumption
            DEF Known, CountInv, Backed, PlanesAnnounced, Quiet, Credit, Procs
  <2>2. CASE s = "ALRM"
    <3>1. Quiet("USR2") BY <2>2, <1>1 DEF Signals
    <3> QED BY <2>2, <3>1, <1>1, <1>2, Numbers, BatchAssumption
            DEF Known, CountInv, Backed, PlanesAnnounced, Quiet, Credit, Procs
  <2>3. CASE s \notin {"USR2", "ALRM"}
    BY <2>3, <1>1, <1>2, AnnouncedKept DEF Known, CountInv, Backed, Signals
  <2> QED BY <2>1, <2>2, <2>3
<1>4. PlanesForwarded'
  <2>1. CASE s = "USR2"
    BY <2>1, <1>1, <1>2, AirCountsKept, Numbers, BatchAssumption
    DEF Known, CountInv, Backed, PlanesForwarded, Credit, Procs
  <2>2. CASE s # "USR2"
    BY <2>2, <1>1, <1>2, AirCountsKept, ForwardedKept DEF Known, CountInv, Backed, Signals
  <2> QED BY <2>1, <2>2
<1>5. TakeoffsReported'
  <2>1. CASE s = "USR1"
    BY <2>1, <1>1, <1>2, AirCountsKept, Numbers, BatchAssumption
    DEF Known, CountInv, Backed, TakeoffsReported, Credit, Procs
  <2>2. CASE s # "USR1"
    BY <2>2, <1>1, <1>2, AirCountsKept, ReportedKept DEF Known, CountInv, Backed, Signals
  <2> QED BY <2>1, <2>2
<1>6. TakeoffsForwarded'
  <2>1. CASE s = "USR1"
    BY <2>1, <1>1, <1>2, Numbers, BatchAssumption
    DEF Known, CountInv, Backed, TakeoffsForwarded, Credit, Procs
  <2>2. CASE s # "USR1"
    BY <2>2, <1>1, <1>2, BackKept DEF Known, CountInv, Backed, Signals
  <2> QED BY <2>1, <2>2
<1>7. Prompt'
  BY <1>1, <1>2, AirCountsKept DEF CountInv, Prompt, Quiet, Procs, Signals, Starting
<1>8. FullBatch' BY AirCountsKept, FullBatchKept DEF CountInv
<1> QED BY <1>1, <1>3, <1>4, <1>5, <1>6, <1>7, <1>8 DEF CountInv, Backed

\* The radio counts planes, and announces them to air control.
LEMMA RadioPlanes ==
    ASSUME Known, TypeOK', CountInv, RadioSigHandler2,
           UNCHANGED <<groundVars, airVars>>
    PROVE  CountInv'
<1> USE DEF Procs, Signals
<1>0. OSTypeOK /\ OneFrameEach BY DEF Known, TypeOK, CountInv
<1>1. UNCHANGED <<ground_planes, ground_takeoffs, ground_pc, radio_takeoffs>>
  BY DEF groundVars, RadioSigHandler2
<1>2. CASE Running("radio", "USR2", 0)
  <2>1. Advance("radio") /\ UNCHANGED pending /\ radio_planes' = radio_planes + BATCH
    BY <1>2 DEF RadioSigHandler2, Running
  <2>2. /\ OneFrameEach' /\ OtherFramesKept("radio", "USR2")
        /\ \A m \in 0 .. 2 : (Frame("radio", "USR2", m) <=> m = 0) /\ (Frame("radio", "USR2", m)' <=> m = 0 + 1)
    BY <1>0, <1>2, <2>1, AdvanceFrames
  <2>3. Quiet("USR1") /\ Quiet("ALRM") BY <2>1, <2>2 DEF Quiet, OtherFramesKept
  <2>4. PlanesAnnounced'
    BY <1>1, <2>1, <2>2, Numbers, BatchAssumption
    DEF Known, CountInv, Backed, PlanesAnnounced, Credit, OtherFramesKept
  <2>5. PlanesForwarded'
    BY <1>1, <2>1, <2>2, AirCountsKept, Numbers, BatchAssumption
    DEF Known, CountInv, Backed, PlanesForwarded, Credit
  <2> QED BY <1>1, <2>2, <2>3, <2>4, <2>5, AirCountsKept, ReportedKept, BackKept, PromptKept, FullBatchKept
          DEF Known, CountInv, Backed
<1>3. CASE Running("radio", "USR2", 1)
  <2>1. Return("radio") /\ Kill("air", "USR2") /\ UNCHANGED radio_planes
    BY <1>3 DEF RadioSigHandler2, Running
  <2>2. /\ OneFrameEach' /\ OtherFramesKept("radio", "USR2")
        /\ \A m \in 0 .. 2 : (Frame("radio", "USR2", m) <=> m = 1) /\ ~Frame("radio", "USR2", m)'
    BY <1>0, <1>3, <2>1, ReturnFrames
  <2>3. shm["air"] = "pid" BY <1>3 DEF Known, Slots, Creating, Running, Up
  <2>4. \A q \in Procs, r \in Signals :
            r \in pending'[q] => r \in pending[q] \/ (q = "air" /\ r = "USR2")
    BY <1>0, <2>1, <2>3, KillOwner
  <2>5. Quiet("USR1") /\ Quiet("ALRM") BY <2>2, <2>4 DEF Quiet, OtherFramesKept
  <2>6. PlanesAnnounced'
    BY <1>1, <2>1, <2>2, <2>4, Numbers, BatchAssumption
    DEF Known, CountInv, Backed, PlanesAnnounced, Credit, OtherFramesKept
  <2>7. PlanesForwarded'
    BY <1>1, <2>1, <2>2, AirCountsKept, Numbers, BatchAssumption
    DEF Known, CountInv, Backed, PlanesForwarded, Credit
  <2> QED BY <1>1, <2>2, <2>5, <2>6, <2>7, AirCountsKept, ReportedKept, BackKept, PromptKept, FullBatchKept
          DEF Known, CountInv, Backed
<1> QED BY <1>2, <1>3 DEF RadioSigHandler2

\* The radio counts take-offs, and reports them to ground control.
LEMMA RadioTakeoffs ==
    ASSUME Known, TypeOK', CountInv, RadioSigHandler1,
           UNCHANGED <<groundVars, airVars>>
    PROVE  CountInv'
<1> USE DEF Procs, Signals
<1>0. OSTypeOK /\ OneFrameEach BY DEF Known, TypeOK, CountInv
<1>1. UNCHANGED <<ground_planes, ground_takeoffs, ground_pc, radio_planes>>
  BY DEF groundVars, RadioSigHandler1
<1>2. CASE Running("radio", "USR1", 0)
  <2>1. Advance("radio") /\ UNCHANGED pending /\ radio_takeoffs' = radio_takeoffs + BATCH
    BY <1>2 DEF RadioSigHandler1, Running
  <2>2. /\ OneFrameEach' /\ OtherFramesKept("radio", "USR1")
        /\ \A m \in 0 .. 2 : (Frame("radio", "USR1", m) <=> m = 0) /\ (Frame("radio", "USR1", m)' <=> m = 0 + 1)
    BY <1>0, <1>2, <2>1, AdvanceFrames
  <2>3. Quiet("USR2") /\ Quiet("ALRM") BY <2>1, <2>2 DEF Quiet, OtherFramesKept
  <2>4. TakeoffsReported'
    BY <1>1, <2>1, <2>2, AirCountsKept, Numbers, BatchAssumption
    DEF Known, CountInv, Backed, TakeoffsReported, Credit
  <2>5. TakeoffsForwarded'
    BY <1>1, <2>1, <2>2, Numbers, BatchAssumption
    DEF Known, CountInv, Backed, TakeoffsForwarded, Credit, OtherFramesKept
  <2> QED BY <1>1, <2>2, <2>3, <2>4, <2>5, AirCountsKept, AnnouncedKept, ForwardedKept, PromptKept, FullBatchKept
          DEF Known, CountInv, Backed
<1>3. CASE Running("radio", "USR1", 1)
  <2>1. Return("radio") /\ Kill("ground", "USR1") /\ UNCHANGED radio_takeoffs
    BY <1>3 DEF RadioSigHandler1, Running
  <2>2. /\ OneFrameEach' /\ OtherFramesKept("radio", "USR1")
        /\ \A m \in 0 .. 2 : (Frame("radio", "USR1", m) <=> m = 1) /\ ~Frame("radio", "USR1", m)'
    BY <1>0, <1>3, <2>1, ReturnFrames
  <2>3. shm["ground"] = "pid"
    <3>1. radio_takeoffs > 0
      BY <2>2, Numbers, BatchAssumption DEF Known, CountInv, Backed, TakeoffsForwarded, Credit
    <3> QED BY <3>1, UnderWay
  <2>4. \A q \in Procs, r \in Signals :
            r \in pending'[q] => r \in pending[q] \/ (q = "ground" /\ r = "USR1")
    BY <1>0, <2>1, <2>3, KillOwner
  <2>5. Quiet("USR2") /\ Quiet("ALRM") BY <2>2, <2>4 DEF Quiet, OtherFramesKept
  <2>6. TakeoffsReported'
    BY <1>1, <2>1, <2>2, <2>4, AirCountsKept, Numbers, BatchAssumption
    DEF Known, CountInv, Backed, TakeoffsReported, Credit
  <2>7. TakeoffsForwarded'
    BY <1>1, <2>1, <2>2, Numbers, BatchAssumption
    DEF Known, CountInv, Backed, TakeoffsForwarded, Credit, OtherFramesKept
  <2> QED BY <1>1, <2>2, <2>5, <2>6, <2>7, AirCountsKept, AnnouncedKept, ForwardedKept, PromptKept, FullBatchKept
          DEF Known, CountInv, Backed
<1> QED BY <1>2, <1>3 DEF RadioSigHandler1

\* At the end the radio dismisses ground control, and counts nothing.
LEMMA RadioEnds ==
    ASSUME Known, TypeOK', CountInv, RadioSigTerm, UNCHANGED <<groundVars, airVars>>
    PROVE  CountInv'
<1> USE DEF Procs, Signals
<1>0. OSTypeOK /\ OneFrameEach BY DEF Known, TypeOK, CountInv
<1>1. UNCHANGED <<ground_planes, ground_takeoffs, ground_pc, radio_planes, radio_takeoffs>>
  BY DEF groundVars, RadioSigTerm
<1>2. ASSUME NEW k \in 0 .. 1, Running("radio", "TERM", k), Advance("radio"),
             UNCHANGED pending \/ Kill("ground", "TERM")
      PROVE  CountInv'
  <2>1. OneFrameEach' /\ OtherFramesKept("radio", "TERM") BY <1>0, <1>2, AdvanceFrames
  <2>2. \A q \in Procs, r \in Signals : r # "TERM" => (r \in pending'[q] => r \in pending[q])
    BY <1>0, <1>2, KillOnly
  <2>3. Quiet("USR1") /\ Quiet("USR2") /\ Quiet("ALRM") BY <2>1, <2>2 DEF Quiet, OtherFramesKept
  <2> QED BY <1>1, <2>1, <2>3, AirCountsKept, AnnouncedKept, ForwardedKept, ReportedKept, BackKept,
             PromptKept, FullBatchKept DEF Known, CountInv, Backed
<1>3. CASE RadioReport BY <1>2, <1>3 DEF RadioReport
<1>4. CASE RadioDismissGround BY <1>2, <1>4 DEF RadioDismissGround
<1>5. CASE RadioUnlink
  <2>1. Exit("radio") BY <1>5 DEF RadioUnlink
  <2> QED BY <1>0, <1>1, <2>1, ExitQuiet, NothingHappens
<1> QED BY <1>3, <1>4, <1>5 DEF RadioSigTerm

LEMMA RadioCounts ==
    ASSUME Known, TypeOK', CountInv, RadioNext, UNCHANGED <<airVars, groundVars>>
    PROVE  CountInv'
<1>0. OSTypeOK /\ OneFrameEach /\ "radio" \in Procs BY DEF Known, TypeOK, CountInv, Procs
<1>1. CASE RadioOpen
  <2>1. OneFrameEach' /\ \A s \in Signals : Quiet(s)
    BY <1>0, <1>1, ExitQuiet, StillQuiet DEF RadioOpen
  <2> QED BY <1>1, <2>1, NothingHappens DEF RadioOpen, groundVars
<1>2. CASE RadioInstall
  <2>1. OneFrameEach' /\ \A s \in Signals : Quiet(s)
    BY <1>0, <1>2, StillQuiet DEF RadioInstall
  <2> QED BY <1>2, <2>1, NothingHappens DEF RadioInstall, groundVars
<1>3. CASE RadioQuit
  <2>1. OneFrameEach' /\ \A s \in Signals : Quiet(s)
    BY <1>0, <1>3, ExitQuiet DEF RadioQuit
  <2> QED BY <1>3, <2>1, NothingHappens DEF RadioQuit, groundVars, radioVars
<1>4. ASSUME NEW s \in Signals, RadioSignal(s) PROVE CountInv'
  BY <1>4, RadioDelivery DEF RadioSignal
<1>5. CASE RadioHandlers
  BY <1>5, RadioPlanes, RadioTakeoffs, RadioEnds DEF RadioHandlers
<1>6. CASE DefaultAction("radio") /\ UNCHANGED radioVars
  <2>1. OneFrameEach' /\ \A s \in Signals : Quiet(s)
    BY <1>0, <1>6, DefaultFrames
  <2> QED BY <1>6, <2>1, NothingHappens DEF groundVars, radioVars
<1> QED BY <1>1, <1>2, <1>3, <1>4, <1>5, <1>6 DEF RadioNext

-----------------------------------------------------------------------------
(* Ground control *)

\* A signal reaches ground control.
LEMMA GroundDelivery ==
    ASSUME Known, TypeOK', CountInv, NEW s \in Signals, EnterHandler("ground", s),
           UNCHANGED <<radioVars, groundVars, airVars>>
    PROVE  CountInv'
<1>1. /\ OneFrameEach'
      /\ \A r \in Signals : r # s => Quiet(r)
      /\ s \in pending["ground"] /\ s \notin pending'["ground"]
      /\ \A m \in 0 .. 2 : ~Frame("ground", s, m) /\ (Frame("ground", s, m)' <=> m = 0)
      /\ \A q \in Procs : q # "ground" =>
            /\ s \in pending'[q] <=> s \in pending[q]
            /\ \A m \in 0 .. 2 : Frame(q, s, m)' <=> Frame(q, s, m)
  BY Delivery DEF Known, TypeOK, CountInv, Procs
<1>2. UNCHANGED <<radio_planes, radio_takeoffs, ground_planes, ground_takeoffs, ground_pc>>
  BY DEF radioVars, groundVars
<1>3. PlanesAnnounced'
  <2>1. CASE s = "ALRM"
    <3>1. Quiet("USR2") BY <2>1, <1>1 DEF Signals
    <3> QED BY <2>1, <3>1, <1>1, <1>2, Numbers, BatchAssumption
            DEF Known, CountInv, Backed, PlanesAnnounced, Quiet, Credit, Procs
  <2>2. CASE s = "USR2"
    <3>1. Quiet("ALRM") BY <2>2, <1>1 DEF Signals
    <3> QED BY <2>2, <3>1, <1>1, <1>2, Numbers, BatchAssumption
            DEF Known, CountInv, Backed, PlanesAnnounced, Quiet, Credit, Procs
  <2>3. CASE s \notin {"USR2", "ALRM"}
    BY <2>3, <1>1, <1>2, AnnouncedKept DEF Known, CountInv, Backed, Signals
  <2> QED BY <2>1, <2>2, <2>3
<1>4. PlanesForwarded'
  <2>1. CASE s = "USR2"
    BY <2>1, <1>1, <1>2, AirCountsKept, Numbers, BatchAssumption
    DEF Known, CountInv, Backed, PlanesForwarded, Credit, Procs
  <2>2. CASE s # "USR2"
    BY <2>2, <1>1, <1>2, AirCountsKept, ForwardedKept DEF Known, CountInv, Backed, Signals
  <2> QED BY <2>1, <2>2
<1>5. TakeoffsReported'
  <2>1. CASE s = "USR1"
    BY <2>1, <1>1, <1>2, AirCountsKept, Numbers, BatchAssumption
    DEF Known, CountInv, Backed, TakeoffsReported, Credit, Procs
  <2>2. CASE s # "USR1"
    BY <2>2, <1>1, <1>2, AirCountsKept, ReportedKept DEF Known, CountInv, Backed, Signals
  <2> QED BY <2>1, <2>2
<1>6. TakeoffsForwarded'
  <2>1. CASE s = "USR1"
    BY <2>1, <1>1, <1>2, Numbers, BatchAssumption
    DEF Known, CountInv, Backed, TakeoffsForwarded, Credit, Procs
  <2>2. CASE s # "USR1"
    BY <2>2, <1>1, <1>2, BackKept DEF Known, CountInv, Backed, Signals
  <2> QED BY <2>1, <2>2
<1>7. Prompt'
  <2>1. "ALRM" \in pending'["ground"] => "ALRM" \in pending["ground"]
    BY <1>1 DEF Quiet, Procs, Signals
  <2>2. (\E m \in 0 .. 2 : Frame("ground", "ALRM", m)') =>
            "ALRM" \in pending["ground"] \/ \E m \in 0 .. 2 : Frame("ground", "ALRM", m)
    BY <1>1 DEF Quiet, Procs, Signals
  <2> QED BY <1>2, <2>1, <2>2, AirCountsKept DEF CountInv, Prompt, Starting
<1>8. FullBatch' BY AirCountsKept, FullBatchKept DEF CountInv
<1> QED BY <1>1, <1>3, <1>4, <1>5, <1>6, <1>7, <1>8 DEF CountInv, Backed

\* The timer's first tick waits for the others' handlers (PromptStartup).
LEMMA TimerCounts ==
    ASSUME PromptStartup, Known, TypeOK', CountInv, GroundTimer, UNCHANGED <<radioVars, airVars>>
    PROVE  CountInv'
<1> USE DEF Procs, Signals
<1>0. OSTypeOK /\ OneFrameEach BY DEF Known, TypeOK, CountInv
<1>1. UNCHANGED <<ground_planes, ground_takeoffs, ground_pc, radio_planes, radio_takeoffs>>
  BY DEF groundVars, radioVars, GroundTimer
<1>2. \A q \in Procs, r \in Signals : r # "ALRM" => (r \in pending'[q] => r \in pending[q])
  BY <1>0 DEF GroundTimer, OSTypeOK
<1>3. OneFrameEach' /\ \A q \in Procs, r \in Signals, m \in 0 .. 2 : Frame(q, r, m)' <=> Frame(q, r, m)
  BY <1>0, SameFrames DEF GroundTimer
<1>4. Quiet("USR1") /\ Quiet("USR2") BY <1>2, <1>3 DEF Quiet
<1>5. PlanesAnnounced'
  BY <1>1, <1>3, <1>4, Numbers, BatchAssumption
  DEF Known, CountInv, Backed, PlanesAnnounced, Quiet, Credit
<1>6. Prompt'
  <2>1. ground_pc = "run" BY DEF GroundTimer
  <2>2. main_pc \notin Starting
    <3>1. CASE ground_planes = 0 BY <3>1 DEF GroundTimer, Known, Slots
    <3>2. CASE ground_planes # 0 BY <3>2, Numbers DEF Known, CountInv, Prompt
    <3> QED BY <3>1, <3>2
  <2> QED BY <1>1, <2>1, <2>2, AirCountsKept DEF Prompt, Starting
<1> QED BY <1>1, <1>3, <1>4, <1>5, <1>6, AirCountsKept, ForwardedKept, ReportedKept, BackKept,
           FullBatchKept DEF Known, CountInv, Backed

\* A tick admits a batch of planes and announces it to the radio.
LEMMA TrafficCounts ==
    ASSUME Known, TypeOK', CountInv, Traffic, UNCHANGED <<radioVars, airVars>>
    PROVE  CountInv'
<1> USE DEF Procs, Signals
<1>0. OSTypeOK /\ OneFrameEach BY DEF Known, TypeOK, CountInv
<1>1. UNCHANGED <<ground_takeoffs, ground_pc, radio_planes, radio_takeoffs>>
  BY DEF radioVars, Traffic
<1>2. ASSUME OneFrameEach', OtherFramesKept("ground", "ALRM"), PlanesAnnounced',
             \A q \in Procs, r \in Signals :
                 r \in pending'[q] => r \in pending[q] \/ (q = "radio" /\ r = "USR2"),
             \E m \in 0 .. 2 : Frame("ground", "ALRM", m)
      PROVE  CountInv'
  <2>1. Quiet("USR1") BY <1>2 DEF Quiet, OtherFramesKept
  <2>2. PlanesForwarded'
    BY <1>1, <1>2, AirCountsKept, Numbers, BatchAssumption
    DEF Known, CountInv, Backed, PlanesForwarded, Credit, OtherFramesKept
  <2>3. Prompt' BY <1>1, <1>2, AirCountsKept DEF CountInv, Prompt, Starting
  <2> QED BY <1>1, <1>2, <2>1, <2>2, <2>3, AirCountsKept, ReportedKept, BackKept, FullBatchKept
          DEF Known, CountInv, Backed
<1>3. CASE Tick /\ ground_planes < PLANES_LIMIT
  <2>1. /\ Running("ground", "ALRM", 0) /\ Advance("ground") /\ UNCHANGED pending
        /\ ground_planes' = ground_planes + BATCH
    BY <1>3, Numbers, PlanesLimitAssumption DEF Tick, Known
  <2>2. /\ OneFrameEach' /\ OtherFramesKept("ground", "ALRM")
        /\ \A m \in 0 .. 2 : (Frame("ground", "ALRM", m) <=> m = 0) /\ (Frame("ground", "ALRM", m)' <=> m = 0 + 1)
    BY <1>0, <2>1, AdvanceFrames
  <2>3. PlanesAnnounced'
    BY <1>1, <2>1, <2>2, Numbers, BatchAssumption
    DEF Known, CountInv, Backed, PlanesAnnounced, Credit, OtherFramesKept
  <2> QED BY <1>2, <2>1, <2>2, <2>3
<1>4. CASE Tick /\ ground_planes >= PLANES_LIMIT
  <2>1. /\ Running("ground", "ALRM", 0) /\ Return("ground") /\ UNCHANGED <<pending, ground_planes>>
    BY <1>4, Numbers, PlanesLimitAssumption DEF Tick, Known
  <2>2. /\ OneFrameEach' /\ OtherFramesKept("ground", "ALRM")
        /\ \A m \in 0 .. 2 : (Frame("ground", "ALRM", m) <=> m = 0) /\ ~Frame("ground", "ALRM", m)'
    BY <1>0, <2>1, ReturnFrames
  <2>3. PlanesAnnounced'
    BY <1>1, <2>1, <2>2, Numbers, BatchAssumption
    DEF Known, CountInv, Backed, PlanesAnnounced, Credit, OtherFramesKept
  <2> QED BY <1>2, <2>1, <2>2, <2>3
<1>5. CASE Announce
  <2>1. /\ Running("ground", "ALRM", 1) /\ Return("ground") /\ Kill("radio", "USR2") /\ UNCHANGED ground_planes
    BY <1>5 DEF Announce
  <2>2. /\ OneFrameEach' /\ OtherFramesKept("ground", "ALRM")
        /\ \A m \in 0 .. 2 : (Frame("ground", "ALRM", m) <=> m = 1) /\ ~Frame("ground", "ALRM", m)'
    BY <1>0, <2>1, ReturnFrames
  <2>3. shm["radio"] = "pid" BY <2>2 DEF Known, CountInv, Prompt, Slots, Starting, Creating
  <2>4. \A q \in Procs, r \in Signals :
            r \in pending'[q] => r \in pending[q] \/ (q = "radio" /\ r = "USR2")
    BY <1>0, <2>1, <2>3, KillOwner
  <2>5. PlanesAnnounced'
    BY <1>1, <2>1, <2>2, Numbers, BatchAssumption
    DEF Known, CountInv, Backed, PlanesAnnounced, Credit, OtherFramesKept
  <2> QED BY <1>2, <2>2, <2>4, <2>5
<1>6. ground_planes < PLANES_LIMIT \/ ground_planes >= PLANES_LIMIT
  BY Numbers, PlanesLimitAssumption DEF Known
<1> QED BY <1>3, <1>4, <1>5, <1>6 DEF Traffic

LEMMA GroundCounts ==
    ASSUME PromptStartup, Known, TypeOK', CountInv, GroundNext, UNCHANGED <<radioVars, airVars>>
    PROVE  CountInv'
<1>0. /\ OSTypeOK /\ OneFrameEach /\ "ground" \in Procs
      /\ UNCHANGED <<radio_planes, radio_takeoffs>>
  BY DEF Known, TypeOK, CountInv, Procs, radioVars
<1>1. CASE MemoryOpen \/ GroundInstall
  <2>1. OneFrameEach' /\ \A s \in Signals : Quiet(s)
    BY <1>0, <1>1, StillQuiet DEF MemoryOpen, GroundInstall
  <2>2. UNCHANGED <<ground_planes, ground_takeoffs>>
    BY <1>1 DEF MemoryOpen, GroundInstall
  <2>3. ground_pc # "run"
    BY <1>1 DEF MemoryOpen, GroundInstall, Install, Known, Slots, TypeOK, OSTypeOK
  <2>4. Prompt'
    BY <2>1, <2>2, <2>3 DEF CountInv, Prompt, Quiet, Procs, Signals
  <2>5. Quiet("USR1") /\ Quiet("USR2") /\ Quiet("ALRM") BY <2>1 DEF Signals
  <2> QED BY <1>0, <2>1, <2>2, <2>4, <2>5, AirCountsKept, AnnouncedKept, ForwardedKept, ReportedKept,
             BackKept, FullBatchKept DEF Known, CountInv, Backed
<1>2. CASE GroundTimer BY <1>2, TimerCounts
<1>3. ASSUME NEW s \in Signals, GroundSignal(s) PROVE CountInv'
  BY <1>3, GroundDelivery DEF GroundSignal
<1>4. CASE Traffic BY <1>4, TrafficCounts
<1>5. CASE GroundSigHandler1
  <2>1. /\ Running("ground", "USR1", 0) /\ Return("ground") /\ UNCHANGED <<pending, ground_planes, ground_pc>>
        /\ ground_takeoffs' = ground_takeoffs + BATCH
    BY <1>5 DEF GroundSigHandler1
  <2>2. /\ OneFrameEach' /\ OtherFramesKept("ground", "USR1")
        /\ \A m \in 0 .. 2 : (Frame("ground", "USR1", m) <=> m = 0) /\ ~Frame("ground", "USR1", m)'
    BY <1>0, <2>1, ReturnFrames DEF Signals
  <2>3. Quiet("USR1") /\ Quiet("USR2") /\ Quiet("ALRM")
    BY <2>1, <2>2 DEF Quiet, OtherFramesKept, Signals
  <2>4. TakeoffsForwarded'
    BY <1>0, <2>1, <2>2, Numbers, BatchAssumption
    DEF Known, CountInv, Backed, TakeoffsForwarded, Credit, OtherFramesKept, Procs, Signals
  <2> QED BY <1>0, <2>1, <2>2, <2>3, <2>4, AirCountsKept, AnnouncedKept, ForwardedKept, ReportedKept,
             PromptKept, FullBatchKept DEF Known, CountInv, Backed
<1>6. CASE SigHandlerTerm
  <2>1. OneFrameEach' /\ \A s \in Signals : Quiet(s)
    BY <1>0, <1>6, ExitQuiet DEF SigHandlerTerm
  <2> QED BY <1>0, <1>6, <2>1, NothingHappens DEF SigHandlerTerm, groundVars
<1>7. CASE DefaultAction("ground") /\ UNCHANGED groundVars
  <2>1. OneFrameEach' /\ \A s \in Signals : Quiet(s)
    BY <1>0, <1>7, DefaultFrames
  <2> QED BY <1>0, <1>7, <2>1, NothingHappens DEF groundVars
<1> QED BY <1>1, <1>2, <1>3, <1>4, <1>5, <1>6, <1>7 DEF GroundNext

-----------------------------------------------------------------------------
(* Air control *)

\* Until the threads start, main() counts nothing.
LEMMA MainCounts ==
    ASSUME Known, TypeOK', CountInv, AirMain, UNCHANGED groundVars
    PROVE  CountInv'
<1>1. /\ UNCHANGED <<stack, radio_planes, radio_takeoffs, ground_planes, ground_takeoffs, ground_pc>>
      /\ UNCHANGED <<air_planes, air_takeoffs, total_takeoffs, tripped, Called>>
  BY DEF AirMain, groundVars, countVars, handlerVars, Called
<1>2. \A q \in Procs, s \in Signals : s \in pending'[q] => s \in pending[q]
  BY DEF AirMain, CreateSharedMemory, PopenRadio, StoreRadioPid, InstallHandler, StartThreads,
     WaitForGround, JoinAndCleanUp, Known, TypeOK, OSTypeOK
<1>3. OneFrameEach' /\ Quiet("USR1") /\ Quiet("USR2") /\ Quiet("ALRM")
  BY <1>1, <1>2, SameFrames DEF CountInv, Quiet, Signals
<1>4. UNCHANGED Taken /\ FullBatch'
  <2>1. CASE StartThreads
    BY <2>1 DEF StartThreads, MainStep, Known, LockInv, IdleUntilStarted, Taken, Counting, FullBatch
  <2>2. CASE UNCHANGED pc
    BY <1>1, <2>2, FullBatchKept DEF Taken, Counting, CountInv
  <2> QED BY <2>1, <2>2 DEF AirMain, CreateSharedMemory, PopenRadio, StoreRadioPid, InstallHandler,
             WaitForGround, JoinAndCleanUp
<1>5. main_pc \notin Starting => main_pc' \notin Starting
  BY DEF AirMain, CreateSharedMemory, OpenMemory, SizeMemory, GiveSize, SetSlot, ZeroSlots,
     StoreAirPid, PopenRadio, StoreRadioPid, InstallHandler, StartThreads,
     WaitForGround, JoinAndCleanUp, MainStep, Starting
<1>6. Prompt' BY <1>1, <1>3, <1>5 DEF CountInv, Prompt, Quiet, Procs, Signals, Starting
<1> QED BY <1>1, <1>3, <1>4, <1>6, AnnouncedKept, ForwardedKept, ReportedKept, BackKept
        DEF Known, CountInv, Backed

\* A worker that neither takes, counts nor reports.
LEMMA QuietWorker ==
    ASSUME Known, TypeOK', CountInv, NEW t \in Controllers, NEW from \in Labels, NEW to \in Labels,
           Step(t, from, to), from # "count", to \notin {"count", "usr1"},
           \A q \in Procs, s \in Signals : s # "TERM" => (s \in pending'[q] => s \in pending[q]),
           UNCHANGED <<stack, radioVars, groundVars, main_pc, countVars, handlerVars>>
    PROVE  CountInv'
<1>1. OneFrameEach' /\ Quiet("USR1") /\ Quiet("USR2") /\ Quiet("ALRM")
  BY SameFrames DEF CountInv, Quiet, Signals
<1>2. UNCHANGED <<radio_planes, radio_takeoffs, ground_planes, ground_takeoffs, ground_pc,
                  air_planes, air_takeoffs, total_takeoffs, tripped, Called>>
  BY DEF radioVars, groundVars, countVars, handlerVars, Called
<1>3. UNCHANGED Counting /\ \A u \in Controllers : pc'[u] = "usr1" => pc[u] = "usr1"
  BY DEF Step, Counting, Known, LockInv, AirTypeOK
<1>4. UNCHANGED Taken /\ FullBatch'
  BY <1>2, <1>3 DEF Taken, FullBatch, CountInv
<1> QED BY <1>1, <1>2, <1>4, AnnouncedKept, ForwardedKept, ReportedKept, BackKept, PromptKept
        DEF Known, CountInv, Backed

\* A worker counts or reports under the lock, alone: nobody else has taken a
\* plane, or is about to report.
LEMMA LoudWorker ==
    ASSUME Known, TypeOK', CountInv, NEW t \in Controllers, TakeoffWorker(t), UNCHANGED groundVars,
           (DoubleCheck(t) /\ air_planes > 0) \/ CountTakeoff(t) \/ ReportBatch(t)
    PROVE  CountInv'
<1> USE DEF Procs, Signals
<1>0. OSTypeOK /\ OneFrameEach /\ LockInv BY DEF Known, TypeOK, CountInv
<1>1. /\ UNCHANGED <<stack, radio_planes, radio_takeoffs, ground_planes, ground_takeoffs, ground_pc>>
      /\ UNCHANGED <<tripped, Called, main_pc, shm>>
  BY DEF TakeoffWorker, groundVars, radioVars, handlerVars, Called
<1>2. /\ OneFrameEach'
      /\ \A q \in Procs, r \in Signals, m \in 0 .. 2 : Frame(q, r, m)' <=> Frame(q, r, m)
  BY <1>0, <1>1, SameFrames
<1>3. \A u \in Controllers : u # t => pc[u] \notin Critical /\ pc'[u] = pc[u]
  BY <1>0, AloneInside DEF DoubleCheck, CountTakeoff, ReportBatch, Step, Critical, LockInv, AirTypeOK
<1>4. CASE DoubleCheck(t) /\ air_planes > 0
  <2>1. /\ pc[t] = "recheck" /\ pc'[t] = "count" /\ air_planes' = air_planes - 1
        /\ UNCHANGED <<pending, air_takeoffs, total_takeoffs>>
    BY <1>0, <1>4, Numbers DEF DoubleCheck, Step, LockInv, AirTypeOK, Known
  <2>2. Taken = 0 /\ Taken' = 1 /\ FullBatch'
    BY <1>3, <2>1 DEF Taken, Counting, FullBatch, Critical, CountInv
  <2>3. Quiet("USR1") /\ Quiet("USR2") /\ Quiet("ALRM") BY <1>2, <2>1 DEF Quiet
  <2>4. PlanesForwarded'
    BY <1>1, <1>2, <2>1, <2>2, Numbers, BatchAssumption
    DEF Known, CountInv, Backed, PlanesForwarded, Credit
  <2> QED BY <1>1, <1>2, <2>1, <2>2, <2>3, <2>4, AnnouncedKept, ReportedKept, BackKept, PromptKept
          DEF Known, CountInv, Backed
<1>5. CASE CountTakeoff(t)
  <2>1. /\ pc[t] = "count" /\ pc'[t] = IF air_takeoffs + 1 = BATCH THEN "usr1" ELSE "unlock"
        /\ air_takeoffs' = air_takeoffs + 1 /\ total_takeoffs' = total_takeoffs + 1
        /\ UNCHANGED <<pending, air_planes>>
    BY <1>0, <1>5 DEF CountTakeoff, Step, LockInv, AirTypeOK
  <2>2. Taken = 1 /\ Taken' = 0 /\ FullBatch'
    BY <1>3, <2>1 DEF Taken, Counting, FullBatch, Critical
  <2>3. Quiet("USR1") /\ Quiet("USR2") /\ Quiet("ALRM") BY <1>2, <2>1 DEF Quiet
  <2>4. PlanesForwarded' /\ TakeoffsReported'
    BY <1>1, <1>2, <2>1, <2>2, Numbers, BatchAssumption
    DEF Known, CountInv, Backed, PlanesForwarded, TakeoffsReported, Credit
  <2> QED BY <1>1, <1>2, <2>1, <2>2, <2>3, <2>4, AnnouncedKept, BackKept, PromptKept
          DEF Known, CountInv, Backed
<1>6. CASE ReportBatch(t)
  <2>1. /\ pc[t] = "usr1" /\ pc'[t] = "unlock" /\ air_takeoffs' = 0 /\ SignalRadio("USR1")
        /\ UNCHANGED <<air_planes, total_takeoffs>>
    BY <1>0, <1>6 DEF ReportBatch, Step, LockInv, AirTypeOK
  <2>2. air_takeoffs = BATCH BY <2>1 DEF CountInv, FullBatch
  <2>3. shm["radio"] = "pid"
    BY <2>1 DEF Known, TypeOK, AirTypeOK, LockInv, IdleUntilStarted, Slots, Creating
  <2>4. \A q \in Procs, r \in Signals :
            r \in pending'[q] => r \in pending[q] \/ (q = "radio" /\ r = "USR1")
    BY <1>0, <2>1, <2>3, KillOwner DEF SignalRadio
  <2>5. Taken = 0 /\ Taken' = 0 /\ FullBatch'
    BY <1>3, <2>1 DEF Taken, Counting, FullBatch, Critical
  <2>6. Quiet("USR2") /\ Quiet("ALRM") BY <1>2, <2>4 DEF Quiet
  <2>7. TakeoffsReported'
    BY <1>1, <1>2, <2>1, <2>2, Numbers, BatchAssumption
    DEF Known, CountInv, Backed, TakeoffsReported, Credit
  <2>8. TakeoffsForwarded'
    BY <1>1, <1>2, <2>4, Numbers, BatchAssumption
    DEF Known, CountInv, Backed, TakeoffsForwarded, Credit
  <2> QED BY <1>1, <1>2, <2>1, <2>5, <2>6, <2>7, <2>8, AnnouncedKept, ForwardedKept, PromptKept
          DEF Known, CountInv, Backed
<1> QED BY <1>4, <1>5, <1>6

LEMMA WorkerKeepsCounts ==
    ASSUME Known, TypeOK', CountInv, NEW t \in Controllers, TakeoffWorker(t), UNCHANGED groundVars
    PROVE  CountInv'
<1>1. CASE (DoubleCheck(t) /\ air_planes > 0) \/ CountTakeoff(t) \/ ReportBatch(t)
  BY <1>1, LoudWorker
<1>2. UNCHANGED <<stack, radioVars, main_pc, handlerVars>> BY DEF TakeoffWorker
<1>3. ASSUME UNCHANGED <<pending, countVars>>, NEW from \in Labels, NEW to \in Labels,
             Step(t, from, to), from # "count", to \notin {"count", "usr1"}
      PROVE  CountInv'
  BY <1>2, <1>3, QuietWorker
<1>4. CASE LoopTest(t)
  BY <1>3, <1>4 DEF LoopTest, Labels
<1>5. CASE QuickCheck(t)
  BY <1>3, <1>5 DEF QuickCheck, Labels
<1>6. CASE TryRunway1(t) \/ TryRunway2(t)
  BY <1>3, <1>6 DEF TryRunway1, TryRunway2, TryRunway, Labels
<1>7. CASE Acquire(t, "lock", "recheck") \/ Acquire(t, "finish", "term")
  BY <1>3, <1>7 DEF Acquire, Labels
<1>8. CASE Release(t, "bail", "loop") \/ Release(t, "unlock", "release") \/ Release(t, "leave", "done")
  BY <1>3, <1>8 DEF Release, Labels
<1>9. CASE ReleaseRunway(t)
  BY <1>3, <1>9 DEF ReleaseRunway, Labels
<1>10. CASE DoubleCheck(t) /\ air_planes <= 0
  BY <1>3, <1>10, Numbers DEF DoubleCheck, Labels, countVars, Known
<1>11. CASE EndRadio(t)
  <2>1. \A q \in Procs, s \in Signals : s # "TERM" => (s \in pending'[q] => s \in pending[q])
    BY <1>11, KillOnly DEF EndRadio, SignalRadio, Known, TypeOK, Procs, Signals
  <2>2. Step(t, "term", "leave") /\ UNCHANGED countVars BY <1>11 DEF EndRadio
  <2> QED BY <1>2, <2>1, <2>2, QuietWorker DEF Labels
<1>12. DoubleCheck(t) => air_planes > 0 \/ air_planes <= 0 BY Numbers DEF Known
<1> QED BY <1>1, <1>4, <1>5, <1>6, <1>7, <1>8, <1>9, <1>10, <1>11, <1>12 DEF TakeoffWorker

\* A SIGUSR2 that the interpreter notes, calls the handler for, and counts, is a
\* batch all the while.
LEMMA HandlerKeepsCounts ==
    ASSUME Known, TypeOK', CountInv, SigUsr2Handler, UNCHANGED groundVars
    PROVE  CountInv'
<1> USE DEF Procs, Signals
<1>0. OSTypeOK /\ OneFrameEach BY DEF Known, TypeOK, CountInv
<1>1. /\ UNCHANGED <<stack, radio_planes, radio_takeoffs, ground_planes, ground_takeoffs, ground_pc>>
      /\ UNCHANGED <<air_takeoffs, total_takeoffs, pc, Taken, main_pc>>
  BY DEF SigUsr2Handler, groundVars, radioVars, threadVars, Taken, Counting
<1>2. /\ OneFrameEach'
      /\ \A q \in Procs, r \in Signals, m \in 0 .. 2 : Frame(q, r, m)' <=> Frame(q, r, m)
  BY <1>0, <1>1, SameFrames
<1>3. \A q \in Procs, s \in Signals : s \in pending'[q] => s \in pending[q]
  BY <1>0 DEF SigUsr2Handler, Trip, CallHandler, HandlerLocks, HandlerReturns, Take, OSTypeOK
<1>4. Quiet("USR1") /\ Quiet("USR2") /\ Quiet("ALRM") BY <1>2, <1>3 DEF Quiet
<1>5. handlers \in Seq({"wait", "held"}) /\ Len(handlers) \in Nat
  <2>1. handlers \in Seq({"wait", "held"}) BY DEF Known, TypeOK, AirTypeOK
  <2> QED BY <2>1
<1>6. PlanesForwarded'
  <2>1. CASE Trip
    <3>1. /\ "USR2" \in pending["air"] /\ "USR2" \notin pending'["air"] /\ tripped'
          /\ UNCHANGED <<air_planes, Called>>
      BY <1>0, <2>1 DEF Trip, Take, OSTypeOK, Called
    <3> QED BY <1>1, <1>2, <3>1, Numbers, BatchAssumption
            DEF Known, CountInv, Backed, PlanesForwarded, Credit
  <2>2. CASE CallHandler
    <3>1. Len(handlers') = Len(handlers) + 1 BY <1>5, <2>2 DEF CallHandler
    <3>2. Called' = Called + BATCH BY <1>5, <3>1, BatchAssumption DEF Called
    <3>3. tripped /\ ~tripped' /\ UNCHANGED <<air_planes, pending>> BY <2>2 DEF CallHandler
    <3> QED BY <1>1, <1>2, <3>2, <3>3, Numbers, BatchAssumption
            DEF Known, CountInv, Backed, PlanesForwarded, Credit
  <2>3. CASE HandlerLocks
    <3>1. Len(handlers') = Len(handlers) BY <1>5, <2>3 DEF HandlerLocks
    <3>2. UNCHANGED <<air_planes, tripped, Called>> BY <2>3, <3>1 DEF HandlerLocks, Called
    <3> QED BY <1>1, <1>4, <3>2, ForwardedKept DEF Known, CountInv, Backed
  <2>4. CASE HandlerReturns
    <3>1. Len(handlers') = Len(handlers) - 1 BY <1>5, <2>4, ButLast DEF HandlerReturns
    <3>2. Called' = Called - BATCH BY <1>5, <3>1, BatchAssumption DEF Called
    <3>3. air_planes' = air_planes + BATCH /\ UNCHANGED <<pending, tripped>> BY <2>4 DEF HandlerReturns
    <3> QED BY <1>1, <1>2, <3>2, <3>3, Numbers, BatchAssumption
            DEF Known, CountInv, Backed, PlanesForwarded, Credit
  <2> QED BY <2>1, <2>2, <2>3, <2>4 DEF SigUsr2Handler
<1> QED BY <1>1, <1>2, <1>4, <1>6, AnnouncedKept, ReportedKept, BackKept, PromptKept, FullBatchKept
        DEF Known, CountInv, Backed

-----------------------------------------------------------------------------
(* The counts are backed *)

LEMMA CountStepKept ==
    ASSUME PromptStartup, Known, TypeOK', CountInv, [Next]_vars
    PROVE  CountInv'
<1>1. CASE AirNext /\ UNCHANGED groundVars
  <2>1. CASE DefaultAction("air") /\ UNCHANGED <<radioVars, airVars>>
    <3>1. OneFrameEach' /\ \A s \in Signals : Quiet(s)
      BY <2>1, DefaultFrames DEF Known, TypeOK, CountInv, Procs
    <3> QED BY <1>1, <2>1, <3>1, NothingHappens DEF radioVars, groundVars
  <2> QED BY <1>1, <2>1, MainCounts, WorkerKeepsCounts, HandlerKeepsCounts DEF AirNext
<1>2. CASE RadioNext /\ UNCHANGED <<airVars, groundVars>> BY <1>2, RadioCounts
<1>3. CASE GroundNext /\ UNCHANGED <<radioVars, airVars>> BY <1>3, GroundCounts
<1>4. CASE UNCHANGED vars
  <2>1. OneFrameEach' /\ \A s \in Signals : Quiet(s)
    BY <1>4, StillQuiet DEF vars, osVars, CountInv
  <2> QED BY <1>4, <2>1, NothingHappens DEF vars, radioVars, groundVars
<1> QED BY <1>1, <1>2, <1>3, <1>4 DEF Next

LEMMA CountInitially == ASSUME Init, TypeOK PROVE CountInv
<1>1. \A p \in Procs : pending[p] = {} /\ Len(stack[p]) = 0 BY DEF Init, OSInit
<1>2. OneFrameEach /\ \A p \in Procs : \A r, m : ~Frame(p, r, m)
  BY <1>1 DEF OneFrameEach, Frame
<1>3. handlers = <<>> /\ ~tripped /\ Counting = {}
  BY DEF Init, AirInit, Counting
<1>4. Called = 0 /\ Taken = 0 BY <1>3, BatchAssumption DEF Called, Taken
<1>5. /\ ground_planes = 0 /\ ground_takeoffs = 0 /\ radio_planes = 0 /\ radio_takeoffs = 0
      /\ air_planes = 0 /\ air_takeoffs = 0 /\ total_takeoffs = 0
      /\ \A t \in Controllers : pc[t] = "idle"
  BY DEF Init, GroundInit, RadioInit, AirInit
<1>6. Backed
  BY <1>1, <1>2, <1>3, <1>4, <1>5
  DEF Backed, PlanesAnnounced, PlanesForwarded, TakeoffsReported, TakeoffsForwarded, Credit, Procs
<1> QED BY <1>1, <1>2, <1>5, <1>6 DEF CountInv, Prompt, FullBatch, Procs

\* Unless air control has erased ground control's pid, the counts are what they
\* should be.
LEMMA CountInvariant == ASSUME PromptStartup PROVE Spec => [](Erased \/ CountInv)
<1>1. Init /\ TypeOK => CountInv BY CountInitially
<1>2. TypeOK /\ LockInv /\ Slots /\ PlanesNonNegative /\ (Erased \/ CountInv) /\ TypeOK' /\ [Next]_vars
          => Erased' \/ CountInv'
  BY CountStepKept, ErasedForGood DEF Known
<1> QED BY <1>1, <1>2, TypeCorrect, LocksInvariant, SlotsInvariant, NoTakeoffWithoutPlane, PTL DEF Spec

\* As long as ground control's pid is in its slot, every program's counts are
\* backed by those of the program that announced them (CountsBacked): for any
\* number of workers, any batch and any limits, in whatever order the programs
\* start, whatever an earlier run has left, and however signals merge and handlers
\* nest.  What is on the way is worth what is missing.
THEOREM CountsAreBacked == ASSUME PromptStartup PROVE Spec => []CountsBacked
<1>1. TypeOK /\ (Erased \/ CountInv) => CountsBacked
  <2> SUFFICES ASSUME TypeOK, CountInv PROVE CountsBacked
    BY DEF Erased, CountsBacked
  <2> QED BY Numbers, BatchAssumption
          DEF CountInv, Backed, PlanesAnnounced, PlanesForwarded, TakeoffsReported, TakeoffsForwarded,
              CountsBacked, Credit
<1> QED BY <1>1, CountInvariant, TypeCorrect, PTL
=============================================================================
