---------------------------- MODULE AirportCProofs ----------------------------
(***************************************************************************)
(* The airport with the C air control, for any number of controllers: its  *)
(* types, its locks and the bound on its take-offs.                        *)
(***************************************************************************)
EXTENDS AirportC, AirportProofs, FiniteSetTheorems

-----------------------------------------------------------------------------
(* Types *)

\* No step of air control, of the child it forks or of its handler breaks the
\* types.
LEMMA AirType ==
    ASSUME OSTypeOK, RadioTypeOK, AirTypeOK, AirNext
    PROVE  OSTypeOK' /\ RadioTypeOK' /\ AirTypeOK'
<1> USE BatchAssumption, ControllersAssumption
<1>1. "air" \in Procs /\ "radio" \in Procs /\ "ground" \in Procs
    BY DEF Procs
<1>2. {"USR1", "USR2", "TERM"} \subseteq Signals
    BY DEF Signals
<1>3. CASE AirMain
    <2>1. CASE MemoryCreate
        BY <1>1, <1>3, <2>1 DEF AirMain, MemoryCreate, OpenMemory, SizeMemory, StoreAirPid, GiveSize,
           CreateThreads, MainStep,
           OSTypeOK, SlotValues, RadioTypeOK, AirTypeOK,
           radioVars, countVars, lockVars, handlerVars
    <2>2. CASE InstallSigHandler2
        BY <1>1, <1>2, <1>3, <2>2 DEF AirMain, InstallSigHandler2, CreateThreads, MainStep,
           OSTypeOK, RadioTypeOK, AirTypeOK, radioVars, countVars, lockVars, handlerVars
    <2>3. CASE Fork
        BY <1>1, <1>3, <2>3 DEF AirMain, Fork, CreateThreads, MainStep,
           OSTypeOK, RadioTypeOK, AirTypeOK, countVars, lockVars, handlerVars
    <2>4. CASE JoinAndCleanUp
        <3>1. UNCHANGED pc
            BY <1>3, <2>4 DEF AirMain, JoinAndCleanUp, CreateThreads, MainStep
        <3>2. QED
            BY <1>1, <1>3, <2>4, <3>1, ExitType DEF AirMain, JoinAndCleanUp, MainStep,
               OSTypeOK, RadioTypeOK, AirTypeOK, radioVars, countVars, lockVars, handlerVars
    <2>5. CASE CreateThreads
        BY <1>3, <2>5 DEF AirMain, CreateThreads, MainStep, OSTypeOK, RadioTypeOK, AirTypeOK,
           osVars, radioVars, countVars, lockVars, handlerVars, Labels
    <2>6. QED
        BY <1>3, <2>1, <2>2, <2>3, <2>4, <2>5 DEF AirMain
<1>4. CASE RadioLaunch
    <2>1. UNCHANGED airVars /\ AirTypeOK'
        BY <1>4 DEF RadioLaunch, AirTypeOK, airVars, countVars, lockVars, threadVars, handlerVars
    <2>2. /\ pending' \in [Procs -> SUBSET Signals]
          /\ handled' \in [Procs -> SUBSET Signals]
          /\ shm' \in [Procs -> SlotValues]
        BY <1>1, <1>2, <1>4, TakeType
        DEF RadioLaunch, ChildStoresPid, Execl, ChildSigHandler2, OSTypeOK, SlotValues
    <2>3. RadioTypeOK'
        BY <1>4 DEF RadioLaunch, ChildStoresPid, Execl, ChildSigHandler2, RadioTypeOK
    <2>4. QED
        BY <1>4, <2>1, <2>2, <2>3 DEF RadioLaunch, OSTypeOK
<1>5. ASSUME NEW t \in Controllers, TakeOffsFunction(t)
      PROVE  OSTypeOK' /\ RadioTypeOK' /\ AirTypeOK'
    <2>1. pending' \in [Procs -> SUBSET Signals]
        BY <1>1, <1>2, <1>5, KillType
        DEF TakeOffsFunction, LoopTest, PlanesTest, TryRunway1, TryRunway2, TryRunway, LockState,
            LoadPlanes, StorePlanes, CountTakeoff, SignalRadio, SignalGround, UnlockState,
            ReleaseRunway, Finish, OSTypeOK
    <2>2. OSTypeOK' /\ RadioTypeOK'
        BY <1>5, <2>1 DEF TakeOffsFunction, OSTypeOK, RadioTypeOK, radioVars
    <2>3. pc' \in [Controllers -> Labels]
        BY <1>5
        DEF TakeOffsFunction, LoopTest, PlanesTest, TryRunway1, TryRunway2, TryRunway, LockState,
            LoadPlanes, StorePlanes, CountTakeoff, SignalRadio, SignalGround, UnlockState,
            ReleaseRunway, Finish, Step, AirTypeOK, Labels
    <2>4. AirTypeOK'
        BY <1>5, <2>3
        DEF TakeOffsFunction, LoopTest, PlanesTest, TryRunway1, TryRunway2, TryRunway, LockState,
            LoadPlanes, StorePlanes, CountTakeoff, SignalRadio, SignalGround, UnlockState,
            ReleaseRunway, Finish, AirTypeOK, Runways, countVars, lockVars, handlerVars
    <2>5. QED
        BY <2>2, <2>4
<1>6. ASSUME NEW t \in Threads, SigHandler2(t)
      PROVE  OSTypeOK' /\ RadioTypeOK' /\ AirTypeOK'
    <2>1. pending' \in [Procs -> SUBSET Signals] /\ handled' \in [Procs -> SUBSET Signals]
        BY <1>1, <1>2, <1>6, TakeType
        DEF SigHandler2, EnterSigHandler2, SigHandler2Load, SigHandler2Store, OSTypeOK
    <2>2. OSTypeOK' /\ RadioTypeOK'
        BY <1>6, <2>1 DEF SigHandler2, OSTypeOK, RadioTypeOK, radioVars
    <2>3. AirTypeOK'
        BY <1>6 DEF SigHandler2, EnterSigHandler2, SigHandler2Load, SigHandler2Store,
           AirTypeOK, lockVars, threadVars
    <2>4. QED
        BY <2>2, <2>3
<1>7. CASE DefaultAction("air") /\ UNCHANGED <<radioVars, airVars>>
    BY <1>1, <1>7, DefaultActionType
    DEF RadioTypeOK, AirTypeOK, radioVars, airVars, countVars, lockVars, threadVars, handlerVars
<1>8. QED
    BY <1>3, <1>4, <1>5, <1>6, <1>7 DEF AirNext

\* Every variable of the three programs and of the kernel keeps its type.
THEOREM TypeCorrect == Spec => []TypeOK
<1>1. Init => TypeOK
    <2>1. SUFFICES ASSUME Init PROVE TypeOK
        OBVIOUS
    <2>2. OSTypeOK
        <3>1. shm \in [Procs -> SlotValues]
            BY <2>1 DEF Init, OSInit, SlotValues
        <3>2. stack \in [Procs -> Seq(Frames)]
            BY <2>1 DEF Init, OSInit
        <3>3. QED
            BY <2>1, <3>1, <3>2, StaleMemoryAssumption DEF Init, OSInit, OSTypeOK
    <2>3. RadioTypeOK /\ GroundTypeOK
        BY <2>1 DEF Init, RadioInit, GroundInit, RadioTypeOK, GroundTypeOK
    <2>4. AirTypeOK
        BY <2>1 DEF Init, AirInit, AirTypeOK, Labels, Runways, Threads
    <2>5. QED
        BY <2>2, <2>3, <2>4 DEF TypeOK
<1>2. TypeOK /\ [Next]_vars => TypeOK'
    <2>1. SUFFICES ASSUME TypeOK, [Next]_vars PROVE TypeOK'
        OBVIOUS
    <2>2. CASE AirNext /\ UNCHANGED groundVars
        BY <2>1, <2>2, AirType DEF TypeOK, GroundTypeOK, groundVars
    <2>3. CASE RadioNext /\ UNCHANGED <<airVars, groundVars>>
        BY <2>1, <2>3, RadioType DEF TypeOK, GroundTypeOK, groundVars,
           AirTypeOK, airVars, countVars, lockVars, threadVars, handlerVars
    <2>4. CASE GroundNext /\ UNCHANGED <<radioVars, airVars>>
        BY <2>1, <2>4, GroundType DEF TypeOK, RadioTypeOK, radioVars,
           AirTypeOK, airVars, countVars, lockVars, threadVars, handlerVars
    <2>5. CASE UNCHANGED vars
        BY <2>1, <2>5 DEF TypeOK, OSTypeOK, RadioTypeOK, GroundTypeOK, AirTypeOK, vars, osVars,
           radioVars, groundVars, airVars, countVars, lockVars, threadVars, handlerVars
    <2>6. QED
        BY <2>1, <2>2, <2>3, <2>4, <2>5 DEF Next
<1>3. QED
    BY <1>1, <1>2, PTL DEF Spec

-----------------------------------------------------------------------------
(* Locks *)

\* Until main() creates them the controllers are not in their loop, so that
\* creating them cannot take a controller out of its critical section.
IdleUntilCreated ==
    main_pc \in {"create", "truncate", "store", "sigaction", "fork", "spawn"} =>
        \A t \in Controllers : pc[t] = "idle"

LockInv == AirTypeOK /\ IdleUntilCreated /\ LocksHeld

\* A step of a controller that takes or gives back no mutex, and stays on its
\* side of each critical section, leaves the locks as they were.
LEMMA SameSide ==
    ASSUME LockInv, NEW t \in Controllers, NEW from \in Labels, NEW to \in Labels,
           Step(t, from, to), UNCHANGED <<lockVars, current_runway>>,
           from \in OnRunway <=> to \in OnRunway,
           from \in Critical <=> to \in Critical
    PROVE  LocksHeld'
<1>1. \A u \in Controllers :
          /\ pc'[u] \in OnRunway <=> pc[u] \in OnRunway
          /\ pc'[u] \in Critical <=> pc[u] \in Critical
    BY DEF Step, LockInv, AirTypeOK
<1>2. QED
    BY <1>1, Zenon DEF LockInv, LocksHeld, lockVars

\* No step of a controller breaks the discipline of the three mutexes.
LEMMA ControllerLocks ==
    ASSUME LockInv, NEW t \in Controllers, TakeOffsFunction(t)
    PROVE  LocksHeld'
<1> USE ControllersAssumption
<1>1. CASE LoopTest(t) \/ PlanesTest(t)
    BY <1>1, SameSide DEF LoopTest, PlanesTest, Labels, OnRunway, Critical, Step
<1>2. CASE LoadPlanes(t) \/ StorePlanes(t) \/ SignalRadio(t) \/ SignalGround(t)
    BY <1>2, SameSide DEF LoadPlanes, StorePlanes, SignalRadio, SignalGround, lockVars,
       Labels, OnRunway, Critical
<1>3. CASE CountTakeoff(t)
    BY <1>3, SameSide DEF CountTakeoff, Labels, OnRunway, Critical
<1>4. CASE Finish(t)
    BY <1>4, SameSide DEF Finish, Labels, OnRunway, Critical
<1>5. CASE TryRunway1(t)
    BY <1>5 DEF TryRunway1, TryRunway, Step, LockInv, AirTypeOK, LocksHeld, OnRunway, Critical, Runways
<1>6. CASE TryRunway2(t)
    BY <1>6 DEF TryRunway2, TryRunway, Step, LockInv, AirTypeOK, LocksHeld, OnRunway, Critical, Runways
<1>7. CASE LockState(t)
    BY <1>7 DEF LockState, Step, LockInv, AirTypeOK, LocksHeld, OnRunway, Critical, Runways
<1>8. CASE UnlockState(t)
    BY <1>8 DEF UnlockState, Step, LockInv, AirTypeOK, LocksHeld, OnRunway, Critical, Runways
<1>9. CASE ReleaseRunway(t)
    BY <1>9 DEF ReleaseRunway, Step, LockInv, AirTypeOK, LocksHeld, OnRunway, Critical, Runways
<1>10. QED
    BY <1>1, <1>2, <1>3, <1>4, <1>5, <1>6, <1>7, <1>8, <1>9 DEF TakeOffsFunction

\* No step of the airport breaks it: only a controller changes a mutex.
LEMMA LocksStep ==
    ASSUME LockInv, AirTypeOK', [Next]_vars
    PROVE  LockInv'
<1>1. CASE UNCHANGED airVars
    BY <1>1 DEF LockInv, IdleUntilCreated, LocksHeld, airVars, lockVars, threadVars
<1>2. CASE AirMain
    <2>1. CASE UNCHANGED pc
        <3>1. IdleUntilCreated'
            BY <1>2, <2>1 DEF LockInv, IdleUntilCreated, AirMain, MemoryCreate, OpenMemory,
               SizeMemory, StoreAirPid, GiveSize, InstallSigHandler2,
               Fork, CreateThreads, JoinAndCleanUp, MainStep
        <3>2. LocksHeld'
            BY <1>2, <2>1 DEF LockInv, LocksHeld, AirMain, lockVars
        <3>3. QED
            BY <3>1, <3>2 DEF LockInv
    <2>2. CASE CreateThreads
        <3>1. main_pc' = "join" /\ \A t \in Controllers : pc[t] = "idle" /\ pc'[t] = "loop"
            BY <2>2 DEF CreateThreads, MainStep, LockInv, IdleUntilCreated
        <3>2. LocksHeld'
            BY <1>2, <3>1 DEF LockInv, LocksHeld, OnRunway, Critical, AirMain, lockVars
        <3>3. QED
            BY <3>1, <3>2 DEF LockInv, IdleUntilCreated
    <2>3. QED
        BY <1>2, <2>1, <2>2 DEF AirMain
<1>3. ASSUME NEW t \in Controllers, TakeOffsFunction(t)
      PROVE  LockInv'
    <2>1. LocksHeld'
        BY <1>3, ControllerLocks
    <2>2. pc[t] # "idle" /\ UNCHANGED main_pc
        BY <1>3 DEF TakeOffsFunction, LoopTest, PlanesTest, TryRunway1, TryRunway2, TryRunway,
           LockState, LoadPlanes, StorePlanes, CountTakeoff, SignalRadio, SignalGround,
           UnlockState, ReleaseRunway, Finish, Step
    <2>3. IdleUntilCreated'
        BY <2>2 DEF LockInv, IdleUntilCreated
    <2>4. QED
        BY <2>1, <2>3 DEF LockInv
<1>4. ASSUME NEW t \in Threads, SigHandler2(t)
      PROVE  LockInv'
    BY <1>4 DEF SigHandler2, LockInv, IdleUntilCreated, LocksHeld, lockVars, threadVars
<1>5. QED
    BY <1>1, <1>2, <1>3, <1>4 DEF Next, AirNext, RadioLaunch, vars

\* LockInv, the inductive form of LocksHeld, is an invariant.
LEMMA LocksInvariant == Spec => []LockInv
<1>1. Init => LockInv
    <2>1. SUFFICES ASSUME Init PROVE LockInv
        OBVIOUS
    <2>2. AirTypeOK
        BY <2>1 DEF Init, AirInit, AirTypeOK, Labels, Runways, Threads
    <2>3. IdleUntilCreated
        BY <2>1 DEF Init, AirInit, IdleUntilCreated
    <2>4. LocksHeld
        BY <2>1, ControllersAssumption DEF Init, AirInit, LocksHeld, OnRunway, Critical
    <2>5. QED
        BY <2>2, <2>3, <2>4 DEF LockInv
<1>2. LockInv /\ TypeOK' /\ [Next]_vars => LockInv'
    BY LocksStep DEF TypeOK
<1>3. QED
    BY <1>1, <1>2, TypeCorrect, PTL DEF Spec

\* The three mutexes and the controllers' own idea of what they hold agree
\* always (LocksHeld): a runway is used, and the counts are changed, by one
\* controller at a time, for any number of controllers.
THEOREM MutualExclusion == Spec => []LocksHeld
<1>1. LockInv => LocksHeld
    BY DEF LockInv
<1>2. QED
    BY <1>1, LocksInvariant, PTL

-----------------------------------------------------------------------------
(* Overshoot *)

\* LocksHeld does not help here: the loop test reads total_takeoffs without the
\* lock.  What is inductive counts the controllers past the test as well: while
\* the total is below TOTAL_TAKEOFFS they cannot be more than all of them, and
\* once it is not, no controller joins them and each leaves with one take-off.
CommittedBounded ==
    total_takeoffs + Cardinality(Committed) <= TOTAL_TAKEOFFS + Cardinality(Controllers) - 1

\* Committed is a finite set, no larger than Controllers.
LEMMA CommittedSize ==
    /\ IsFiniteSet(Committed)
    /\ Cardinality(Committed) \in Nat
    /\ Cardinality(Controllers) \in Nat
    /\ Cardinality(Committed) <= Cardinality(Controllers)
BY ControllersAssumption, FS_Subset, FS_CardinalityType DEF Committed

\* A step that lets no controller past the loop test, and counts nothing, keeps
\* the bound.
LEMMA NobodyJoins ==
    ASSUME CommittedBounded, AirTypeOK, Committed' \subseteq Committed, UNCHANGED total_takeoffs
    PROVE  CommittedBounded'
<1>1. Cardinality(Committed') <= Cardinality(Committed) /\ Cardinality(Committed') \in Nat
    BY CommittedSize, FS_Subset, FS_CardinalityType
<1>2. QED
    BY <1>1, CommittedSize, TotalAssumption DEF CommittedBounded, AirTypeOK

\* A controller that leaves the loop test commits while the total is too low.
LEMMA LoopTestBounded ==
    ASSUME CommittedBounded, AirTypeOK, NEW t \in Controllers, LoopTest(t)
    PROVE  CommittedBounded'
<1>1. CASE total_takeoffs < TOTAL_TAKEOFFS
    <2>1. IsFiniteSet(Controllers) /\ Committed' \subseteq Controllers
        BY ControllersAssumption DEF Committed
    <2>2. Cardinality(Committed') <= Cardinality(Controllers) /\ Cardinality(Committed') \in Nat
        BY <2>1, FS_Subset, FS_CardinalityType
    <2>3. UNCHANGED total_takeoffs
        BY DEF LoopTest, countVars
    <2>4. QED
        BY <1>1, <2>2, <2>3, CommittedSize, TotalAssumption DEF CommittedBounded, AirTypeOK
<1>2. CASE ~(total_takeoffs < TOTAL_TAKEOFFS)
    <2>1. pc' = [pc EXCEPT ![t] = "finish"]
        BY <1>2 DEF LoopTest, Step
    <2>2. Committed' \subseteq Committed
        BY <2>1 DEF Committed, AirTypeOK
    <2>3. QED
        BY <2>2, NobodyJoins DEF LoopTest, countVars
<1>3. QED
    BY <1>1, <1>2

\* A controller that counts its take-off is no longer committed to one.
LEMMA CountTakeoffBounded ==
    ASSUME CommittedBounded, AirTypeOK, NEW t \in Controllers, CountTakeoff(t)
    PROVE  CommittedBounded'
<1>1. t \in Committed
    BY DEF CountTakeoff, Step, Committed
<1>2. Committed' = Committed \ {t}
    BY DEF CountTakeoff, Step, Committed, AirTypeOK
<1>3. Cardinality(Committed') = Cardinality(Committed) - 1
    BY <1>1, <1>2, CommittedSize, FS_RemoveElement
<1>4. total_takeoffs' = total_takeoffs + 1
    BY DEF CountTakeoff
<1>5. QED
    BY <1>3, <1>4, CommittedSize, TotalAssumption DEF CommittedBounded, AirTypeOK

\* No other step of a controller gets it past the loop test.
LEMMA OthersBounded ==
    ASSUME CommittedBounded, AirTypeOK, NEW t \in Controllers, TakeOffsFunction(t),
           ~LoopTest(t), ~CountTakeoff(t)
    PROVE  CommittedBounded'
<1>1. UNCHANGED total_takeoffs
    BY DEF TakeOffsFunction, PlanesTest, TryRunway1, TryRunway2, TryRunway, LockState, LoadPlanes,
       StorePlanes, SignalRadio, SignalGround, UnlockState, ReleaseRunway, Finish, countVars
<1>2. Committed' \subseteq Committed
    BY DEF TakeOffsFunction, PlanesTest, TryRunway1, TryRunway2, TryRunway, LockState, LoadPlanes,
       StorePlanes, SignalRadio, SignalGround, UnlockState, ReleaseRunway, Finish, Step,
       Committed, AirTypeOK
<1>3. QED
    BY <1>1, <1>2, NobodyJoins

\* Creating the controllers, and every step that is not a controller's, leaves
\* them on their side of the loop test.
LEMMA CommittedStep ==
    ASSUME CommittedBounded, LockInv, [Next]_vars
    PROVE  CommittedBounded'
<1> USE DEF LockInv
<1>1. CASE UNCHANGED airVars
    BY <1>1, NobodyJoins DEF airVars, countVars, threadVars, Committed
<1>2. CASE AirMain
    <2>1. UNCHANGED total_takeoffs
        BY <1>2 DEF AirMain, countVars
    <2>2. CASE UNCHANGED pc
        BY <2>1, <2>2, NobodyJoins DEF Committed
    <2>3. CASE CreateThreads
        BY <2>1, <2>3, NobodyJoins DEF CreateThreads, Committed
    <2>4. QED
        BY <1>2, <2>2, <2>3 DEF AirMain
<1>3. ASSUME NEW t \in Controllers, TakeOffsFunction(t)
      PROVE  CommittedBounded'
    BY <1>3, LoopTestBounded, CountTakeoffBounded, OthersBounded
<1>4. ASSUME NEW t \in Threads, SigHandler2(t)
      PROVE  CommittedBounded'
    BY <1>4, NobodyJoins DEF SigHandler2, threadVars, Committed
<1>5. QED
    BY <1>1, <1>2, <1>3, <1>4 DEF Next, AirNext, RadioLaunch, vars

\* Whatever the interleaving, air control counts at most one take-off too many
\* for each of the other controllers (OvershootBounded).
THEOREM Overshoot == Spec => []OvershootBounded
<1>1. Init => CommittedBounded
    <2>1. SUFFICES ASSUME Init PROVE CommittedBounded
        OBVIOUS
    <2>2. Committed = {} /\ total_takeoffs = 0
        BY <2>1 DEF Init, AirInit, Committed
    <2>3. Cardinality(Committed) = 0
        BY <2>2, FS_EmptySet
    <2>4. Cardinality(Controllers) \in Nat /\ Cardinality(Controllers) # 0
        BY ControllersAssumption, FS_CardinalityType, FS_EmptySet
    <2>5. QED
        BY <2>2, <2>3, <2>4, TotalAssumption DEF CommittedBounded
<1>2. CommittedBounded /\ LockInv /\ [Next]_vars => CommittedBounded'
    BY CommittedStep
<1>3. CommittedBounded /\ TypeOK => OvershootBounded
    BY CommittedSize, TotalAssumption DEF CommittedBounded, OvershootBounded, TypeOK, AirTypeOK
<1>4. Spec => []LockInv
    BY LocksInvariant
<1>5. QED
    BY <1>1, <1>2, <1>3, <1>4, TypeCorrect, PTL DEF Spec

-----------------------------------------------------------------------------
(* Before the first tick *)

\* No plane has been announced: no signal is about, no handler runs, and every
\* controller waits for a plane.
Asleep ==
    /\ ground_planes = 0
    /\ \A p \in Procs : pending[p] = {} /\ stack[p] = <<>>
    /\ air_planes = 0 /\ total_takeoffs = 0
    /\ \A t \in Controllers : pc[t] \in {"idle", "loop", "planes"}
    /\ \A t \in Threads : hpc[t] = "none"

\* Only ground control's timer wakes the airport, if there are take-offs to be
\* made: else the controllers would end the radio at once.
LEMMA StaysAsleep ==
    ASSUME TypeOK, Asleep, [Next]_vars, ~GroundTimer, TOTAL_TAKEOFFS > 0
    PROVE  Asleep'
<1> USE DEF Asleep, Procs
<1>0. OSTypeOK /\ AirTypeOK BY DEF TypeOK
<1>1. CASE AirMain /\ UNCHANGED groundVars
  <2>1. UNCHANGED pc \/ \A t \in Controllers : pc'[t] = "loop"
    BY <1>1 DEF AirMain, CreateThreads
  <2>2. \A p \in Procs : pending'[p] = {} /\ stack'[p] = <<>>
    BY <1>0, <1>1 DEF AirMain, MemoryCreate, OpenMemory, SizeMemory, StoreAirPid, GiveSize,
       InstallSigHandler2, Fork, CreateThreads, JoinAndCleanUp,
       Exit, OSTypeOK, osVars
  <2> QED BY <1>1, <2>1, <2>2 DEF AirMain, countVars, handlerVars, groundVars
<1>2. CASE RadioLaunch /\ UNCHANGED groundVars
  BY <1>0, <1>2 DEF RadioLaunch, ChildStoresPid, Execl, ChildSigHandler2, Take, airVars, countVars,
     threadVars, handlerVars, groundVars
<1>3. ASSUME NEW t \in Controllers, TakeOffsFunction(t), UNCHANGED groundVars PROVE Asleep'
  <2>1. LoopTest(t) \/ PlanesTest(t)
    BY <1>0, <1>3 DEF TakeOffsFunction, TryRunway1, TryRunway2, TryRunway, LockState, LoadPlanes,
       StorePlanes, CountTakeoff, SignalRadio, SignalGround, UnlockState, ReleaseRunway, Finish, Step
  <2>2. pc' = [pc EXCEPT ![t] = "planes"] \/ pc' = [pc EXCEPT ![t] = "loop"]
    <3>1. CASE LoopTest(t)
      <4>1. total_takeoffs < TOTAL_TAKEOFFS BY TotalAssumption
      <4> QED BY <3>1, <4>1 DEF LoopTest, Step
    <3>2. CASE PlanesTest(t)
      <4>1. air_planes <= 0 OBVIOUS
      <4> QED BY <3>2, <4>1 DEF PlanesTest, Step
    <3> QED BY <2>1, <3>1, <3>2
  <2>3. \A u \in Controllers : pc'[u] \in {"idle", "loop", "planes"}
    BY <1>0, <2>2 DEF AirTypeOK
  <2> QED BY <1>3, <2>1, <2>3 DEF LoopTest, PlanesTest, countVars, handlerVars, groundVars,
     TakeOffsFunction
<1>4. ASSUME NEW t \in Threads, SigHandler2(t) PROVE FALSE
  BY <1>4 DEF SigHandler2, EnterSigHandler2, SigHandler2Load, SigHandler2Store, Take
<1>5. ASSUME NEW p \in Procs, DefaultAction(p) PROVE FALSE
  BY <1>5 DEF DefaultAction
<1>6. CASE RadioNext /\ UNCHANGED <<airVars, groundVars>>
  <2>1. UNCHANGED <<ground_planes, air_planes, total_takeoffs, pc, hpc>>
    BY <1>6 DEF airVars, groundVars, countVars, threadVars, handlerVars
  <2>2. \A s \in Signals : ~RadioSignal(s) BY DEF RadioSignal, EnterHandler, Take
  <2>3. ~RadioHandlers
    BY DEF RadioHandlers, RadioSigHandler1, RadioSigHandler2, RadioSigTerm, RadioReport,
       RadioDismissGround, RadioUnlink, Running
  <2>4. \A p \in Procs : pending'[p] = {} /\ stack'[p] = <<>>
    BY <1>0, <1>5, <1>6, <2>2, <2>3 DEF RadioNext, RadioOpen, RadioInstall, RadioQuit, Exit, OSTypeOK
  <2> QED BY <2>1, <2>4
<1>7. CASE GroundNext /\ UNCHANGED <<radioVars, airVars>>
  <2>1. UNCHANGED <<air_planes, total_takeoffs, pc, hpc>>
    BY <1>7 DEF airVars, countVars, threadVars, handlerVars
  <2>2. \A s \in Signals : ~GroundSignal(s) BY DEF GroundSignal, EnterHandler, Take
  <2>3. ~Traffic /\ ~GroundSigHandler1 /\ ~SigHandlerTerm
    BY DEF Traffic, Tick, Announce, GroundSigHandler1, SigHandlerTerm, Running
  <2>4. MemoryOpen \/ GroundInstall BY <1>5, <1>7, <2>2, <2>3 DEF GroundNext
  <2> QED BY <2>1, <2>4 DEF MemoryOpen, GroundInstall
<1>8. CASE UNCHANGED vars
  BY <1>8 DEF vars, osVars, groundVars, airVars, countVars, threadVars, handlerVars
<1> QED BY <1>1, <1>2, <1>3, <1>4, <1>5, <1>6, <1>7, <1>8 DEF Next, AirNext

LEMMA InitiallyAsleep == Init => Asleep
BY DEF Init, OSInit, AirInit, GroundInit, Asleep, Threads

\* Until ground control's pid is in its slot ground control is not there, and the
\* airport sleeps.
Ungrounded ==
    /\ Up("ground") => shm["ground"] = "pid"
    /\ shm["ground"] # "pid" => Asleep

\* Nothing takes the pid out again: air control writes its own slot only, and the
\* child the radio's.
LEMMA SlotKept ==
    ASSUME TypeOK, [Next]_vars
    PROVE  /\ shm["ground"] = "pid" => shm'["ground"] = "pid"
           /\ status'["ground"] = "up" => status["ground"] = "up" \/ shm'["ground"] = "pid"
<1> USE DEF Procs
<1>0. OSTypeOK BY DEF TypeOK
<1>1. ASSUME NEW p \in Procs, Exit(p) PROVE status'["ground"] = "up" => status["ground"] = "up"
  BY <1>0, <1>1 DEF Exit, OSTypeOK
<1>2. CASE AirNext
  BY <1>0, <1>1, <1>2 DEF AirNext, AirMain, MemoryCreate, OpenMemory, SizeMemory, StoreAirPid,
     GiveSize, InstallSigHandler2, Fork, CreateThreads,
     JoinAndCleanUp, RadioLaunch, ChildStoresPid, Execl, ChildSigHandler2, TakeOffsFunction,
     SigHandler2, DefaultAction, OSTypeOK, osVars
<1>3. CASE RadioNext
  BY <1>0, <1>1, <1>3 DEF RadioNext, RadioOpen, RadioInstall, RadioQuit, RadioSignal, EnterHandler,
     RadioHandlers, RadioSigTerm, RadioReport, RadioDismissGround, RadioUnlink, DefaultAction
<1>4. CASE GroundNext
  BY <1>0, <1>1, <1>4 DEF GroundNext, MemoryOpen, GroundInstall, GroundTimer, GroundSignal,
     EnterHandler,
     Traffic, GroundSigHandler1, SigHandlerTerm, DefaultAction, OSTypeOK
<1>5. CASE UNCHANGED vars BY <1>5 DEF vars, osVars
<1> QED BY <1>2, <1>3, <1>4, <1>5 DEF Next

LEMMA UngroundedInvariant == ASSUME TOTAL_TAKEOFFS > 0 PROVE Spec => []Ungrounded
<1>1. Init => Ungrounded
  <2>1. Init => ~Up("ground") BY DEF Init, OSInit, Up, Procs
  <2> QED BY <2>1, InitiallyAsleep DEF Ungrounded
<1>2. TypeOK /\ Ungrounded /\ [Next]_vars => Ungrounded'
  <2> SUFFICES ASSUME TypeOK, Ungrounded, [Next]_vars PROVE Ungrounded'
    OBVIOUS
  <2>1. Up("ground")' => shm'["ground"] = "pid" BY SlotKept DEF Ungrounded, Up
  <2>2. ASSUME shm'["ground"] # "pid" PROVE Asleep'
    <3>1. Asleep /\ ~Up("ground") BY <2>2, SlotKept DEF Ungrounded
    <3> QED BY <3>1, StaysAsleep DEF GroundTimer
  <2> QED BY <2>1, <2>2 DEF Ungrounded
<1> QED BY <1>1, <1>2, TypeCorrect, PTL DEF Spec

\* Nobody signals ground control before its pid is in its slot (GroundAddressed),
\* whatever an earlier run has left in the memory, in whatever order the programs
\* start and whichever flags their handlers have.
THEOREM GroundIsAddressed == ASSUME TOTAL_TAKEOFFS > 0 PROVE Spec => []GroundAddressed
<1>1. Ungrounded => GroundAddressed
  BY DEF Ungrounded, Asleep, GroundAddressed, Procs
<1> QED BY <1>1, UngroundedInvariant, PTL

-----------------------------------------------------------------------------
(* What the radio counts *)

\* The take-offs of the batch that the radio has not been told of: takeoffs is
\* reset only after ground control has been told as well.
Unreported == IF \E t \in Controllers : pc[t] = "usr1ground" THEN 0 ELSE air_takeoffs

\* A SIGUSR1 on its way to the radio, or in its handler, is a batch of take-offs;
\* a second one merges with the first.
TakeoffsCovered ==
    radio_takeoffs + Unreported + Credit("USR1" \in pending["radio"])
        + Credit(Frame("radio", "USR1", 0)) <= total_takeoffs

\* A controller that reports has a whole batch to report.
FullBatch == \A t \in Controllers : pc[t] \in {"usr1radio", "usr1ground"} => air_takeoffs = BATCH

InBatches == \E k \in Nat : radio_takeoffs = k * BATCH

RadioInv == OneFrameEach /\ FullBatch /\ TakeoffsCovered /\ InBatches

Known == TypeOK /\ LockInv /\ Ungrounded

LEMMA Numbers ==
    ASSUME TypeOK
    PROVE  /\ radio_takeoffs \in Nat /\ air_takeoffs \in Nat /\ total_takeoffs \in Nat
           /\ Unreported \in Nat
           /\ \A b \in BOOLEAN : Credit(b) \in Nat
BY BatchAssumption DEF TypeOK, RadioTypeOK, AirTypeOK, Unreported, Credit

\* A step that reports and counts nothing.
LEMMA NothingReported ==
    ASSUME Known, TypeOK', RadioInv, OneFrameEach', Quiet("USR1"),
           UNCHANGED <<radio_takeoffs, air_takeoffs, total_takeoffs>>,
           \A t \in Controllers : pc'[t] # pc[t] =>
              pc'[t] \notin {"usr1radio", "usr1ground"} /\ pc[t] \notin {"usr1radio", "usr1ground"}
    PROVE  RadioInv'
<1>1. UNCHANGED Unreported /\ FullBatch' BY DEF Unreported, RadioInv, FullBatch
<1>2. TakeoffsCovered'
  BY <1>1, Numbers, BatchAssumption DEF Known, RadioInv, TakeoffsCovered, Quiet, Credit, Procs
<1> QED BY <1>1, <1>2 DEF RadioInv, InBatches

LEMMA RadioReports ==
    ASSUME Known, TypeOK', RadioInv, RadioNext, UNCHANGED airVars
    PROVE  RadioInv'
<1> USE DEF Procs, Signals
<1>0. OSTypeOK /\ OneFrameEach BY DEF Known, TypeOK, RadioInv
<1>1. UNCHANGED <<air_takeoffs, total_takeoffs, pc, Unreported>> /\ FullBatch'
  BY DEF airVars, countVars, threadVars, Unreported, RadioInv, FullBatch
<1>2. OneFrameEach' BY <1>0, RadioFrames
<1>3. CASE RadioOpen \/ RadioInstall \/ RadioQuit
  <2>1. Quiet("USR1") BY <1>0, <1>3, ExitQuiet, StillQuiet DEF RadioOpen, RadioInstall, RadioQuit
  <2> QED BY <1>1, <1>2, <1>3, <2>1, NothingReported DEF RadioOpen, RadioInstall, RadioQuit, radioVars
<1>4. ASSUME NEW s \in Signals, RadioSignal(s) PROVE RadioInv'
  <2>0. EnterHandler("radio", s) /\ UNCHANGED radio_takeoffs BY <1>4 DEF RadioSignal, radioVars
  <2>1. CASE s # "USR1"
    <3>1. Quiet("USR1") BY <1>0, <2>0, <2>1, Delivery
    <3> QED BY <1>1, <1>2, <2>0, <3>1, NothingReported
  <2>2. CASE s = "USR1"
    <3>1. /\ "USR1" \in pending["radio"] /\ "USR1" \notin pending'["radio"]
          /\ ~Frame("radio", "USR1", 0) /\ Frame("radio", "USR1", 0)'
      BY <1>0, <2>0, <2>2, Delivery
    <3>2. TakeoffsCovered'
      BY <1>1, <2>0, <3>1, Numbers, BatchAssumption DEF Known, RadioInv, TakeoffsCovered, Credit
    <3> QED BY <1>1, <1>2, <2>0, <3>2 DEF RadioInv, InBatches
  <2> QED BY <2>1, <2>2
<1>5. CASE RadioSigHandler1 /\ Running("radio", "USR1", 0)
  <2>1. Advance("radio") /\ UNCHANGED pending /\ radio_takeoffs' = radio_takeoffs + BATCH
    BY <1>5 DEF RadioSigHandler1, Running
  <2>2. Frame("radio", "USR1", 0) /\ ~Frame("radio", "USR1", 0)' BY <1>0, <1>5, <2>1, AdvanceFrames
  <2>3. TakeoffsCovered'
    BY <1>1, <2>1, <2>2, Numbers, BatchAssumption DEF Known, RadioInv, TakeoffsCovered, Credit
  <2>4. InBatches'
    <3>1. PICK k \in Nat : radio_takeoffs = k * BATCH BY DEF RadioInv, InBatches
    <3>2. k + 1 \in Nat /\ (k + 1) * BATCH = k * BATCH + BATCH BY BatchAssumption
    <3> QED BY <2>1, <3>1, <3>2 DEF InBatches
  <2> QED BY <1>1, <1>2, <2>3, <2>4 DEF RadioInv
<1>6. CASE RadioSigHandler1 /\ Running("radio", "USR1", 1)
  <2>1. Return("radio") /\ Kill("ground", "USR1") /\ UNCHANGED radio_takeoffs
    BY <1>6 DEF RadioSigHandler1, Running
  <2>2. shm["ground"] = "pid" BY <1>6 DEF Known, Ungrounded, Asleep, Running
  <2>3. ~Frame("radio", "USR1", 0)' BY <1>0, <1>6, <2>1, ReturnFrames
  <2>4. "USR1" \in pending'["radio"] => "USR1" \in pending["radio"] BY <1>0, <2>1, <2>2, KillOwner
  <2>5. TakeoffsCovered'
    BY <1>1, <2>1, <2>3, <2>4, Numbers, BatchAssumption DEF Known, RadioInv, TakeoffsCovered, Credit
  <2> QED BY <1>1, <1>2, <2>1, <2>5 DEF RadioInv, InBatches
<1>7. CASE RadioSigHandler2
  <2>1. UNCHANGED radio_takeoffs /\ (UNCHANGED pending \/ Kill("air",
     "USR2")) BY <1>7 DEF RadioSigHandler2
  <2>2. Frame("radio", "USR1", 0)' => Frame("radio", "USR1", 0)
    BY <1>0, <1>7, AdvanceFrames, ReturnFrames DEF RadioSigHandler2, OtherFramesKept
  <2>3. "USR1" \in pending'["radio"] => "USR1" \in pending["radio"] BY <1>0, <2>1, KillOnly
  <2>4. TakeoffsCovered'
    BY <1>1, <2>1, <2>2, <2>3, Numbers, BatchAssumption DEF Known, RadioInv, TakeoffsCovered, Credit
  <2> QED BY <1>1, <1>2, <2>1, <2>4 DEF RadioInv, InBatches
<1>8. CASE RadioSigTerm
  <2>1. UNCHANGED radio_takeoffs BY <1>8 DEF RadioSigTerm
  <2>2. CASE RadioReport \/ RadioDismissGround
    <3>1. UNCHANGED pending \/ Kill("ground", "TERM") BY <2>2 DEF RadioReport, RadioDismissGround
    <3>2. Frame("radio", "USR1", 0)' => Frame("radio", "USR1", 0)
      BY <1>0, <2>2, AdvanceFrames DEF RadioReport, RadioDismissGround, OtherFramesKept
    <3>3. "USR1" \in pending'["radio"] => "USR1" \in pending["radio"] BY <1>0, <3>1, KillOnly
    <3>4. TakeoffsCovered'
      BY <1>1, <2>1, <3>2, <3>3, Numbers, BatchAssumption DEF Known, RadioInv, TakeoffsCovered, Credit
    <3> QED BY <1>1, <1>2, <2>1, <3>4 DEF RadioInv, InBatches
  <2>3. CASE RadioUnlink
    <3>1. Quiet("USR1") BY <1>0, <2>3, ExitQuiet DEF RadioUnlink
    <3> QED BY <1>1, <1>2, <2>1, <3>1, NothingReported
  <2> QED BY <1>8, <2>2, <2>3 DEF RadioSigTerm
<1>9. CASE DefaultAction("radio") /\ UNCHANGED radioVars
  <2>1. Quiet("USR1") BY <1>0, <1>9, DefaultFrames
  <2> QED BY <1>1, <1>2, <1>9, <2>1, NothingReported DEF radioVars
<1> QED BY <1>3, <1>4, <1>5, <1>6, <1>7, <1>8, <1>9 DEF RadioNext, RadioHandlers, RadioSigHandler1

LEMMA GroundReports ==
    ASSUME Known, TypeOK', RadioInv, GroundNext, UNCHANGED <<radioVars, airVars>>
    PROVE  RadioInv'
<1> USE DEF Procs, Signals
<1>0. OSTypeOK /\ OneFrameEach BY DEF Known, TypeOK, RadioInv
<1>1. UNCHANGED <<radio_takeoffs, air_takeoffs, total_takeoffs, pc, Unreported>> /\ FullBatch'
  BY DEF airVars, radioVars, countVars, threadVars, Unreported, RadioInv, FullBatch
<1>2. OneFrameEach' BY <1>0, GroundFrames
<1>3. /\ "USR1" \in pending'["radio"] => "USR1" \in pending["radio"]
      /\ Frame("radio", "USR1", 0)' => Frame("radio", "USR1", 0)
  <2>1. ASSUME \A s \in Signals : Quiet(s)
        PROVE  /\ "USR1" \in pending'["radio"] => "USR1" \in pending["radio"]
               /\ Frame("radio", "USR1", 0)' => Frame("radio", "USR1", 0)
    BY <2>1 DEF Quiet
  <2>2. CASE MemoryOpen \/ GroundInstall BY <1>0, <2>1, <2>2, StillQuiet DEF MemoryOpen, GroundInstall
  <2>3. CASE GroundTimer BY <1>0, <2>3, SameFrames DEF GroundTimer, OSTypeOK
  <2>4. ASSUME NEW s \in Signals, GroundSignal(s)
        PROVE  /\ "USR1" \in pending'["radio"] => "USR1" \in pending["radio"]
               /\ Frame("radio", "USR1", 0)' => Frame("radio", "USR1", 0)
    <3>1. EnterHandler("ground", s) BY <2>4 DEF GroundSignal
    <3> QED BY <1>0, <3>1, Delivery DEF Quiet
  <2>5. CASE Traffic
    <3>1. UNCHANGED pending \/ Kill("radio", "USR2") BY <2>5 DEF Traffic, Tick, Announce
    <3>2. "USR1" \in pending'["radio"] => "USR1" \in pending["radio"] BY <1>0, <3>1, KillOnly
    <3>3. Frame("radio", "USR1", 0)' => Frame("radio", "USR1", 0)
      BY <1>0, <2>5, AdvanceFrames, ReturnFrames DEF Traffic, Tick, Announce, OtherFramesKept
    <3> QED BY <3>2, <3>3
  <2>6. CASE GroundSigHandler1
    BY <1>0, <2>6, ReturnFrames DEF GroundSigHandler1, OtherFramesKept
  <2>7. CASE SigHandlerTerm BY <1>0, <2>1, <2>7, ExitQuiet DEF SigHandlerTerm
  <2>8. CASE DefaultAction("ground") BY <1>0, <2>1, <2>8, DefaultFrames
  <2> QED BY <2>2, <2>3, <2>4, <2>5, <2>6, <2>7, <2>8 DEF GroundNext
<1>4. TakeoffsCovered'
  BY <1>1, <1>3, Numbers, BatchAssumption DEF Known, RadioInv, TakeoffsCovered, Credit
<1> QED BY <1>1, <1>2, <1>4 DEF RadioInv, InBatches

\* A controller counts or reports with the mutex, alone.
LEMMA ControllerReports ==
    ASSUME Known, TypeOK', RadioInv, NEW t \in Controllers, TakeOffsFunction(t)
    PROVE  RadioInv'
<1> USE DEF Procs, Signals
<1>0. OSTypeOK /\ OneFrameEach /\ LockInv BY DEF Known, TypeOK, RadioInv
<1>1. UNCHANGED <<stack, radio_takeoffs>> BY DEF TakeOffsFunction, radioVars
<1>2. /\ OneFrameEach' /\ InBatches'
      /\ \A q \in Procs, r \in Signals, m \in 0 .. 2 : Frame(q, r, m)' <=> Frame(q, r, m)
  BY <1>0, <1>1, SameFrames DEF RadioInv, InBatches
<1>3. pc[t] \in Critical => \A u \in Controllers : u # t => pc[u] \notin Critical
  BY <1>0 DEF LockInv, LocksHeld
<1>4. CASE CountTakeoff(t)
  <2>1. /\ pc[t] = "count" /\ pc' = [pc EXCEPT ![t] = IF air_takeoffs + 1 = BATCH THEN "usr1radio" ELSE "unlock"]
        /\ air_takeoffs' = air_takeoffs + 1 /\ total_takeoffs' = total_takeoffs + 1
        /\ UNCHANGED pending
    BY <1>4 DEF CountTakeoff, Step
  <2>2. \A u \in Controllers : pc[u] \notin {"usr1radio", "usr1ground"} /\ pc'[u] # "usr1ground"
    BY <1>0, <1>3, <2>1 DEF Critical, LockInv, AirTypeOK
  <2>3. Unreported = air_takeoffs /\ Unreported' = air_takeoffs' BY <2>2 DEF Unreported
  <2>4. FullBatch' BY <1>0, <2>1, <2>2 DEF FullBatch, LockInv, AirTypeOK
  <2>5. TakeoffsCovered'
    BY <1>1, <1>2, <2>1, <2>3, Numbers, BatchAssumption DEF Known, RadioInv, TakeoffsCovered, Credit
  <2> QED BY <1>2, <2>4, <2>5 DEF RadioInv
<1>5. CASE SignalRadio(t)
  <2>1. /\ pc[t] = "usr1radio" /\ pc' = [pc EXCEPT ![t] = "usr1ground"] /\ Kill("radio", "USR1")
        /\ UNCHANGED <<air_takeoffs, total_takeoffs>>
    BY <1>5 DEF SignalRadio, Step, countVars
  <2>2. air_takeoffs = BATCH BY <2>1 DEF RadioInv, FullBatch
  <2>3. pc'[t] = "usr1ground" /\ \A u \in Controllers : pc[u] # "usr1ground"
    BY <1>0, <1>3, <2>1 DEF Critical, LockInv, AirTypeOK
  <2>4. Unreported = BATCH /\ Unreported' = 0 BY <2>2, <2>3 DEF Unreported
  <2>5. FullBatch' BY <2>1, <2>2 DEF FullBatch
  <2>6. TakeoffsCovered'
    BY <1>1, <1>2, <2>1, <2>4, Numbers, BatchAssumption DEF Known, RadioInv, TakeoffsCovered, Credit
  <2> QED BY <1>2, <2>5, <2>6 DEF RadioInv
<1>6. CASE SignalGround(t)
  <2>1. /\ pc[t] = "usr1ground" /\ pc' = [pc EXCEPT ![t] = "unlock"] /\ Kill("ground", "USR1")
        /\ air_takeoffs' = 0 /\ UNCHANGED total_takeoffs
    BY <1>6 DEF SignalGround, Step
  <2>2. shm["ground"] = "pid" BY <2>1 DEF Known, Ungrounded, Asleep
  <2>3. "USR1" \in pending'["radio"] => "USR1" \in pending["radio"] BY <1>0, <2>1, <2>2, KillOwner
  <2>4. Unreported = 0 /\ Unreported' = 0 BY <2>1 DEF Unreported
  <2>5. FullBatch'
    BY <1>0, <1>3, <2>1 DEF FullBatch, Critical, LockInv, AirTypeOK
  <2>6. TakeoffsCovered'
    BY <1>1, <1>2, <2>1, <2>3, <2>4, Numbers, BatchAssumption DEF Known, RadioInv, TakeoffsCovered,
       Credit
  <2> QED BY <1>2, <2>5, <2>6 DEF RadioInv
<1>7. CASE ~CountTakeoff(t) /\ ~SignalRadio(t) /\ ~SignalGround(t)
  <2>1. UNCHANGED <<air_takeoffs, total_takeoffs>>
    BY <1>7 DEF TakeOffsFunction, LoopTest, PlanesTest, TryRunway1, TryRunway2, TryRunway, LockState,
       LoadPlanes, StorePlanes, UnlockState, ReleaseRunway, Finish, countVars
  <2>2. \A u \in Controllers : pc'[u] # pc[u] =>
            pc'[u] \notin {"usr1radio", "usr1ground"} /\ pc[u] \notin {"usr1radio", "usr1ground"}
    BY <1>0, <1>7 DEF TakeOffsFunction, LoopTest, PlanesTest, TryRunway1, TryRunway2, TryRunway,
       LockState,
       LoadPlanes, StorePlanes, UnlockState, ReleaseRunway, Finish, Step, LockInv, AirTypeOK
  <2>3. UNCHANGED pending \/ Kill("radio", "TERM")
    BY <1>7 DEF TakeOffsFunction, LoopTest, PlanesTest, TryRunway1, TryRunway2, TryRunway, LockState,
       LoadPlanes, StorePlanes, UnlockState, ReleaseRunway, Finish
  <2>4. Quiet("USR1") BY <1>0, <1>2, <2>3, KillOnly DEF Quiet
  <2> QED BY <1>1, <1>2, <2>1, <2>2, <2>4, NothingReported
<1> QED BY <1>4, <1>5, <1>6, <1>7

LEMMA RadioStep ==
    ASSUME Known, TypeOK', RadioInv, [Next]_vars
    PROVE  RadioInv'
<1> USE DEF Procs, Signals
<1>0. OSTypeOK /\ OneFrameEach BY DEF Known, TypeOK, RadioInv
<1>1. CASE AirMain
  <2>1. UNCHANGED <<radio_takeoffs, air_takeoffs, total_takeoffs>>
    BY <1>1 DEF AirMain, MemoryCreate, OpenMemory, SizeMemory, StoreAirPid, GiveSize,
       InstallSigHandler2, Fork, CreateThreads, JoinAndCleanUp,
       radioVars, countVars
  <2>2. OneFrameEach' /\ Quiet("USR1")
    BY <1>0, <1>1, ExitQuiet, StillQuiet
    DEF AirMain, MemoryCreate, OpenMemory, SizeMemory, StoreAirPid, GiveSize, InstallSigHandler2,
       Fork, CreateThreads, JoinAndCleanUp, osVars
  <2>3. UNCHANGED pc \/ \A t \in Controllers : pc[t] = "idle" /\ pc'[t] = "loop"
    BY <1>1 DEF AirMain, CreateThreads, MainStep, Known, LockInv, IdleUntilCreated
  <2> QED BY <2>1, <2>2, <2>3, NothingReported
<1>2. CASE RadioLaunch
  <2>1. UNCHANGED <<radio_takeoffs, air_takeoffs, total_takeoffs, pc, stack>>
    BY <1>2 DEF RadioLaunch, airVars, countVars, threadVars
  <2>2. \A q \in Procs : "USR1" \in pending'[q] => "USR1" \in pending[q]
    BY <1>0, <1>2 DEF RadioLaunch, ChildStoresPid, Execl, ChildSigHandler2, Take, OSTypeOK
  <2>3. OneFrameEach' /\ Quiet("USR1") BY <1>0, <2>1, <2>2, SameFrames DEF Quiet
  <2> QED BY <2>1, <2>3, NothingReported
<1>3. ASSUME NEW t \in Controllers, TakeOffsFunction(t) PROVE RadioInv'
  BY <1>3, ControllerReports
<1>4. ASSUME NEW t \in Threads, SigHandler2(t) PROVE RadioInv'
  <2>1. UNCHANGED <<radio_takeoffs, air_takeoffs, total_takeoffs, pc, stack>>
    BY <1>4 DEF SigHandler2, radioVars, threadVars
  <2>2. \A q \in Procs : "USR1" \in pending'[q] => "USR1" \in pending[q]
    BY <1>0, <1>4 DEF SigHandler2, EnterSigHandler2, SigHandler2Load, SigHandler2Store, Take, OSTypeOK
  <2>3. OneFrameEach' /\ Quiet("USR1") BY <1>0, <2>1, <2>2, SameFrames DEF Quiet
  <2> QED BY <2>1, <2>3, NothingReported
<1>5. CASE DefaultAction("air") /\ UNCHANGED <<radioVars, airVars>>
  <2>1. OneFrameEach' /\ Quiet("USR1") BY <1>0, <1>5, DefaultFrames
  <2> QED BY <1>5, <2>1, NothingReported DEF radioVars, airVars, countVars, threadVars
<1>6. CASE RadioNext /\ UNCHANGED <<airVars, groundVars>> BY <1>6, RadioReports
<1>7. CASE GroundNext /\ UNCHANGED <<radioVars, airVars>> BY <1>7, GroundReports
<1>8. CASE UNCHANGED vars
  <2>1. OneFrameEach' /\ Quiet("USR1") BY <1>0, <1>8, StillQuiet DEF vars, osVars
  <2> QED BY <1>8, <2>1, NothingReported DEF vars, radioVars, airVars, countVars, threadVars
<1> QED BY <1>1, <1>2, <1>3, <1>4, <1>5, <1>6, <1>7, <1>8 DEF Next, AirNext

LEMMA RadioInvariant == ASSUME TOTAL_TAKEOFFS > 0 PROVE Spec => []RadioInv
<1>1. Init => RadioInv
  <2> SUFFICES ASSUME Init PROVE RadioInv
    OBVIOUS
  <2>1. \A p \in Procs : pending[p] = {} /\ Len(stack[p]) = 0 BY DEF Init, OSInit
  <2>2. OneFrameEach /\ ~Frame("radio", "USR1", 0) BY <2>1 DEF OneFrameEach, Frame, Procs
  <2>3. /\ radio_takeoffs = 0 /\ air_takeoffs = 0 /\ total_takeoffs = 0
        /\ \A t \in Controllers : pc[t] = "idle"
    BY DEF Init, RadioInit, AirInit
  <2>4. TakeoffsCovered BY <2>1, <2>2, <2>3 DEF TakeoffsCovered, Unreported, Credit, Procs
  <2>5. InBatches
    <3>1. 0 = 0 * BATCH BY BatchAssumption
    <3> QED BY <2>3, <3>1 DEF InBatches
  <2> QED BY <2>2, <2>3, <2>4, <2>5 DEF RadioInv, FullBatch
<1>2. TypeOK /\ LockInv /\ Ungrounded /\ RadioInv /\ TypeOK' /\ [Next]_vars => RadioInv'
  BY RadioStep DEF Known
<1> QED BY <1>1, <1>2, TypeCorrect, LocksInvariant, UngroundedInvariant, PTL DEF Spec

\* Whole batches among n take-offs.
LEMMA WholeBatchesWithin ==
    ASSUME NEW k \in Nat, NEW n \in Nat, k * BATCH <= n
    PROVE  k * BATCH <= BATCH * (n \div BATCH)
<1> DEFINE d == n \div BATCH
<1> USE BatchAssumption
<1>1. d \in Nat /\ n = BATCH * d + (n % BATCH) /\ n % BATCH \in 0 .. BATCH - 1
  OBVIOUS
<1> HIDE DEF d
<1>2. ASSUME k > d PROVE FALSE
  <2>1. PICK e \in Nat : k = d + 1 + e
    <3>1. k - d - 1 \in Nat /\ k = d + 1 + (k - d - 1) BY <1>1, <1>2
    <3> QED BY <3>1
  <2>2. k * BATCH = BATCH * d + BATCH + e * BATCH /\ e * BATCH \in Nat /\ BATCH * d \in Nat
    BY <1>1, <2>1
  <2> QED BY <1>1, <2>2
<1>3. PICK e \in Nat : d = k + e
  <2>1. d - k \in Nat /\ d = k + (d - k) BY <1>1, <1>2
  <2> QED BY <2>1
<1>4. BATCH * d = k * BATCH + e * BATCH /\ e * BATCH \in Nat /\ k * BATCH \in Nat BY <1>3
<1> QED BY <1>4 DEF d

\* However signals are lost, merged or delayed, the radio counts no more than the
\* whole batches of the take-offs that the controllers can make (RadioCountsNoMore).
THEOREM RadioCounts == ASSUME TOTAL_TAKEOFFS > 0 PROVE Spec => []RadioCountsNoMore
<1>1. TypeOK /\ RadioInv /\ OvershootBounded => RadioCountsNoMore
  <2> SUFFICES ASSUME TypeOK, RadioInv, OvershootBounded PROVE RadioCountsNoMore
    OBVIOUS
  <2> DEFINE n == TOTAL_TAKEOFFS + Cardinality(Controllers) - 1
  <2>1. Cardinality(Controllers) \in Nat BY ControllersAssumption, FS_CardinalityType
  <2>2. radio_takeoffs <= total_takeoffs /\ total_takeoffs <= n /\ total_takeoffs \in Nat
    BY Numbers, BatchAssumption DEF RadioInv, TakeoffsCovered, Credit, OvershootBounded
  <2>3. n \in Nat BY <2>1, <2>2, TotalAssumption
  <2>4. PICK k \in Nat : radio_takeoffs = k * BATCH BY DEF RadioInv, InBatches
  <2>5. k * BATCH <= n
    <3>1. radio_takeoffs \in Nat BY Numbers
    <3> QED BY <2>2, <2>3, <2>4, <3>1
  <2> HIDE DEF n
  <2>6. radio_takeoffs <= BATCH * (n \div BATCH) BY <2>3, <2>4, <2>5, WholeBatchesWithin
  <2> QED BY <2>6 DEF RadioCountsNoMore, n
<1> QED BY <1>1, TypeCorrect, RadioInvariant, Overshoot, PTL

-----------------------------------------------------------------------------
(* Who ends whom *)

\* p has handlers of S, but for the one-shots that have run.
Has(p, S) == \A s \in S : s \in handled[p] \/ <<p, s>> \in oneShot

Creating == {"create", "truncate", "store"}

\* How far each program has got is what its slot and its handlers show.
Installed ==
    /\ oneShot \subseteq UninitialisedFlags
    /\ main_pc = "create" <=> status["air"] = "new"
    /\ main_pc \notin Creating => shm["air"] = "pid"
    /\ handled["air"] \subseteq {"USR2"}
    /\ main_pc \notin Creating \cup {"sigaction"} => Has("air", {"USR2"})
    /\ main_pc \in Creating \cup {"sigaction", "fork"} => radio_pc = "none" /\ status["radio"] = "new"
    /\ radio_pc \notin {"none", "child"} => shm["radio"] = "pid"
    /\ radio_pc \in {"none", "main", "usr1"} => handled["radio"] = {}
    /\ radio_pc \in {"child", "exec"} => handled["radio"] \subseteq {"USR2"}
    /\ radio_pc = "usr2" => handled["radio"] = {"USR1"}
    /\ radio_pc = "term" => handled["radio"] = {"USR1", "USR2"}
    /\ radio_pc = "run" => handled["radio"] = {"USR1", "USR2", "TERM"}
    /\ ground_pc # "start" => shm["ground"] = "pid"
    /\ Up("ground") => ground_pc # "start"
    /\ status["ground"] = "new" => ground_pc = "start"
    /\ ground_pc = "usr1" => Has("ground", {"TERM"})
    /\ ground_pc = "timer" => Has("ground", {"TERM", "USR1"})
    /\ ground_pc = "run" => Has("ground", {"TERM", "USR1", "ALRM"})

\* Only one-shots go.
OnlyOneShotsGo ==
    /\ UNCHANGED oneShot
    /\ \A p \in Procs : /\ handled'[p] \subseteq handled[p]
                        /\ \A s \in handled[p] : s \in handled'[p] \/ <<p, s>> \in oneShot

LEMMA HasKept ==
    ASSUME OnlyOneShotsGo, NEW p \in Procs, NEW S, Has(p, S)
    PROVE  Has(p, S)'
BY DEF OnlyOneShotsGo, Has

LEMMA NothingGoes == ASSUME UNCHANGED <<handled, oneShot>> PROVE OnlyOneShotsGo
BY DEF OnlyOneShotsGo

LEMMA InstalledKept ==
    ASSUME TypeOK, Installed, OnlyOneShotsGo, UNCHANGED <<shm, main_pc, radio_pc, ground_pc>>,
           \A p \in Procs : status'[p] = status[p] \/ (status[p] = "up" /\ status'[p] = "dead")
    PROVE  Installed'
<1>1. handled'["radio"] = handled["radio"]
  <2>1. \A s : <<"radio", s>> \notin oneShot
    <3>1. \A s : <<"radio", s>> \notin UninitialisedFlags BY DEF UninitialisedFlags
    <3> QED BY <3>1 DEF Installed
  <2> QED BY <2>1 DEF OnlyOneShotsGo, Procs
<1>2. handled'["air"] \subseteq handled["air"] BY DEF OnlyOneShotsGo, Procs
<1>3. Has("air", {"USR2"}) => Has("air", {"USR2"})'
  BY HasKept DEF Procs
<1>4. /\ Has("ground", {"TERM"}) => Has("ground", {"TERM"})'
      /\ Has("ground", {"TERM", "USR1"}) => Has("ground", {"TERM", "USR1"})'
      /\ Has("ground", {"TERM", "USR1", "ALRM"}) => Has("ground", {"TERM", "USR1", "ALRM"})'
  BY HasKept DEF Procs
<1> HIDE DEF Has
<1> QED BY <1>1, <1>2, <1>3, <1>4 DEF TypeOK, OSTypeOK, Installed, Up, Procs, OnlyOneShotsGo

LEMMA ExitEnds ==
    ASSUME TypeOK, NEW p \in Procs, Up(p), Exit(p)
    PROVE  \A q \in Procs : status'[q] = status[q] \/ (status[q] = "up" /\ status'[q] = "dead")
BY DEF TypeOK, OSTypeOK, Exit, Up

\* A delivery takes away no handler but a one-shot.
LEMMA TakeKeeps ==
    ASSUME TypeOK, NEW p \in Procs, NEW s, Take(p, s), UNCHANGED oneShot
    PROVE  OnlyOneShotsGo
BY DEF Take, OnlyOneShotsGo, TypeOK, OSTypeOK

LEMMA InstalledStep == ASSUME TypeOK, Installed, [Next]_vars PROVE Installed'
<1> USE DEF Procs
<1>0. OSTypeOK BY DEF TypeOK
<1>1. CASE AirMain /\ UNCHANGED groundVars
  <2> USE <1>0, <1>1 DEF OSTypeOK, Installed, MainStep, Up, Creating, Has, groundVars
  <2>1. CASE OpenMemory BY <2>1 DEF OpenMemory, radioVars
  <2>6. CASE SizeMemory BY <2>6 DEF SizeMemory, GiveSize, radioVars
  <2>7. CASE StoreAirPid BY <2>7 DEF StoreAirPid, radioVars
  <2>2. CASE InstallSigHandler2 BY <2>2 DEF InstallSigHandler2, radioVars
  <2>3. CASE Fork BY <2>3 DEF Fork
  <2>4. CASE CreateThreads BY <2>4 DEF CreateThreads, osVars, radioVars
  <2>5. CASE JoinAndCleanUp
    <3>1. /\ status' = [status EXCEPT !["air"] = "dead"] /\ status["air"] = "up"
          /\ main_pc = "join" /\ main_pc' = "exit"
          /\ UNCHANGED <<shm, handled, oneShot, radio_pc, ground_pc>>
      BY <2>5 DEF JoinAndCleanUp, Exit, radioVars
    <3> QED BY <3>1
  <2> QED BY <2>1, <2>2, <2>3, <2>4, <2>5, <2>6, <2>7 DEF AirMain, MemoryCreate
<1>2. CASE RadioLaunch /\ UNCHANGED groundVars
  <2>1. UNCHANGED <<main_pc, ground_pc, status, oneShot>> BY <1>2 DEF RadioLaunch, airVars, groundVars
  <2>2. CASE ChildStoresPid
    BY <1>0, <2>1, <2>2 DEF ChildStoresPid, OSTypeOK, Installed, Up, Has, Creating
  <2>3. CASE Execl
    BY <1>0, <2>1, <2>3 DEF Execl, OSTypeOK, Installed, Up, Has, Creating
  <2>4. CASE ChildSigHandler2
    BY <1>0, <2>1, <2>4, TakeKeeps, NothingGoes, InstalledKept DEF ChildSigHandler2
  <2> QED BY <1>2, <2>2, <2>3, <2>4 DEF RadioLaunch
<1>3. ASSUME NEW t \in Controllers, TakeOffsFunction(t), UNCHANGED groundVars PROVE Installed'
  BY <1>3, NothingGoes, InstalledKept DEF TakeOffsFunction, radioVars, groundVars
<1>4. ASSUME NEW t \in Threads, SigHandler2(t), UNCHANGED groundVars PROVE Installed'
  <2>1. OnlyOneShotsGo
    BY <1>4, TakeKeeps, NothingGoes DEF SigHandler2, EnterSigHandler2, SigHandler2Load, SigHandler2Store
  <2> QED BY <1>4, <2>1, NothingGoes, InstalledKept DEF SigHandler2, radioVars, groundVars
<1>5. ASSUME NEW p \in Procs, DefaultAction(p), UNCHANGED <<main_pc, radio_pc, ground_pc>> PROVE Installed'
  BY <1>5, NothingGoes, InstalledKept, ExitEnds DEF DefaultAction
<1>6. ASSUME NEW p \in Procs, NEW s \in Signals, EnterHandler(p, s),
             UNCHANGED <<main_pc, radio_pc, ground_pc>>
      PROVE  Installed'
  BY <1>0, <1>6, TakeKeeps, NothingGoes, InstalledKept DEF EnterHandler
<1>7. CASE RadioNext /\ UNCHANGED <<airVars, groundVars>>
  <2> USE <1>7 DEF airVars, groundVars
  <2>1. CASE RadioOpen
    <3>1. CASE linked
      BY <1>0, <2>1, <3>1 DEF RadioOpen, OSTypeOK, Installed, Up, Has, Creating
    <3>2. CASE ~linked BY <2>1, <3>2, NothingGoes, InstalledKept, ExitEnds DEF RadioOpen
    <3> QED BY <3>1, <3>2
  <2>2. CASE RadioInstall
    <3>1. UNCHANGED <<main_pc, ground_pc, shm, status, oneShot>> BY <2>2 DEF RadioInstall
    <3>2. /\ handled'["air"] = handled["air"] /\ handled'["ground"] = handled["ground"]
          /\ \/ radio_pc = "usr1" /\ radio_pc' = "usr2" /\ handled'["radio"] = handled["radio"] \cup {"USR1"}
             \/ radio_pc = "usr2" /\ radio_pc' = "term" /\ handled'["radio"] = handled["radio"] \cup {"USR2"}
             \/ radio_pc = "term" /\ radio_pc' = "run" /\ handled'["radio"] = handled["radio"] \cup {"TERM"}
      BY <1>0, <2>2 DEF RadioInstall, Install, OSTypeOK
    <3> QED BY <1>0, <3>1, <3>2 DEF OSTypeOK, Installed, Up, Has, Creating
  <2>3. CASE RadioQuit BY <2>3, NothingGoes, InstalledKept, ExitEnds DEF RadioQuit, InMain, radioVars
  <2>4. ASSUME NEW s \in Signals, RadioSignal(s) PROVE Installed' BY <2>4, <1>6 DEF RadioSignal,
     radioVars
  <2>5. CASE RadioHandlers
    <3>1. CASE UNCHANGED <<shm, status, handled, oneShot, radio_pc>> BY <3>1, NothingGoes, InstalledKept
    <3>2. CASE RadioUnlink /\ UNCHANGED <<shm, handled, oneShot, radio_pc>>
      BY <3>2, NothingGoes, InstalledKept, ExitEnds DEF RadioUnlink, Running
    <3> QED BY <2>5, <3>1, <3>2 DEF RadioHandlers, RadioSigTerm, RadioReport, RadioDismissGround
  <2>6. CASE DefaultAction("radio") /\ UNCHANGED radioVars BY <2>6, <1>5 DEF radioVars
  <2> QED BY <2>1, <2>2, <2>3, <2>4, <2>5, <2>6 DEF RadioNext
<1>8. CASE GroundNext /\ UNCHANGED <<radioVars, airVars>>
  <2> USE <1>8 DEF airVars, radioVars
  <2>1. CASE MemoryOpen BY <1>0, <2>1 DEF MemoryOpen, OSTypeOK, Installed, Up, Has, Creating
  <2>2. CASE GroundInstall
    <3>1. UNCHANGED <<main_pc, radio_pc, shm, status, oneShot>> BY <2>2 DEF GroundInstall
    <3>2. /\ handled'["air"] = handled["air"] /\ handled'["radio"] = handled["radio"]
          /\ \/ ground_pc = "term" /\ ground_pc' = "usr1" /\ handled'["ground"] = handled["ground"] \cup {"TERM"}
             \/ ground_pc = "usr1" /\ ground_pc' = "timer" /\ handled'["ground"] = handled["ground"] \cup {"USR1"}
             \/ ground_pc = "timer" /\ ground_pc' = "run" /\ handled'["ground"] = handled["ground"] \cup {"ALRM"}
      BY <1>0, <2>2 DEF GroundInstall, Install, OSTypeOK
    <3> QED BY <1>0, <3>1, <3>2 DEF OSTypeOK, Installed, Up, Has, Creating
  <2>3. CASE GroundTimer BY <2>3, NothingGoes, InstalledKept DEF GroundTimer, groundVars
  <2>4. ASSUME NEW s \in Signals, GroundSignal(s) PROVE Installed' BY <2>4, <1>6 DEF GroundSignal,
     groundVars
  <2>5. CASE Traffic BY <2>5, NothingGoes, InstalledKept DEF Traffic
  <2>6. CASE GroundSigHandler1 BY <2>6, NothingGoes, InstalledKept DEF GroundSigHandler1
  <2>7. CASE SigHandlerTerm BY <2>7, NothingGoes, InstalledKept, ExitEnds DEF SigHandlerTerm, Running,
     groundVars
  <2>8. CASE DefaultAction("ground") /\ UNCHANGED groundVars BY <2>8, <1>5 DEF groundVars
  <2> QED BY <2>1, <2>2, <2>3, <2>4, <2>5, <2>6, <2>7, <2>8 DEF GroundNext
<1>9. CASE UNCHANGED vars
  BY <1>9, NothingGoes, InstalledKept DEF vars, osVars, airVars, radioVars, groundVars
<1>10. CASE DefaultAction("air") /\ UNCHANGED <<radioVars, airVars, groundVars>>
  BY <1>10, <1>5 DEF airVars, radioVars, groundVars
<1> QED BY <1>1, <1>2, <1>3, <1>4, <1>7, <1>8, <1>9, <1>10 DEF Next, AirNext

LEMMA InstalledInvariant == ASSUME RESETHAND \subseteq UninitialisedFlags PROVE Spec => []Installed
<1>1. Init => Installed
  <2> SUFFICES ASSUME Init PROVE Installed
    OBVIOUS
  <2>1. /\ oneShot \subseteq UninitialisedFlags
        /\ \A p \in Procs : status[p] = "new" /\ handled[p] = {}
        /\ main_pc = "create" /\ radio_pc = "none" /\ ground_pc = "start"
    BY DEF Init, OSInit, AirInit, RadioInit, GroundInit
  <2> QED BY <2>1 DEF Installed, Up, Procs, Creating
<1>2. TypeOK /\ Installed /\ [Next]_vars => Installed' BY InstalledStep
<1> QED BY <1>1, <1>2, TypeCorrect, PTL DEF Spec

\* The radio and ground control have installed all their handlers; air control
\* has, before it forked the radio.
Started == radio_pc = "run" /\ ground_pc = "run"

\* Nobody gets a signal without a handler, but for one-shots: nothing is sent
\* before all programs have started, and then everything goes to the one process
\* it is meant for.  Ground control is dismissed after the radio's report.
Polite ==
    /\ Asleep \/ Started
    /\ pending["air"] \subseteq {"USR2"}
    /\ pending["radio"] \subseteq {"USR1", "USR2", "TERM"}
    /\ pending["ground"] \subseteq {"USR1", "ALRM", "TERM"}
    /\ \/ "TERM" \in pending["ground"]
       \/ \E m \in 0 .. 2 : Frame("ground", "TERM", m)
       \/ \E m \in 1 .. 2 : Frame("radio", "TERM", m)
       => radio_report # {}
    /\ main_pc # "create" /\ ~Started => linked
    /\ NobodyKilled

\* What is known of a state of which Polite is to be proved; RADIO_LIMIT is not
\* reached.
Settled ==
    /\ TypeOK /\ Installed /\ OneFrameEach
    /\ radio_takeoffs <= RADIO_LIMIT

LEMMA StaysStarted == ASSUME TypeOK, Installed, Started, [Next]_vars PROVE Started'
<1> USE DEF Started
<1>1. CASE AirNext /\ UNCHANGED groundVars
  BY <1>1 DEF AirNext, AirMain, MemoryCreate, OpenMemory, SizeMemory, StoreAirPid, GiveSize,
     InstallSigHandler2, Fork, CreateThreads, JoinAndCleanUp,
     MainStep, RadioLaunch, ChildStoresPid, Execl, ChildSigHandler2, TakeOffsFunction, SigHandler2,
     Installed, groundVars, radioVars
<1>2. CASE RadioNext /\ UNCHANGED <<airVars, groundVars>>
  BY <1>2 DEF RadioNext, RadioOpen, RadioInstall, Install, RadioQuit, RadioSignal, RadioHandlers,
     RadioSigTerm, radioVars, groundVars
<1>3. CASE GroundNext /\ UNCHANGED <<radioVars, airVars>>
  BY <1>3 DEF GroundNext, MemoryOpen, GroundInstall, Install, GroundTimer, GroundSignal, Traffic,
     GroundSigHandler1, SigHandlerTerm, Installed, radioVars, groundVars
<1>4. CASE UNCHANGED vars BY <1>4 DEF vars, radioVars, groundVars
<1> QED BY <1>1, <1>2, <1>3, <1>4 DEF Next

\* The timer that wakes the airport finds the radio's handlers installed.
LEMMA AwakeStep ==
    ASSUME Settled, Polite, [Next]_vars, TOTAL_TAKEOFFS > 0, PromptStartup \/ InTime'
    PROVE  (Asleep \/ Started)'
<1>1. CASE Started BY <1>1, StaysStarted DEF Settled
<1>2. CASE Asleep /\ ~GroundTimer BY <1>2, StaysAsleep DEF Settled
<1>3. CASE Asleep /\ GroundTimer
  <2>1. ground_pc = "run" BY <1>3 DEF GroundTimer
  <2>2. CASE PromptStartup
    <3>0. {"USR1", "USR2", "TERM"} \subseteq handled["radio"]
      BY <1>3, <2>2 DEF GroundTimer, Asleep
    <3>1. radio_pc \in {"none", "child", "exec", "main", "usr1", "usr2", "term", "run"}
      BY DEF Settled, TypeOK, RadioTypeOK
    <3>2. "TERM" \in handled["radio"] BY <3>0
    <3>3. radio_pc = "run" BY <3>1, <3>2 DEF Settled, Installed
    <3> QED BY <2>1, <3>3, StaysStarted DEF Settled, Started
  <2>3. CASE InTime'
    <3>1. "ALRM" \in pending'["ground"]
      BY <1>3 DEF GroundTimer, Settled, TypeOK, OSTypeOK, Procs
    <3>2. radio_pc' = "run" BY <2>3, <3>1 DEF InTime
    <3>3. ground_pc' = "run" BY <1>3, <2>1 DEF GroundTimer, groundVars
    <3> QED BY <3>2, <3>3 DEF Started
  <2> QED BY <2>2, <2>3
<1> QED BY <1>1, <1>2, <1>3 DEF Polite

\* So a default action is taken only where a one-shot has run, or in a ground
\* control that has been dismissed already; and every slot has its pid.
LEMMA DefaultActionExcused ==
    ASSUME Settled, Polite, NEW p \in Procs, DefaultAction(p)
    PROVE  \/ p = "air" /\ <<"air", "USR2">> \in oneShot
           \/ p = "ground" /\ (<<"ground", "USR1">> \in oneShot \/ radio_report # {})
<1>0. PICK s \in pending[p] : s \notin handled[p] BY DEF DefaultAction
<1>1. Started BY <1>0 DEF Polite, Asleep
<1>2. CASE p = "air"
  <2>1. main_pc \notin Creating \cup {"sigaction"}
    BY <1>1 DEF Settled, Installed, Started
  <2> QED BY <1>0, <1>2, <2>1 DEF Settled, Installed, Polite, Has
<1>3. CASE p = "radio" BY <1>0, <1>1, <1>3 DEF Settled, Installed, Started, Polite
<1>4. CASE p = "ground"
  <2>1. Has("ground", {"TERM", "USR1", "ALRM"}) BY <1>1 DEF Settled, Installed, Started
  <2>2. s \in {"TERM", "USR1", "ALRM"} /\ <<"ground", s>> \in oneShot
    BY <1>0, <1>4, <2>1 DEF Polite, Has
  <2>3. s # "ALRM" BY <2>2 DEF Settled, Installed, UninitialisedFlags
  <2>4. CASE s = "TERM" BY <1>0, <1>4, <2>4 DEF Polite
  <2>5. CASE s = "USR1" BY <1>4, <2>2, <2>5
  <2> QED BY <2>2, <2>3, <2>4, <2>5
<1> QED BY <1>2, <1>3, <1>4 DEF Procs

LEMMA SlotsFilled ==
    ASSUME Settled, Polite, ~Asleep
    PROVE  Started /\ shm["air"] = "pid" /\ shm["radio"] = "pid" /\ shm["ground"] = "pid"
BY DEF Settled, Installed, Polite, Started

\* A step that sends and delivers nothing and ends nobody.
LEMMA StillPolite ==
    ASSUME Settled, Polite, (Asleep \/ Started)', \A s \in Signals : Quiet(s),
           NobodyKilled', main_pc' # "create" /\ ~Started' => linked',
           radio_report \subseteq radio_report', TypeOK'
    PROVE  Polite'
<1>1. \A q \in Procs : pending'[q] \subseteq pending[q]
  BY DEF Quiet, TypeOK, OSTypeOK
<1>2. \A q \in Procs : \A m \in 0 .. 2 : Frame(q, "TERM", m)' => Frame(q, "TERM", m)
  BY DEF Quiet, Signals
<1> QED BY <1>1, <1>2 DEF Polite, Procs

\* A default action keeps all that.
LEMMA DefaultActionPolite ==
    ASSUME Settled, Polite, TypeOK', (Asleep \/ Started)', Started => Started',
           NEW p \in Procs, DefaultAction(p), UNCHANGED <<radioVars, airVars, groundVars>>
    PROVE  Polite'
<1>1. Exit(p) /\ UNCHANGED <<linked, oneShot>> BY DEF DefaultAction
<1>2. UNCHANGED <<main_pc, radio_pc, ground_pc, radio_report>> BY DEF radioVars, airVars, groundVars
<1>3. \A s \in Signals : Quiet(s) BY <1>1, ExitQuiet DEF Settled, TypeOK
<1>4. NobodyKilled'
  <2>1. status' = [status EXCEPT ![p] = "dead"] BY <1>1 DEF Exit
  <2>2. \A q \in Procs : q # p => status'[q] = status[q]
    BY <2>1 DEF Settled, TypeOK, OSTypeOK
  <2> QED BY <1>1, <1>2, <2>2, DefaultActionExcused DEF Polite, NobodyKilled, Procs
<1>5. main_pc' # "create" /\ ~Started' => linked' BY <1>1, <1>2 DEF Polite
<1> QED BY <1>2, <1>3, <1>4, <1>5, StillPolite

\* Which handlers are one-shots was decided by the compiler.
LEMMA AirFlags == ASSUME AirNext PROVE UNCHANGED oneShot
<1>1. AirMain => UNCHANGED oneShot
  BY DEF AirMain, MemoryCreate, OpenMemory, SizeMemory, StoreAirPid, InstallSigHandler2, Fork,
     CreateThreads,
     JoinAndCleanUp, osVars
<1>2. RadioLaunch => UNCHANGED oneShot BY DEF RadioLaunch
<1>3. (\E t \in Controllers : TakeOffsFunction(t)) => UNCHANGED oneShot BY DEF TakeOffsFunction
<1>4. (\E t \in Threads : SigHandler2(t)) => UNCHANGED oneShot BY DEF SigHandler2
<1>5. DefaultAction("air") => UNCHANGED oneShot BY DEF DefaultAction
<1> QED BY <1>1, <1>2, <1>3, <1>4, <1>5 DEF AirNext

LEMMA RadioFlags == ASSUME RadioNext PROVE UNCHANGED oneShot
BY DEF RadioNext, RadioOpen, RadioInstall, RadioQuit, RadioSignal, EnterHandler, RadioHandlers,
   RadioSigTerm, DefaultAction

LEMMA GroundFlags == ASSUME GroundNext PROVE UNCHANGED oneShot
BY DEF GroundNext, MemoryOpen, GroundInstall, GroundTimer, GroundSignal, EnterHandler, Traffic,
   GroundSigHandler1, SigHandlerTerm, DefaultAction

LEMMA RadioPolite ==
    ASSUME Settled, Polite, TypeOK', (Asleep \/ Started)', Started => Started',
           RadioNext, UNCHANGED <<airVars, groundVars>>
    PROVE  Polite'
<1> USE DEF Procs, Signals
<1>0. /\ OSTypeOK /\ OneFrameEach /\ radio_takeoffs <= RADIO_LIMIT /\ RADIO_LIMIT \in Nat
      /\ radio_takeoffs \in Nat
  BY RadioLimitAssumption DEF Settled, TypeOK, RadioTypeOK
<1>1. UNCHANGED <<main_pc, ground_pc, oneShot>> BY RadioFlags DEF airVars, groundVars
<1>2. ASSUME UNCHANGED status, radio_report \subseteq radio_report'
      PROVE  NobodyKilled'
  BY <1>1, <1>2 DEF Polite, NobodyKilled
<1>3. CASE RadioOpen
  <2>1. linked
    <3>1. radio_pc = "main" BY <1>3 DEF RadioOpen
    <3>2. main_pc # "create" /\ ~Started BY <3>1 DEF Settled, Installed, Started, Creating
    <3> QED BY <3>2 DEF Polite
  <2>2. UNCHANGED <<pending, stack, status, linked, radio_report>> BY <1>3, <2>1 DEF RadioOpen
  <2>3. \A s \in Signals : Quiet(s) BY <1>0, <2>2, StillQuiet
  <2> QED BY <1>1, <1>2, <2>1, <2>2, <2>3, StillPolite
<1>4. CASE RadioInstall
  <2>1. UNCHANGED <<pending, stack, status, linked, radio_report>> BY <1>4 DEF RadioInstall
  <2>2. \A s \in Signals : Quiet(s) BY <1>0, <2>1, StillQuiet
  <2>3. main_pc' # "create" /\ ~Started' => linked' BY <1>1, <2>1 DEF Polite
  <2> QED BY <1>2, <2>1, <2>2, <2>3, StillPolite
<1>5. ~RadioQuit BY <1>0 DEF RadioQuit
<1>6. ASSUME NEW s \in Signals, RadioSignal(s) PROVE Polite'
  <2>1. EnterHandler("radio", s) /\ UNCHANGED <<status, linked, radio_report, radio_pc>>
    BY <1>6 DEF RadioSignal, EnterHandler, radioVars
  <2>2. \A q \in Procs : pending'[q] \subseteq pending[q]
    BY <1>0, <2>1 DEF EnterHandler, Take, OSTypeOK
  <2>3. /\ \A m \in 0 .. 2 : Frame("ground", "TERM", m)' => Frame("ground", "TERM", m)
        /\ \A m \in 1 .. 2 : Frame("radio", "TERM", m)' => Frame("radio", "TERM", m)
    <3>1. CASE s = "TERM" BY <1>0, <2>1, <3>1, Delivery
    <3>2. CASE s # "TERM" BY <1>0, <2>1, <3>2, Delivery DEF Quiet
    <3> QED BY <3>1, <3>2
  <2>4. main_pc' # "create" /\ ~Started' => linked' BY <1>1, <2>1 DEF Polite
  <2> QED BY <1>2, <2>1, <2>2, <2>3, <2>4 DEF Polite
<1>7. ASSUME NEW s \in {"USR1", "USR2"}, NEW k \in 0 .. 1, Running("radio", s, k),
             Advance("radio") \/ Return("radio"),
             UNCHANGED pending \/ Kill("ground", "USR1") \/ Kill("air", "USR2"),
             UNCHANGED <<shm, linked, status, handled, oneShot, radio_pc, radio_report>>
      PROVE  Polite'
  <2>1. OtherFramesKept("radio", s) BY <1>0, <1>7, AdvanceFrames, ReturnFrames
  <2>2. \A q \in Procs : \A m \in 0 .. 2 : Frame(q, "TERM", m)' => Frame(q, "TERM", m)
    BY <2>1 DEF OtherFramesKept
  <2>3. shm["ground"] = "pid" /\ shm["air"] = "pid" BY <1>7, SlotsFilled DEF Asleep, Running
  <2>4. \A q \in Procs, r \in Signals :
            r \in pending'[q] => r \in pending[q] \/ (q = "ground" /\ r = "USR1") \/ (q = "air" /\ r = "USR2")
    BY <1>0, <1>7, <2>3, KillOwner
  <2>5. /\ pending'["air"] \subseteq {"USR2"}
        /\ pending'["radio"] \subseteq {"USR1", "USR2", "TERM"}
        /\ pending'["ground"] \subseteq {"USR1", "ALRM", "TERM"}
    BY <2>4 DEF Polite, TypeOK, OSTypeOK
  <2>6. main_pc' # "create" /\ ~Started' => linked' BY <1>1, <1>7 DEF Polite
  <2>7. "TERM" \in pending'["ground"] => "TERM" \in pending["ground"] BY <2>4
  <2> QED BY <1>2, <1>7, <2>2, <2>5, <2>6, <2>7 DEF Polite
<1>8. CASE RadioSigHandler1 /\ UNCHANGED <<shm, linked, status, handled, oneShot, radio_pc, radio_report>>
  BY <1>7, <1>8 DEF RadioSigHandler1
<1>9. CASE RadioSigHandler2 /\ UNCHANGED <<shm, linked, status, handled, oneShot, radio_pc, radio_report>>
  BY <1>7, <1>9 DEF RadioSigHandler2
<1>10. CASE RadioSigTerm
  <2>1. UNCHANGED <<shm, radio_pc>> BY <1>10 DEF RadioSigTerm
  <2>2. CASE RadioReport \/ RadioDismissGround
    <3>1. PICK k \in 0 .. 1 : Running("radio", "TERM", k) /\ (k = 1 => UNCHANGED radio_report)
      BY <2>2 DEF RadioReport, RadioDismissGround
    <3>2. Advance("radio") /\ UNCHANGED <<linked, status>> /\ radio_report \subseteq radio_report'
      BY <2>2 DEF RadioReport, RadioDismissGround
    <3>3. radio_report' # {}
      <4>1. CASE RadioReport BY <4>1 DEF RadioReport
      <4>2. CASE RadioDismissGround
        <5>1. Running("radio", "TERM", 1) BY <4>2 DEF RadioDismissGround
        <5>2. Frame("radio", "TERM", 1) BY <1>0, <3>2, <5>1, AdvanceFrames
        <5> QED BY <3>2, <5>2 DEF Polite
      <4> QED BY <2>2, <4>1, <4>2
    <3>4. shm["ground"] = "pid" BY <3>1, SlotsFilled DEF Asleep, Running
    <3>5. UNCHANGED pending \/ Kill("ground", "TERM") BY <2>2 DEF RadioReport, RadioDismissGround
    <3>6. \A q \in Procs, r \in Signals :
              r \in pending'[q] => r \in pending[q] \/ (q = "ground" /\ r = "TERM")
      BY <1>0, <3>4, <3>5, KillOwner
    <3>7. /\ pending'["air"] \subseteq {"USR2"}
          /\ pending'["radio"] \subseteq {"USR1", "USR2", "TERM"}
          /\ pending'["ground"] \subseteq {"USR1", "ALRM", "TERM"}
      BY <3>6 DEF Polite, TypeOK, OSTypeOK
    <3>8. main_pc' # "create" /\ ~Started' => linked' BY <1>1, <3>2 DEF Polite
    <3> QED BY <1>2, <3>2, <3>3, <3>7, <3>8 DEF Polite
  <2>3. CASE RadioUnlink
    <3>1. Running("radio", "TERM", 2) /\ Exit("radio") /\ UNCHANGED radio_report BY <2>3 DEF RadioUnlink
    <3>2. Started BY <3>1, SlotsFilled DEF Asleep, Running
    <3>3. radio_report # {}
      <4>1. Frame("radio", "TERM", 2)
        <5>1. stack["radio"] \in Seq(Frames) /\ stack["radio"] # <<>> BY <1>0, <3>1 DEF OSTypeOK,
           Running
        <5>2. Len(stack["radio"]) \in 1 .. Len(stack["radio"]) BY <5>1
        <5> QED BY <3>1, <5>2 DEF Frame, Running
      <4> QED BY <4>1 DEF Polite
    <3>4. \A s \in Signals : Quiet(s) BY <1>0, <3>1, ExitQuiet
    <3>5. NobodyKilled'
      <4>1. status' = [status EXCEPT !["radio"] = "dead"] BY <3>1 DEF Exit
      <4> QED BY <1>0, <1>1, <3>1, <3>3, <4>1 DEF Polite, NobodyKilled, OSTypeOK
    <3> QED BY <3>1, <3>2, <3>4, <3>5, StillPolite
  <2> QED BY <1>10, <2>2, <2>3 DEF RadioSigTerm
<1>11. CASE DefaultAction("radio") /\ UNCHANGED radioVars BY <1>11, DefaultActionPolite
<1> QED BY <1>3, <1>4, <1>5, <1>6, <1>8, <1>9, <1>10, <1>11 DEF RadioNext, RadioHandlers

LEMMA GroundPolite ==
    ASSUME Settled, Polite, TypeOK', (Asleep \/ Started)', Started => Started',
           GroundNext, UNCHANGED <<radioVars, airVars>>
    PROVE  Polite'
<1> USE DEF Procs, Signals
<1>0. OSTypeOK /\ OneFrameEach BY DEF Settled, TypeOK
<1>1. UNCHANGED <<main_pc, radio_pc, radio_report, oneShot>> BY GroundFlags DEF airVars, radioVars
<1>2. (main_pc' # "create" /\ ~Started' => linked') \/ linked' # linked
  BY <1>1 DEF Polite
<1>3. ASSUME UNCHANGED status PROVE NobodyKilled'
  <2>1. ground_pc = "start" /\ ground_pc' # "start" => status["ground"] # "dead"
    <3>1. GroundInstall => ground_pc # "start" BY DEF GroundInstall, Install
    <3>2. MemoryOpen => UNCHANGED ground_pc \/ status["ground"] = "new" BY DEF MemoryOpen
    <3> QED BY <3>1, <3>2 DEF GroundNext, GroundTimer, GroundSignal, Traffic, GroundSigHandler1,
               SigHandlerTerm, groundVars
  <2> QED BY <1>1, <1>3, <2>1 DEF Polite, NobodyKilled
<1>4. CASE MemoryOpen
  <2>1. UNCHANGED <<pending, stack, linked>> BY <1>4 DEF MemoryOpen
  <2>2. \A s \in Signals : Quiet(s) BY <1>0, <2>1, StillQuiet
  <2>3. NobodyKilled'
    BY <1>0, <1>1, <1>4 DEF MemoryOpen, Polite, NobodyKilled, Settled, Installed, OSTypeOK
  <2> QED BY <1>1, <1>2, <2>1, <2>2, <2>3, StillPolite
<1>5. CASE GroundInstall
  <2>1. UNCHANGED <<pending, stack, linked, status>> BY <1>5 DEF GroundInstall
  <2>2. \A s \in Signals : Quiet(s) BY <1>0, <2>1, StillQuiet
  <2> QED BY <1>1, <1>2, <1>3, <2>1, <2>2, StillPolite
<1>6. CASE GroundTimer
  <2>1. UNCHANGED <<stack, linked, status>> /\ pending' = [pending EXCEPT !["ground"] = @ \cup {"ALRM"}]
    BY <1>6 DEF GroundTimer
  <2>2. \A q \in Procs, r \in Signals, m \in 0 .. 2 : Frame(q, r, m)' <=> Frame(q, r, m)
    BY <1>0, <2>1, SameFrames
  <2>3. /\ pending'["air"] = pending["air"] /\ pending'["radio"] = pending["radio"]
        /\ pending'["ground"] = pending["ground"] \cup {"ALRM"}
    BY <1>0, <2>1 DEF OSTypeOK
  <2> QED BY <1>1, <1>2, <1>3, <2>1, <2>2, <2>3 DEF Polite
<1>7. ASSUME NEW s \in Signals, GroundSignal(s) PROVE Polite'
  <2>1. EnterHandler("ground", s) /\ UNCHANGED <<status, linked>>
    BY <1>7 DEF GroundSignal, EnterHandler
  <2>2. \A q \in Procs : pending'[q] \subseteq pending[q]
    BY <1>0, <2>1 DEF EnterHandler, Take, OSTypeOK
  <2>3. /\ \A m \in 1 .. 2 : Frame("radio", "TERM", m)' => Frame("radio", "TERM", m)
        /\ (\E m \in 0 .. 2 : Frame("ground", "TERM", m)') =>
              "TERM" \in pending["ground"] \/ \E m \in 0 .. 2 : Frame("ground", "TERM", m)
    <3>1. CASE s = "TERM" BY <1>0, <2>1, <3>1, Delivery
    <3>2. CASE s # "TERM" BY <1>0, <2>1, <3>2, Delivery DEF Quiet
    <3> QED BY <3>1, <3>2
  <2> QED BY <1>1, <1>2, <1>3, <2>1, <2>2, <2>3 DEF Polite
<1>8. ASSUME NEW s \in {"USR1", "ALRM"}, NEW k \in 0 .. 1, Running("ground", s, k),
             (Advance("ground") /\ k = 0) \/ Return("ground"),
             UNCHANGED pending \/ Kill("radio", "USR2"),
             UNCHANGED <<shm, linked, status>>
      PROVE  Polite'
  <2>1. OtherFramesKept("ground", s) BY <1>0, <1>8, AdvanceFrames, ReturnFrames
  <2>2. \A q \in Procs : \A m \in 0 .. 2 : Frame(q, "TERM", m)' => Frame(q, "TERM", m)
    BY <2>1 DEF OtherFramesKept
  <2>3. shm["radio"] = "pid" BY <1>8, SlotsFilled DEF Asleep, Running
  <2>4. \A q \in Procs, r \in Signals :
            r \in pending'[q] => r \in pending[q] \/ (q = "radio" /\ r = "USR2")
    BY <1>0, <1>8, <2>3, KillOwner
  <2>5. /\ pending'["air"] \subseteq {"USR2"}
        /\ pending'["radio"] \subseteq {"USR1", "USR2", "TERM"}
        /\ pending'["ground"] \subseteq {"USR1", "ALRM", "TERM"}
    BY <2>4 DEF Polite, TypeOK, OSTypeOK
  <2>6. "TERM" \in pending'["ground"] => "TERM" \in pending["ground"] BY <2>4
  <2> QED BY <1>1, <1>2, <1>3, <1>8, <2>2, <2>5, <2>6 DEF Polite
<1>9. CASE Traffic BY <1>8, <1>9 DEF Traffic, Tick, Announce
<1>10. CASE GroundSigHandler1 BY <1>8, <1>10 DEF GroundSigHandler1
<1>11. CASE SigHandlerTerm
  <2>1. Running("ground", "TERM", 0) /\ Exit("ground") /\ UNCHANGED <<linked, groundVars>>
    BY <1>11 DEF SigHandlerTerm
  <2>2. radio_report # {}
    <3>1. Frame("ground", "TERM", 0)
      <4>1. stack["ground"] \in Seq(Frames) /\ stack["ground"] # <<>> BY <1>0, <2>1 DEF OSTypeOK,
         Running
      <4>2. Len(stack["ground"]) \in 1 .. Len(stack["ground"]) BY <4>1
      <4> QED BY <2>1, <4>2 DEF Frame, Running
    <3> QED BY <3>1 DEF Polite
  <2>3. \A s \in Signals : Quiet(s) BY <1>0, <2>1, ExitQuiet
  <2>4. NobodyKilled'
    <3>1. status' = [status EXCEPT !["ground"] = "dead"] BY <2>1 DEF Exit
    <3> QED BY <1>0, <1>1, <2>1, <2>2, <3>1 DEF Polite, NobodyKilled, OSTypeOK, groundVars
  <2> QED BY <1>1, <1>2, <2>1, <2>3, <2>4, StillPolite
<1>12. CASE DefaultAction("ground") /\ UNCHANGED groundVars BY <1>12, DefaultActionPolite
<1> QED BY <1>4, <1>5, <1>6, <1>7, <1>9, <1>10, <1>11, <1>12 DEF GroundNext

LEMMA AirPolite ==
    ASSUME Settled, Polite, TypeOK', (Asleep \/ Started)', Started => Started',
           AirNext, UNCHANGED groundVars
    PROVE  Polite'
<1> USE DEF Procs, Signals
<1>0. OSTypeOK /\ OneFrameEach BY DEF Settled, TypeOK
<1>8. UNCHANGED oneShot BY AirFlags
<1>1. UNCHANGED <<ground_pc, radio_report>>
  BY DEF groundVars, AirNext, AirMain, MemoryCreate, OpenMemory, SizeMemory, StoreAirPid, GiveSize,
     InstallSigHandler2, Fork, CreateThreads,
     JoinAndCleanUp, RadioLaunch, TakeOffsFunction, SigHandler2, radioVars
<1>2. ASSUME UNCHANGED <<main_pc, status, linked>>
      PROVE  NobodyKilled' /\ (main_pc' # "create" /\ ~Started' => linked')
  BY <1>1, <1>2, <1>8 DEF Polite, NobodyKilled
<1>3. CASE AirMain
  <2>1. \A s \in Signals : Quiet(s)
    BY <1>0, <1>3, ExitQuiet, StillQuiet
    DEF AirMain, MemoryCreate, OpenMemory, SizeMemory, StoreAirPid, GiveSize, InstallSigHandler2,
       Fork, CreateThreads, JoinAndCleanUp, osVars
  <2>2. CASE JoinAndCleanUp
    <3>1. status' = [status EXCEPT !["air"] = "dead"] /\ main_pc' = "exit"
      BY <2>2 DEF JoinAndCleanUp, MainStep, Exit
    <3>2. ~Asleep BY <2>2, ControllersAssumption DEF JoinAndCleanUp, Asleep
    <3>3. NobodyKilled' BY <1>0, <1>1, <1>8, <3>1 DEF Polite, NobodyKilled, OSTypeOK
    <3> QED BY <1>1, <2>1, <3>2, <3>3, StillPolite DEF Polite
  <2>3. CASE ~JoinAndCleanUp
    <3>1. NobodyKilled'
      BY <1>0, <1>1, <1>3, <2>3 DEF AirMain, MemoryCreate, OpenMemory, SizeMemory, StoreAirPid,
         GiveSize, InstallSigHandler2, Fork, CreateThreads, MainStep,
         Polite, NobodyKilled, OSTypeOK, Settled, Installed, osVars
    <3>2. main_pc # "create" /\ ~Started => linked BY DEF Polite
    <3>3. main_pc' # "create" /\ ~Started' => linked'
      BY <1>3, <2>3, <3>2 DEF AirMain, MemoryCreate, OpenMemory, SizeMemory, StoreAirPid, GiveSize,
         InstallSigHandler2, Fork, CreateThreads, MainStep, osVars
    <3> QED BY <1>1, <2>1, <3>1, <3>3, StillPolite
  <2> QED BY <2>2, <2>3
<1>4. CASE RadioLaunch
  <2>1. UNCHANGED <<main_pc, status, linked, stack>> BY <1>4 DEF RadioLaunch, airVars
  <2>2. \A q \in Procs, s \in Signals : s \in pending'[q] => s \in pending[q]
    BY <1>0, <1>4 DEF RadioLaunch, ChildStoresPid, Execl, ChildSigHandler2, Take, OSTypeOK
  <2>3. \A s \in Signals : Quiet(s) BY <1>0, <2>1, <2>2, SameFrames DEF Quiet
  <2> QED BY <1>1, <1>2, <2>1, <2>3, StillPolite
<1>5. ASSUME NEW t \in Controllers, TakeOffsFunction(t) PROVE Polite'
  <2>1. UNCHANGED <<main_pc, status, linked, stack, shm>> BY <1>5 DEF TakeOffsFunction
  <2>2. \A q \in Procs, r \in Signals, m \in 0 .. 2 : Frame(q, r, m)' <=> Frame(q, r, m)
    BY <1>0, <2>1, SameFrames
  <2>3. CASE UNCHANGED pending
    <3>1. \A s \in Signals : Quiet(s) BY <2>2, <2>3 DEF Quiet
    <3> QED BY <1>1, <1>2, <2>1, <3>1, StillPolite
  <2>4. CASE SignalRadio(t) \/ SignalGround(t) \/ (Finish(t) /\ Kill("radio", "TERM"))
    <3>1. ~Asleep BY <2>4 DEF SignalRadio, SignalGround, Finish, Step, Asleep
    <3>2. Kill("radio", "USR1") \/ Kill("ground", "USR1") \/ Kill("radio", "TERM")
      BY <2>4 DEF SignalRadio, SignalGround
    <3>3. \A q \in Procs, r \in Signals :
              r \in pending'[q] =>
                  (r \in pending[q] \/ (q = "radio" /\ r \in {"USR1", "TERM"}) \/ (q = "ground" /\ r = "USR1"))
      BY <1>0, <3>1, <3>2, SlotsFilled, KillOwner
    <3>4. /\ pending'["air"] \subseteq {"USR2"}
          /\ pending'["radio"] \subseteq {"USR1", "USR2", "TERM"}
          /\ pending'["ground"] \subseteq {"USR1", "ALRM", "TERM"}
      BY <3>3 DEF Polite, TypeOK, OSTypeOK
    <3>5. "TERM" \in pending'["ground"] => "TERM" \in pending["ground"] BY <3>3
    <3> QED BY <1>1, <1>2, <2>1, <2>2, <3>4, <3>5 DEF Polite
  <2> QED BY <1>5, <2>3, <2>4
      DEF TakeOffsFunction, LoopTest, PlanesTest, TryRunway1, TryRunway2, TryRunway, LockState,
         LoadPlanes,
          StorePlanes, CountTakeoff, UnlockState, ReleaseRunway, Finish
<1>6. ASSUME NEW t \in Threads, SigHandler2(t) PROVE Polite'
  <2>1. UNCHANGED <<main_pc, status, linked, stack>> BY <1>6 DEF SigHandler2
  <2>2. \A q \in Procs, s \in Signals : s \in pending'[q] => s \in pending[q]
    BY <1>0, <1>6 DEF SigHandler2, EnterSigHandler2, SigHandler2Load, SigHandler2Store, Take, OSTypeOK
  <2>3. \A s \in Signals : Quiet(s) BY <1>0, <2>1, <2>2, SameFrames DEF Quiet
  <2> QED BY <1>1, <1>2, <2>1, <2>3, StillPolite
<1>7. CASE DefaultAction("air") /\ UNCHANGED <<radioVars, airVars>> BY <1>7, DefaultActionPolite
<1> QED BY <1>3, <1>4, <1>5, <1>6, <1>7 DEF AirNext

LEMMA PoliteStep ==
    ASSUME Settled, Polite, TypeOK', [Next]_vars, TOTAL_TAKEOFFS > 0, PromptStartup \/ InTime'
    PROVE  Polite'
<1>1. (Asleep \/ Started)' BY AwakeStep
<1>2. Started => Started' BY StaysStarted DEF Settled
<1>3. CASE UNCHANGED vars
  <2>1. \A s \in Signals : Quiet(s) BY <1>3, StillQuiet DEF vars, osVars, Settled
  <2>2. NobodyKilled' /\ (main_pc' # "create" /\ ~Started' => linked')
    BY <1>3 DEF vars, osVars, airVars, radioVars, groundVars, Polite, NobodyKilled, Started
  <2> QED BY <1>1, <1>3, <2>1, <2>2, StillPolite DEF vars, radioVars
<1> QED BY <1>1, <1>2, <1>3, AirPolite, RadioPolite, GroundPolite DEF Next

\* RADIO_LIMIT is out of the radio's reach: its main loop never ends by itself.
LimitOutOfReach ==
    RADIO_LIMIT >= BATCH * ((TOTAL_TAKEOFFS + Cardinality(Controllers) - 1) \div BATCH)

\* In every behaviour in which ground control's first tick finds the others ready,
\* because they are prompt or because it so happens, every program ends where its
\* own code ends it or by a handler that the compiler has left to be a one-shot
\* (NobodyKilled), for any number of controllers and any batch.
THEOREM NobodyIsKilled ==
    ASSUME TOTAL_TAKEOFFS > 0, RESETHAND \subseteq UninitialisedFlags, LimitOutOfReach
    PROVE  Spec /\ [](PromptStartup \/ InTime) => []NobodyKilled
<1>1. Init => Polite
  <2> SUFFICES ASSUME Init PROVE Polite
    OBVIOUS
  <2>1. /\ \A p \in Procs : status[p] = "new" /\ pending[p] = {} /\ Len(stack[p]) = 0
        /\ main_pc = "create"
    BY DEF Init, OSInit, AirInit
  <2>2. \A p \in Procs : \A r, m : ~Frame(p, r, m) BY <2>1 DEF Frame
  <2> QED BY <2>1, <2>2, InitiallyAsleep DEF Polite, NobodyKilled, Procs
<1>2. TypeOK /\ RadioCountsNoMore => radio_takeoffs <= RADIO_LIMIT
  <2> DEFINE b == BATCH * ((TOTAL_TAKEOFFS + Cardinality(Controllers) - 1) \div BATCH)
  <2>1. Cardinality(Controllers) \in Nat BY ControllersAssumption, FS_CardinalityType
  <2>2. TOTAL_TAKEOFFS + Cardinality(Controllers) - 1 \in Int BY <2>1, TotalAssumption
  <2>3. b \in Int
    <3>1. \A n \in Int : BATCH * (n \div BATCH) \in Int BY BatchAssumption
    <3> QED BY <2>2, <3>1
  <2> HIDE DEF b
  <2>4. RADIO_LIMIT >= b /\ (RadioCountsNoMore <=> radio_takeoffs <= b)
    BY DEF LimitOutOfReach, RadioCountsNoMore, b
  <2> QED BY <2>3, <2>4, RadioLimitAssumption DEF TypeOK, RadioTypeOK
<1>3. /\ TypeOK /\ Installed /\ RadioInv /\ RadioCountsNoMore /\ Polite
      /\ TypeOK' /\ (PromptStartup \/ InTime)' /\ [Next]_vars
      => Polite'
  BY <1>2, PoliteStep DEF Settled, RadioInv
<1>4. Polite => NobodyKilled BY DEF Polite
<1> QED BY <1>1, <1>3, <1>4, TypeCorrect, InstalledInvariant, RadioInvariant, RadioCounts, PTL DEF Spec
=============================================================================
