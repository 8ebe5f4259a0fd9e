----------------------------- MODULE AirControlPy -----------------------------
(***************************************************************************)
(* air_control_py/main.py: the same air control in Python.  Unlike the C   *)
(* program it zeroes the shared memory, looks at planes again under the    *)
(* lock, lets only the radio tell ground control of take-offs, and takes   *)
(* the lock in its signal handler.  The interpreter only flags a signal    *)
(* when it arrives (Trip); the main thread runs sigusr2_handler later,     *)
(* possibly inside another run of it.                                      *)
(***************************************************************************)
EXTENDS Radio

CONSTANTS
    Controllers,        \* the STRIPS worker threads
    Main,               \* the main thread
    NoThread,           \* the owner of a free lock
    TOTAL_TAKEOFFS,
    SignalsInsideWith   \* whether the interpreter may run the handler of a
                        \* pending signal between two bytecodes of the body of
                        \* "with state_lock"; versions of CPython differ

ASSUME ControllersAssumption ==
    /\ IsFiniteSet(Controllers)
    /\ Controllers # {}
    /\ Main \notin Controllers
    /\ NoThread \notin Controllers \cup {Main}
ASSUME TotalAssumption == TOTAL_TAKEOFFS \in Nat
ASSUME SignalsInsideWithAssumption == SignalsInsideWith \in BOOLEAN

Runways == {1, 2}

VARIABLES
    main_pc,            \* how far main() has got
    air_planes,         \* planes
    air_takeoffs,       \* takeoffs: since the last SIGUSR1
    total_takeoffs,
    state_lock,         \* owner of the lock
    runway,             \* owner of runway1_lock and runway2_lock
    pc,                 \* where each worker is in takeoff_worker
    current_runway,     \* its local variable runway (0: None)
    tripped,            \* a SIGUSR2 the interpreter has noted and not yet handled
    handlers            \* runs of sigusr2_handler on the main thread, innermost last

countVars == <<air_planes, air_takeoffs, total_takeoffs>>
lockVars == <<state_lock, runway>>
threadVars == <<pc, current_runway>>
handlerVars == <<tripped, handlers>>
airVars == <<main_pc, countVars, lockVars, threadVars, handlerVars>>

Labels == {"idle", "loop", "planes", "runway1", "runway2", "lock", "recheck", "count", "usr1",
           "unlock", "release", "bail", "finish", "term", "leave", "done"}

AirTypeOK ==
    /\ main_pc \in {"create", "truncate", "zero0", "zero1", "zero2", "store", "popen", "slot",
                   "signal", "spawn", "wait", "join", "exit"}
    /\ air_planes \in Int
    /\ air_takeoffs \in Nat
    /\ total_takeoffs \in Nat
    /\ state_lock \in Controllers \cup {Main, NoThread}
    /\ runway \in [Runways -> Controllers \cup {NoThread}]
    /\ pc \in [Controllers -> Labels]
    /\ current_runway \in [Controllers -> Runways \cup {0}]
    /\ tripped \in BOOLEAN
    /\ handlers \in Seq({"wait", "held"})

AirInit ==
    /\ main_pc = "create"
    /\ air_planes = 0
    /\ air_takeoffs = 0
    /\ total_takeoffs = 0
    /\ state_lock = NoThread
    /\ runway = [r \in Runways |-> NoThread]
    /\ pc = [t \in Controllers |-> "idle"]
    /\ current_runway = [t \in Controllers |-> 0]
    /\ tripped = FALSE
    /\ handlers = <<>>

-----------------------------------------------------------------------------
(* main() *)

MainStep(from, to) ==
    /\ main_pc = from
    /\ main_pc' = to
    /\ handlers = <<>>

\* create_shared_memory: the name is there for ground control from the first of
\* these steps on, and whatever it has stored by then is zeroed with the rest.
OpenMemory ==
    /\ status["air"] = "new"
    /\ MainStep("create", "truncate")
    /\ status' = [status EXCEPT !["air"] = "up"]
    /\ linked' = TRUE
    /\ UNCHANGED shm

SizeMemory ==
    /\ Up("air")
    /\ MainStep("truncate", "zero0")
    /\ GiveSize
    /\ UNCHANGED <<linked, status>>

SetSlot(p, value, from, to) ==
    /\ Up("air")
    /\ MainStep(from, to)
    /\ shm' = [shm EXCEPT ![p] = value]
    /\ UNCHANGED <<linked, status>>

\* Mutant of ZeroSlots: forgets ground control's slot.
ZeroOwnSlots ==
    \/ SetSlot("air", "zero", "zero0", "zero1")
    \/ SetSlot("radio", "zero", "zero1", "store")

ZeroSlots ==
    \/ SetSlot("air", "zero", "zero0", "zero1")
    \/ SetSlot("radio", "zero", "zero1", "zero2")
    \/ SetSlot("ground", "zero", "zero2", "store")

StoreAirPid == SetSlot("air", "pid", "store", "popen")

CreateSharedMemory ==
    /\ OpenMemory \/ SizeMemory \/ ZeroSlots \/ StoreAirPid
    /\ UNCHANGED <<handled, pending, radio_pc, pc>>

\* Popen returns once the child runs the radio program.
PopenRadio ==
    /\ Up("air")
    /\ MainStep("popen", "slot")
    /\ status' = [status EXCEPT !["radio"] = "up"]
    /\ radio_pc' = "main"
    /\ UNCHANGED <<shm, linked, handled, pending, pc>>

StoreRadioPid ==
    /\ Up("air")
    /\ MainStep("slot", "signal")
    /\ shm' = [shm EXCEPT !["radio"] = "pid"]
    /\ UNCHANGED <<linked, status, handled, pending, radio_pc, pc>>

InstallHandler ==
    /\ Up("air")
    /\ MainStep("signal", "spawn")
    /\ handled' = [handled EXCEPT !["air"] = {"USR2"}]
    /\ UNCHANGED <<shm, linked, status, pending, radio_pc, pc>>

StartThreads ==
    /\ Up("air")
    /\ MainStep("spawn", "wait")
    /\ pc' = [t \in Controllers |-> "loop"]
    /\ UNCHANGED <<shm, linked, status, handled, pending, radio_pc>>

WaitForGround ==
    /\ Up("air")
    /\ MainStep("wait", "join")
    /\ shm["ground"] # "zero"
    /\ UNCHANGED <<shm, linked, status, handled, pending, radio_pc, pc>>

JoinAndCleanUp ==
    /\ Up("air")
    /\ MainStep("join", "exit")
    /\ \A t \in Controllers : pc[t] = "done"
    /\ linked' = FALSE
    /\ status' = [status EXCEPT !["air"] = "dead"]
    /\ pending' = [pending EXCEPT !["air"] = {}]
    /\ UNCHANGED <<shm, handled, radio_pc, pc>>

AirMain ==
    /\ \/ CreateSharedMemory \/ PopenRadio \/ StoreRadioPid \/ InstallHandler
       \/ StartThreads \/ WaitForGround \/ JoinAndCleanUp
    /\ UNCHANGED <<oneShot, stack, radio_takeoffs, radio_planes, radio_report,
                   countVars, lockVars, current_runway, handlerVars>>

-----------------------------------------------------------------------------
(* takeoff_worker() *)

Step(t, from, to) ==
    /\ Up("air")
    /\ pc[t] = from
    /\ pc' = [pc EXCEPT ![t] = to]

\* Mutant of LoopTest: ends the radio without taking the lock first.
LoopTestThenTerm(t) ==
    /\ Step(t, "loop", IF total_takeoffs < TOTAL_TAKEOFFS THEN "planes" ELSE "term")
    /\ UNCHANGED <<pending, countVars, lockVars, current_runway>>

LoopTest(t) ==
    /\ Step(t, "loop", IF total_takeoffs < TOTAL_TAKEOFFS THEN "planes" ELSE "finish")
    /\ UNCHANGED <<pending, countVars, lockVars, current_runway>>

\* "Quick check ... without lock"
QuickCheck(t) ==
    /\ Step(t, "planes", IF air_planes <= 0 THEN "loop" ELSE "runway1")
    /\ UNCHANGED <<pending, countVars, lockVars, current_runway>>

\* acquire(blocking=False) on runway r
TryRunway(t, r, here, otherwise) ==
    /\ \/ /\ runway[r] = NoThread
          /\ Step(t, here, "lock")
          /\ runway' = [runway EXCEPT ![r] = t]
          /\ current_runway' = [current_runway EXCEPT ![t] = r]
       \/ /\ runway[r] # NoThread
          /\ Step(t, here, otherwise)
          /\ UNCHANGED <<runway, current_runway>>
    /\ UNCHANGED <<pending, countVars, state_lock>>

TryRunway1(t) == TryRunway(t, 1, "runway1", "runway2")
TryRunway2(t) == TryRunway(t, 2, "runway2", "loop")

Acquire(t, from, to) ==
    /\ Step(t, from, to)
    /\ state_lock = NoThread
    /\ state_lock' = t
    /\ UNCHANGED <<pending, countVars, runway, current_runway>>

Release(t, from, to) ==
    /\ Step(t, from, to)
    /\ state_lock' = NoThread
    /\ UNCHANGED <<pending, countVars, runway, current_runway>>

GiveRunwayBack(t) ==
    /\ runway' = [runway EXCEPT ![current_runway[t]] = NoThread]
    /\ current_runway' = [current_runway EXCEPT ![t] = 0]

\* Mutant of DoubleCheck: does not look again, like the C program.
NoDoubleCheck(t) ==
    /\ Step(t, "recheck", "count")
    /\ air_planes' = air_planes - 1
    /\ UNCHANGED <<pending, air_takeoffs, total_takeoffs, lockVars, current_runway>>

\* Mutant of DoubleCheck: leaves by "continue" with the runway still taken.
DoubleCheckKeepsRunway(t) ==
    /\ \/ /\ air_planes <= 0
          /\ Step(t, "recheck", "bail")
          /\ UNCHANGED air_planes
       \/ /\ air_planes > 0
          /\ Step(t, "recheck", "count")
          /\ air_planes' = air_planes - 1
    /\ UNCHANGED <<pending, air_takeoffs, total_takeoffs, lockVars, current_runway>>

\* planes is read again under the lock; without a plane the runway goes back.
DoubleCheck(t) ==
    /\ \/ /\ air_planes <= 0
          /\ Step(t, "recheck", "bail")
          /\ GiveRunwayBack(t)
          /\ UNCHANGED air_planes
       \/ /\ air_planes > 0
          /\ Step(t, "recheck", "count")
          /\ air_planes' = air_planes - 1
          /\ UNCHANGED <<runway, current_runway>>
    /\ UNCHANGED <<pending, air_takeoffs, total_takeoffs, state_lock>>

CountTakeoff(t) ==
    /\ Step(t, "count", IF air_takeoffs + 1 = BATCH THEN "usr1" ELSE "unlock")
    /\ air_takeoffs' = air_takeoffs + 1
    /\ total_takeoffs' = total_takeoffs + 1
    /\ UNCHANGED <<pending, air_planes, lockVars, current_runway>>

\* os.kill only when the slot is not 0
SignalRadio(s) == IF shm["radio"] = "zero" THEN UNCHANGED pending ELSE Kill("radio", s)

\* Mutant of ReportBatch: starts the next batch one take-off too early.
ReportBatchOffByOne(t) ==
    /\ Step(t, "usr1", "unlock")
    /\ SignalRadio("USR1")
    /\ air_takeoffs' = 0 - 1
    /\ UNCHANGED <<air_planes, total_takeoffs, lockVars, current_runway>>

ReportBatch(t) ==
    /\ Step(t, "usr1", "unlock")
    /\ SignalRadio("USR1")
    /\ air_takeoffs' = 0
    /\ UNCHANGED <<air_planes, total_takeoffs, lockVars, current_runway>>

\* The second the take-off lasts comes before this.
ReleaseRunway(t) ==
    /\ Step(t, "release", "loop")
    /\ GiveRunwayBack(t)
    /\ UNCHANGED <<pending, countVars, state_lock>>

\* Mutant of EndRadio: ">" for ">=".
EndRadioStrict(t) ==
    /\ Step(t, "term", "leave")
    /\ IF total_takeoffs > TOTAL_TAKEOFFS THEN SignalRadio("TERM") ELSE UNCHANGED pending
    /\ UNCHANGED <<countVars, lockVars, current_runway>>

\* Under the lock again, so that every batch counted has been reported.
EndRadio(t) ==
    /\ Step(t, "term", "leave")
    /\ IF total_takeoffs >= TOTAL_TAKEOFFS THEN SignalRadio("TERM") ELSE UNCHANGED pending
    /\ UNCHANGED <<countVars, lockVars, current_runway>>

TakeoffWorker(t) ==
    /\ \/ LoopTest(t) \/ QuickCheck(t) \/ TryRunway1(t) \/ TryRunway2(t)
       \/ Acquire(t, "lock", "recheck") \/ DoubleCheck(t) \/ Release(t, "bail", "loop")
       \/ CountTakeoff(t) \/ ReportBatch(t) \/ Release(t, "unlock", "release")
       \/ ReleaseRunway(t)
       \/ Acquire(t, "finish", "term") \/ EndRadio(t) \/ Release(t, "leave", "done")
    /\ UNCHANGED <<shm, linked, status, handled, oneShot, stack, radioVars,
                   main_pc, handlerVars>>

-----------------------------------------------------------------------------
(* sigusr2_handler(), on the main thread only *)

Innermost == handlers[Len(handlers)]

\* The interpreter's own handler notes the signal on any thread.
Trip ==
    /\ Take("air", "USR2")
    /\ tripped' = TRUE
    /\ UNCHANGED <<air_planes, state_lock, handlers>>

\* The main thread calls the handler: from its own code, or while an earlier
\* call waits for the lock, or (SignalsInsideWith) while that call holds it.
CallHandler ==
    /\ Up("air") /\ tripped
    /\ handlers # <<>> => Innermost = "wait" \/ SignalsInsideWith
    /\ tripped' = FALSE
    /\ handlers' = Append(handlers, "wait")
    /\ UNCHANGED <<pending, handled, air_planes, state_lock>>

HandlerLocks ==
    /\ Up("air") /\ handlers # <<>> /\ Innermost = "wait"
    /\ state_lock = NoThread
    /\ state_lock' = Main
    /\ handlers' = [handlers EXCEPT ![Len(handlers)] = "held"]
    /\ UNCHANGED <<pending, handled, tripped, air_planes>>

\* planes += 5, unlock, return
HandlerReturns ==
    /\ Up("air") /\ handlers # <<>> /\ Innermost = "held"
    /\ air_planes' = air_planes + BATCH
    /\ state_lock' = NoThread
    /\ handlers' = SubSeq(handlers, 1, Len(handlers) - 1)
    /\ UNCHANGED <<pending, handled, tripped>>

SigUsr2Handler ==
    /\ Trip \/ CallHandler \/ HandlerLocks \/ HandlerReturns
    /\ UNCHANGED <<shm, linked, status, oneShot, stack, radioVars, main_pc,
                   air_takeoffs, total_takeoffs, runway, threadVars>>

-----------------------------------------------------------------------------
AirNext ==
    \/ AirMain
    \/ \E t \in Controllers : TakeoffWorker(t)
    \/ SigUsr2Handler
    \/ DefaultAction("air") /\ UNCHANGED <<radioVars, airVars>>

\* Every thread makes progress.  The lock is blocking and every section under it
\* ends, so weak fairness is enough for whoever waits for it.
AirFairness ==
    /\ WF_<<osVars, radioVars, airVars>>(AirMain)
    /\ \A t \in Controllers : WF_<<osVars, radioVars, airVars>>(TakeoffWorker(t))
    /\ WF_<<osVars, radioVars, airVars>>(SigUsr2Handler)
=============================================================================
