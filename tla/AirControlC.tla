----------------------------- MODULE AirControlC -----------------------------
(***************************************************************************)
(* air_control_c: main.c creates the shared memory, installs SigHandler2,  *)
(* forks the radio, starts the controller threads and joins them;          *)
(* functions.c is what the threads and the handler do.  The kernel may run *)
(* the handler on any thread, and several threads may be inside it at      *)
(* once.  planes is updated without the lock by the handler, so            *)
(* "planes--" and "planes += 5" are a load and a store here.               *)
(***************************************************************************)
EXTENDS Radio

CONSTANTS
    Controllers,        \* the controller threads
    Main,               \* the thread of main()
    NoThread,           \* the owner of a free mutex
    TOTAL_TAKEOFFS

ASSUME ControllersAssumption ==
    /\ IsFiniteSet(Controllers)
    /\ Controllers # {}
    /\ Main \notin Controllers
    /\ NoThread \notin Controllers \cup {Main}
ASSUME TotalAssumption == TOTAL_TAKEOFFS \in Nat

Threads == Controllers \cup {Main}
Runways == {1, 2}

VARIABLES
    main_pc,            \* how far main() has got
    air_planes,         \* planes
    air_takeoffs,       \* takeoffs: since the last SIGUSR1
    total_takeoffs,
    state_lock,         \* owner of the mutex
    runway,             \* owner of runway1_lock and runway2_lock
    pc,                 \* where each controller is in TakeOffsFunction
    current_runway,     \* its local variable (0: not assigned yet)
    reg,                \* planes as loaded by "planes--"
    hpc, hreg           \* SigHandler2 as it runs on each thread

countVars == <<air_planes, air_takeoffs, total_takeoffs>>
lockVars == <<state_lock, runway>>
threadVars == <<pc, current_runway, reg>>
handlerVars == <<hpc, hreg>>
airVars == <<main_pc, countVars, lockVars, threadVars, handlerVars>>

Labels == {"idle", "loop", "planes", "runway1", "runway2", "lock", "load", "store", "count",
           "usr1radio", "usr1ground", "unlock", "release", "finish", "done"}

AirTypeOK ==
    /\ main_pc \in {"create", "truncate", "store", "sigaction", "fork", "spawn", "join", "exit"}
    /\ air_planes \in Int
    /\ air_takeoffs \in Nat
    /\ total_takeoffs \in Nat
    /\ state_lock \in Controllers \cup {NoThread}
    /\ runway \in [Runways -> Controllers \cup {NoThread}]
    /\ pc \in [Controllers -> Labels]
    /\ current_runway \in [Controllers -> Runways \cup {0}]
    /\ reg \in [Controllers -> Int]
    /\ hpc \in [Threads -> {"none", "load", "store"}]
    /\ hreg \in [Threads -> Int]

AirInit ==
    /\ main_pc = "create"
    /\ air_planes = 0
    /\ air_takeoffs = 0
    /\ total_takeoffs = 0
    /\ state_lock = NoThread
    /\ runway = [r \in Runways |-> NoThread]
    /\ pc = [t \in Controllers |-> "idle"]
    /\ current_runway = [t \in Controllers |-> 0]
    /\ reg = [t \in Controllers |-> 0]
    /\ hpc = [t \in Threads |-> "none"]
    /\ hreg = [t \in Threads |-> 0]

-----------------------------------------------------------------------------
(* main() *)

MainStep(from, to) ==
    /\ main_pc = from
    /\ main_pc' = to
    /\ hpc[Main] = "none"

\* MemoryCreate: the name is there for ground control before the object has its
\* size, and the memory before air control's pid is in it.
OpenMemory ==
    /\ status["air"] = "new"
    /\ MainStep("create", "truncate")
    /\ status' = [status EXCEPT !["air"] = "up"]
    /\ linked' = TRUE
    /\ UNCHANGED <<shm, handled, pending, oneShot, stack, radioVars>>

SizeMemory ==
    /\ Up("air")
    /\ MainStep("truncate", "store")
    /\ GiveSize
    /\ UNCHANGED <<linked, status, handled, pending, oneShot, stack, radioVars>>

StoreAirPid ==
    /\ Up("air")
    /\ MainStep("store", "sigaction")
    /\ shm' = [shm EXCEPT !["air"] = "pid"]
    /\ UNCHANGED <<linked, status, handled, pending, oneShot, stack, radioVars>>

MemoryCreate == OpenMemory \/ SizeMemory \/ StoreAirPid

InstallSigHandler2 ==
    /\ Up("air")
    /\ MainStep("sigaction", "fork")
    /\ handled' = [handled EXCEPT !["air"] = {"USR2"}]
    /\ UNCHANGED <<shm, linked, status, pending, oneShot, stack, radioVars>>

\* The child starts with its parent's handlers and none of its signals.
Fork ==
    /\ Up("air")
    /\ MainStep("fork", "spawn")
    /\ status' = [status EXCEPT !["radio"] = "up"]
    /\ handled' = [handled EXCEPT !["radio"] = handled["air"]]
    /\ radio_pc' = "child"
    /\ UNCHANGED <<shm, linked, pending, oneShot, stack,
                   radio_takeoffs, radio_planes, radio_report>>

\* A thread not yet created is one that has not been scheduled: one step.
CreateThreads ==
    /\ Up("air")
    /\ MainStep("spawn", "join")
    /\ pc' = [t \in Controllers |-> "loop"]
    /\ UNCHANGED <<osVars, radioVars>>

\* All threads joined: unlink the memory and return from main().
JoinAndCleanUp ==
    /\ Up("air")
    /\ MainStep("join", "exit")
    /\ \A t \in Controllers : pc[t] = "done"
    /\ linked' = FALSE
    /\ Exit("air")
    /\ UNCHANGED <<shm, handled, oneShot, radioVars>>

AirMain ==
    /\ \/ /\ MemoryCreate \/ InstallSigHandler2 \/ Fork \/ JoinAndCleanUp
          /\ UNCHANGED pc
       \/ CreateThreads
    /\ UNCHANGED <<countVars, lockVars, current_runway, reg, handlerVars>>

-----------------------------------------------------------------------------
(* The forked child, until execl turns it into the radio program. *)

ChildStoresPid ==
    /\ Up("radio") /\ radio_pc = "child"
    /\ radio_pc' = "exec"
    /\ shm' = [shm EXCEPT !["radio"] = "pid"]
    /\ UNCHANGED <<handled, pending>>

\* execl resets the handlers to the default action.
Execl ==
    /\ Up("radio") /\ radio_pc = "exec"
    /\ radio_pc' = "main"
    /\ handled' = [handled EXCEPT !["radio"] = {}]
    /\ UNCHANGED <<shm, pending>>

\* The inherited SigHandler2 changes only the child's own copy of planes.
ChildSigHandler2 ==
    /\ radio_pc \in {"child", "exec"}
    /\ Take("radio", "USR2")
    /\ UNCHANGED <<shm, radio_pc>>

RadioLaunch ==
    /\ ChildStoresPid \/ Execl \/ ChildSigHandler2
    /\ UNCHANGED <<linked, status, oneShot, stack, radio_takeoffs, radio_planes, radio_report>>
    /\ UNCHANGED airVars

-----------------------------------------------------------------------------
(* TakeOffsFunction() *)

\* Controller t goes on from one label to another; a handler running on t stops it.
Step(t, from, to) ==
    /\ Up("air")
    /\ hpc[t] = "none"
    /\ pc[t] = from
    /\ pc' = [pc EXCEPT ![t] = to]

\* Mutant of LoopTest: "<=" for "<".
LoopTestInclusive(t) ==
    /\ Step(t, "loop", IF total_takeoffs <= TOTAL_TAKEOFFS THEN "planes" ELSE "finish")
    /\ UNCHANGED <<pending, countVars, lockVars, current_runway, reg>>

LoopTest(t) ==
    /\ Step(t, "loop", IF total_takeoffs < TOTAL_TAKEOFFS THEN "planes" ELSE "finish")
    /\ UNCHANGED <<pending, countVars, lockVars, current_runway, reg>>

\* Mutant of PlanesTest: no plane is needed.
PlanesTestAlways(t) ==
    /\ Step(t, "planes", "runway1")
    /\ UNCHANGED <<pending, countVars, lockVars, current_runway, reg>>

\* Read without the lock, and not read again under it.
PlanesTest(t) ==
    /\ Step(t, "planes", IF air_planes <= 0 THEN "loop" ELSE "runway1")
    /\ UNCHANGED <<pending, countVars, lockVars, current_runway, reg>>

\* pthread_mutex_trylock on runway r: never waits.
TryRunway(t, r, here, otherwise) ==
    /\ \/ /\ runway[r] = NoThread
          /\ Step(t, here, "lock")
          /\ runway' = [runway EXCEPT ![r] = t]
          /\ current_runway' = [current_runway EXCEPT ![t] = r]
       \/ /\ runway[r] # NoThread
          /\ Step(t, here, otherwise)
          /\ UNCHANGED <<runway, current_runway>>
    /\ UNCHANGED <<pending, countVars, state_lock, reg>>

TryRunway1(t) == TryRunway(t, 1, "runway1", "runway2")
TryRunway2(t) == TryRunway(t, 2, "runway2", "loop")

LockState(t) ==
    /\ Step(t, "lock", "load")
    /\ state_lock = NoThread
    /\ state_lock' = t
    /\ UNCHANGED <<pending, countVars, runway, current_runway, reg>>

\* planes--
LoadPlanes(t) ==
    /\ Step(t, "load", "store")
    /\ reg' = [reg EXCEPT ![t] = air_planes]
    /\ UNCHANGED <<pending, countVars, lockVars, current_runway>>

StorePlanes(t) ==
    /\ Step(t, "store", "count")
    /\ air_planes' = reg[t] - 1
    /\ reg' = [reg EXCEPT ![t] = 0]     \* dead from here on
    /\ UNCHANGED <<pending, air_takeoffs, total_takeoffs, lockVars, current_runway>>

\* takeoffs++; total_takeoffs++.  Other threads see the new total at once.
CountTakeoff(t) ==
    /\ Step(t, "count", IF air_takeoffs + 1 = BATCH THEN "usr1radio" ELSE "unlock")
    /\ air_takeoffs' = air_takeoffs + 1
    /\ total_takeoffs' = total_takeoffs + 1
    /\ UNCHANGED <<pending, air_planes, lockVars, current_runway, reg>>

SignalRadio(t) ==
    /\ Step(t, "usr1radio", "usr1ground")
    /\ Kill("radio", "USR1")
    /\ UNCHANGED <<countVars, lockVars, current_runway, reg>>

\* Mutant of SignalGround: the radio's slot again instead of ground control's.
SignalRadioAgain(t) ==
    /\ Step(t, "usr1ground", "unlock")
    /\ Kill("radio", "USR1")
    /\ air_takeoffs' = 0
    /\ UNCHANGED <<air_planes, total_takeoffs, lockVars, current_runway, reg>>

\* Mutant of SignalGround: starts the next batch one take-off too early.
SignalGroundOffByOne(t) ==
    /\ Step(t, "usr1ground", "unlock")
    /\ Kill("ground", "USR1")
    /\ air_takeoffs' = 0 - 1
    /\ UNCHANGED <<air_planes, total_takeoffs, lockVars, current_runway, reg>>

SignalGround(t) ==
    /\ Step(t, "usr1ground", "unlock")
    /\ Kill("ground", "USR1")
    /\ air_takeoffs' = 0
    /\ UNCHANGED <<air_planes, total_takeoffs, lockVars, current_runway, reg>>

\* pthread_mutex_unlock(&state_lock), then the second the take-off lasts.
UnlockState(t) ==
    /\ Step(t, "unlock", "release")
    /\ state_lock' = NoThread
    /\ UNCHANGED <<pending, countVars, runway, current_runway, reg>>

\* Mutant of ReleaseRunway: always gives runway 1 back.
ReleaseRunway1(t) ==
    /\ Step(t, "release", "loop")
    /\ runway' = [runway EXCEPT ![1] = NoThread]
    /\ current_runway' = [current_runway EXCEPT ![t] = 0]
    /\ UNCHANGED <<pending, countVars, state_lock, reg>>

ReleaseRunway(t) ==
    /\ Step(t, "release", "loop")
    /\ runway' = [runway EXCEPT ![current_runway[t]] = NoThread]
    /\ current_runway' = [current_runway EXCEPT ![t] = 0]   \* dead from here on
    /\ UNCHANGED <<pending, countVars, state_lock, reg>>

\* Every controller that leaves the loop ends the radio.
Finish(t) ==
    /\ Step(t, "finish", "done")
    /\ IF total_takeoffs >= TOTAL_TAKEOFFS THEN Kill("radio", "TERM") ELSE UNCHANGED pending
    /\ UNCHANGED <<countVars, lockVars, current_runway, reg>>

TakeOffsFunction(t) ==
    /\ \/ LoopTest(t) \/ PlanesTest(t) \/ TryRunway1(t) \/ TryRunway2(t)
       \/ LockState(t) \/ LoadPlanes(t) \/ StorePlanes(t) \/ CountTakeoff(t)
       \/ SignalRadio(t) \/ SignalGround(t)
       \/ UnlockState(t) \/ ReleaseRunway(t) \/ Finish(t)
    /\ UNCHANGED <<shm, linked, status, handled, oneShot, stack, radioVars,
                   main_pc, handlerVars>>

-----------------------------------------------------------------------------
(* SigHandler2(), on whichever thread the kernel picks. *)

Running2(t) ==
    \/ t = Main /\ main_pc \notin {"create", "exit"}
    \/ t # Main /\ pc[t] \notin {"idle", "done"}

EnterSigHandler2(t) ==
    /\ Running2(t)
    /\ hpc[t] = "none"
    /\ Take("air", "USR2")
    /\ hpc' = [hpc EXCEPT ![t] = "load"]
    /\ UNCHANGED <<air_planes, hreg>>

\* planes += 5
SigHandler2Load(t) ==
    /\ Up("air") /\ hpc[t] = "load"
    /\ hpc' = [hpc EXCEPT ![t] = "store"]
    /\ hreg' = [hreg EXCEPT ![t] = air_planes]
    /\ UNCHANGED <<pending, handled, air_planes>>

SigHandler2Store(t) ==
    /\ Up("air") /\ hpc[t] = "store"
    /\ hpc' = [hpc EXCEPT ![t] = "none"]
    /\ hreg' = [hreg EXCEPT ![t] = 0]
    /\ air_planes' = hreg[t] + BATCH
    /\ UNCHANGED <<pending, handled>>

SigHandler2(t) ==
    /\ EnterSigHandler2(t) \/ SigHandler2Load(t) \/ SigHandler2Store(t)
    /\ UNCHANGED <<shm, linked, status, oneShot, stack, radioVars, main_pc,
                   air_takeoffs, total_takeoffs, lockVars, threadVars>>

-----------------------------------------------------------------------------
AirNext ==
    \/ AirMain
    \/ RadioLaunch
    \/ \E t \in Controllers : TakeOffsFunction(t)
    \/ \E t \in Threads : SigHandler2(t)
    \/ DefaultAction("air") /\ UNCHANGED <<radioVars, airVars>>

\* Every thread, the child and the delivery of signals make progress.
AirFairness ==
    /\ WF_<<osVars, radioVars, airVars>>(AirMain)
    /\ WF_<<osVars, radioVars, airVars>>(RadioLaunch)
    /\ \A t \in Controllers : WF_<<osVars, radioVars, airVars>>(TakeOffsFunction(t))
    /\ \A t \in Threads : WF_<<osVars, radioVars, airVars>>(SigHandler2(t))
=============================================================================
