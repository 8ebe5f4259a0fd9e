------------------------------- MODULE AirportPy -------------------------------
(***************************************************************************)
(* P1/PP1 with the Python air control: the composition of AirportC with    *)
(* the other program in air control's place.  The radio and ground control *)
(* are the same two programs.                                              *)
(***************************************************************************)
EXTENDS AirControlPy, GroundControl

vars == <<osVars, radioVars, groundVars, airVars>>

TypeOK == OSTypeOK /\ RadioTypeOK /\ GroundTypeOK /\ AirTypeOK

Init == OSInit /\ RadioInit /\ GroundInit /\ AirInit

\* Air control has run and no program runs any more.
Over == status["air"] = "dead" /\ \A p \in Procs : ~Up(p)

Next ==
    \/ AirNext /\ UNCHANGED groundVars
    \/ RadioNext /\ UNCHANGED <<airVars, groundVars>>
    \/ GroundNext /\ UNCHANGED <<radioVars, airVars>>
    \/ Over /\ UNCHANGED vars

Spec == Init /\ [][Next]_vars

FairSpec == Spec /\ AirFairness /\ RadioFairness /\ GroundFairness

-----------------------------------------------------------------------------
(* Locks *)

\* Labels at which a worker is inside "with state_lock", or has a runway.
Critical == {"recheck", "count", "usr1", "unlock", "bail", "term", "leave"}
OnRunway == {"lock", "recheck", "count", "usr1", "unlock", "release"}

\* main.py takes and gives back three locks on five paths, one of them by
\* "continue" out of the with block: a worker on a runway owns the lock its own
\* runway names, and whoever is inside "with state_lock", worker or signal
\* handler, is alone there.
LocksHeld ==
    /\ \A t \in Controllers :
          /\ pc[t] \in OnRunway <=> current_runway[t] # 0
          /\ pc[t] \in OnRunway => runway[current_runway[t]] = t
          /\ pc[t] \in Critical <=> state_lock = t
    /\ \A r \in Runways : runway[r] # NoThread => current_runway[runway[r]] = r
    /\ \A i, j \in 1 .. Len(handlers) :
          handlers[i] = "held" /\ handlers[j] = "held" => i = j
    /\ (\E i \in 1 .. Len(handlers) : handlers[i] = "held") <=> state_lock = Main

-----------------------------------------------------------------------------
(* Counts *)

\* The loop test (main.py:67) reads total_takeoffs without the lock, so the
\* total may pass TOTAL_TAKEOFFS, by at most one for each of the other workers.
OvershootBounded ==
    total_takeoffs <= TOTAL_TAKEOFFS + Cardinality(Controllers) - 1

\* The double check under the lock (main.py:88): no take-off without a plane.
PlanesNonNegative == air_planes >= 0

\* Every program's counts are backed by those of the program that announced
\* them, although signals merge and their handlers nest: planes pass from
\* ground control over the radio to air control, take-offs the other way.  That
\* is so once ground control has its slot and keeps it; without it the radio's
\* reports go to everybody.
CountsBacked ==
    shm["ground"] = "pid" =>
        /\ radio_planes <= ground_planes
        /\ air_planes + total_takeoffs <= radio_planes
        /\ radio_takeoffs <= total_takeoffs
        /\ ground_takeoffs <= radio_takeoffs

-----------------------------------------------------------------------------
(* Signals *)

\* main.py:119 takes the lock to end the radio: no worker ends it while
\* another still has a batch to report to it.
TermAfterLastBatch ==
    (\E t \in Controllers : pc[t] \in {"leave", "done"})
        => \A u \in Controllers : pc[u] # "usr1"

\* Ground control is to "store this process PID in position 2" (its main.c:47),
\* and air control then waits "for ground_control to attach (PID in shm[2])"
\* (main.py:158): the pid of a running ground control stays in its slot.
GroundKeepsItsSlot == Up("ground") => shm["ground"] = "pid"

\* The loop of that wait (main.py:160) ends only when ground control has stored its pid, in
\* whatever order the programs start and whatever an earlier run has left.
GroundAwaited == main_pc \in {"join", "exit"} => shm["ground"] = "pid"

-----------------------------------------------------------------------------
(* Refinement *)

\* Workers that have taken a plane and not yet counted it.
Counting == {t \in Controllers : pc[t] = "count"}

\* Some worker has ended the radio.
Closed == \E t \in Controllers : pc[t] \in {"leave", "done"}

\* A take-off is gone when its plane is taken, reported when it no longer counts
\* towards the next batch; the day is closed when a worker has ended the radio.
D == INSTANCE Departures WITH
        TOTAL <- TOTAL_TAKEOFFS,
        SLACK <- Cardinality(Controllers) - 1,
        waiting <- air_planes,
        gone <- total_takeoffs + Cardinality(Counting),
        reported <- total_takeoffs - air_takeoffs,
        closed <- Closed

\* The Python air control keeps the promise of Departures.
KeepsPromise == D!DeparturesSpec

\* What it needs for that, and the source has: five workers report batches of
\* five, up to twenty.
WholeBatches == Cardinality(Controllers) <= BATCH /\ TOTAL_TAKEOFFS % BATCH = 0

-----------------------------------------------------------------------------
(* Termination *)

\* "Wait for all threads to complete" (main.py:163): once the planes for all
\* take-offs have arrived, the workers complete and all three programs end.
PlanesTakeOff == (air_planes + total_takeoffs >= TOTAL_TAKEOFFS) ~> Over
=============================================================================
