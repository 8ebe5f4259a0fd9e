------------------------------- MODULE AirportC -------------------------------
(***************************************************************************)
(* P1/PP1 with the C air control: the three programs over the shared       *)
(* memory and the signals of AirportShared.  Each program's actions leave  *)
(* the others' variables alone; they meet only in osVars, and in the child *)
(* that air control forks and that becomes the radio.                      *)
(***************************************************************************)
EXTENDS AirControlC, GroundControl

vars == <<osVars, radioVars, groundVars, airVars>>

TypeOK == OSTypeOK /\ RadioTypeOK /\ GroundTypeOK /\ AirTypeOK

Init == OSInit /\ RadioInit /\ GroundInit /\ AirInit

\* Air control has run and no program runs any more.
Over == status["air"] = "dead" /\ \A p \in Procs : ~Up(p)

Next ==
    \/ AirNext /\ UNCHANGED groundVars
    \/ RadioNext /\ UNCHANGED <<airVars, groundVars>>
    \/ GroundNext /\ UNCHANGED <<radioVars, airVars>>
    \/ Over /\ UNCHANGED vars

Spec == Init /\ [][Next]_vars

FairSpec == Spec /\ AirFairness /\ RadioFairness /\ GroundFairness

\* The handlers whose struct sigaction is not initialised: air_control_c's, and
\* those of SIGUSR1 and SIGTERM in ground control.
UninitialisedFlags == {<<"air", "USR2">>, <<"ground", "USR1">>, <<"ground", "TERM">>}

-----------------------------------------------------------------------------
(* Locks *)

\* Labels at which a controller holds state_lock, or a runway.
Critical == {"load", "store", "count", "usr1radio", "usr1ground", "unlock"}
OnRunway == {"lock", "release"} \cup Critical

\* functions.c takes and gives back three mutexes on four paths: a controller
\* on a runway owns the mutex its own current_runway names and nobody else has
\* that runway, and the one in the critical section is alone there.
LocksHeld ==
    /\ \A t \in Controllers :
          /\ pc[t] \in OnRunway <=> current_runway[t] # 0
          /\ pc[t] \in OnRunway => runway[current_runway[t]] = t
          /\ pc[t] \in Critical <=> state_lock = t
    /\ \A r \in Runways : runway[r] # NoThread => current_runway[runway[r]] = r

-----------------------------------------------------------------------------
(* Counts *)

\* Controllers past the loop test (functions.c:66) whose take-off is not
\* counted yet: they will count it whatever total_takeoffs has become.
Committed == {t \in Controllers :
                pc[t] \in {"planes", "runway1", "runway2", "lock", "load", "store", "count"}}

\* The loop test reads total_takeoffs without the lock, so the total may pass
\* TOTAL_TAKEOFFS, by at most one take-off for each of the other controllers.
OvershootBounded ==
    total_takeoffs <= TOTAL_TAKEOFFS + Cardinality(Controllers) - 1

\* The radio counts take-offs in batches, one for each SIGUSR1, and SIGUSR1
\* comes with every batch-th take-off: however signals are lost or delayed, the
\* radio never counts more than the whole batches among the take-offs that the
\* controllers can make.  With 20 take-offs, a batch of 5 and fewer than 5
\* extra that is 20, so its main loop (radio/src/main.c:67) never ends by itself.
RadioCountsNoMore ==
    radio_takeoffs <=
        BATCH * ((TOTAL_TAKEOFFS + Cardinality(Controllers) - 1) \div BATCH)

\* A plane takes off once: air control never has more planes, waiting or gone,
\* than the radio has announced.  main.c:62 promises no races on the shared
\* variables; "planes += 5" in the handler can undo a "planes--".
NoPhantomPlanes == air_planes + total_takeoffs <= radio_planes

\* "No planes available for takeoff, wait and retry" (functions.c:68): no
\* take-off leaves fewer than no planes.
PlanesNonNegative == air_planes >= 0

-----------------------------------------------------------------------------
(* Signals *)

\* kill() with the zero of an unwritten slot reaches the whole process group.
\* Nobody signals ground control before its pid is in the slot, however the
\* three programs start: planes, and so take-offs, come from ground control.
GroundAddressed ==
    /\ \A t \in Controllers : pc[t] = "usr1ground" => shm["ground"] = "pid"
    /\ \A i \in 1 .. Len(stack["radio"]) :
          stack["radio"][i].sig \in {"USR1", "TERM"} => shm["ground"] = "pid"

\* A program is gone only when its own code has ended it (ground control also
\* when there is no memory for it), or when a handler that was to stay was a
\* one-shot: main.c:21 installs the handler of SIGUSR2 from a struct sigaction
\* whose flags are not set.  Nobody is killed by a signal meant for another, by
\* one that comes twice, or by one that comes after the end.
NobodyKilled ==
    /\ status["air"] = "dead" => main_pc = "exit" \/ <<"air", "USR2">> \in oneShot
    /\ status["radio"] = "dead" => radio_report # {}
    /\ status["ground"] = "dead" =>
           radio_report # {} \/ ground_pc = "start" \/ <<"ground", "USR1">> \in oneShot

\* The first tick of ground control's timer, 500 ms after its start, finds the
\* radio, and so air control, with all handlers installed.
InTime == ("ALRM" \in pending["ground"] \/ ground_planes > 0) => radio_pc = "run"

-----------------------------------------------------------------------------
(* Termination *)

\* test_performance.sh:160 waits for air control and ground control to end.
\* Once the last take-off is counted they do, and the radio with them,
\* whatever signals were merged on the way.
EverybodyGoesHome == (total_takeoffs >= TOTAL_TAKEOFFS) ~> Over
=============================================================================
