-------------------------------- MODULE Radio --------------------------------
(***************************************************************************)
(* radio/src/main.c: counts what the other two report and forwards every   *)
(* signal to the opposite side.  main() opens the shared memory, installs  *)
(* three handlers one after the other and pauses; everything else happens  *)
(* in the handlers.                                                        *)
(***************************************************************************)
EXTENDS AirportShared

CONSTANT RADIO_LIMIT    \* the 100 in "while (takeoffs <= 100) pause()"

ASSUME RadioLimitAssumption == RADIO_LIMIT \in Nat

VARIABLES
    radio_pc,           \* how far main() has got
    radio_takeoffs,     \* takeoffs
    radio_planes,       \* planes
    radio_report        \* the pairs "Takeoffs: %d Planes: %d" printed by SigTerm

radioVars == <<radio_pc, radio_takeoffs, radio_planes, radio_report>>

RadioTypeOK ==
    /\ radio_pc \in {"none", "child", "exec", "main", "usr1", "usr2", "term", "run"}
    /\ radio_takeoffs \in Nat
    /\ radio_planes \in Nat
    /\ radio_report \subseteq (Nat \X Nat)

RadioInit ==
    /\ radio_pc = "none"
    /\ radio_takeoffs = 0
    /\ radio_planes = 0
    /\ radio_report = {}

\* shm_open: without the name, radio gives up.
RadioOpen ==
    /\ Up("radio") /\ radio_pc = "main"
    /\ \/ /\ linked
          /\ radio_pc' = "usr1"
          /\ UNCHANGED <<status, pending, stack>>
       \/ /\ ~linked
          /\ Exit("radio")
          /\ UNCHANGED radio_pc
    /\ UNCHANGED <<shm, linked, handled, oneShot, radio_takeoffs, radio_planes, radio_report>>

RadioInstall ==
    /\ \/ Install("radio", "USR1", radio_pc, "usr1") /\ radio_pc' = "usr2"
       \/ Install("radio", "USR2", radio_pc, "usr2") /\ radio_pc' = "term"
       \/ Install("radio", "TERM", radio_pc, "term") /\ radio_pc' = "run"
    /\ UNCHANGED <<shm, linked, status, pending, oneShot, stack,
                   radio_takeoffs, radio_planes, radio_report>>

\* Past its limit main() returns, with no report and without telling ground.
RadioQuit ==
    /\ InMain("radio") /\ radio_pc = "run"
    /\ radio_takeoffs > RADIO_LIMIT
    /\ Exit("radio")
    /\ UNCHANGED <<shm, linked, handled, oneShot, radioVars>>

RadioSignal(s) ==
    /\ radio_pc \notin {"none", "child", "exec"}   \* until execl they are air control's
    /\ EnterHandler("radio", s)
    /\ UNCHANGED radioVars

\* Mutant of RadioSigHandler1: tells ground control before it counts.
RadioSigHandler1ForwardFirst ==
    \/ /\ Running("radio", "USR1", 0)
       /\ Kill("ground", "USR1")
       /\ Advance("radio")
       /\ UNCHANGED <<radio_takeoffs, radio_planes>>
    \/ /\ Running("radio", "USR1", 1)
       /\ radio_takeoffs' = radio_takeoffs + BATCH
       /\ Return("radio")
       /\ UNCHANGED <<pending, radio_planes>>

\* SigHandler1: count five take-offs, then tell ground control.
RadioSigHandler1 ==
    \/ /\ Running("radio", "USR1", 0)
       /\ radio_takeoffs' = radio_takeoffs + BATCH
       /\ Advance("radio")
       /\ UNCHANGED <<pending, radio_planes>>
    \/ /\ Running("radio", "USR1", 1)
       /\ Kill("ground", "USR1")
       /\ Return("radio")
       /\ UNCHANGED <<radio_takeoffs, radio_planes>>

\* SigHandler2: count five planes, then tell air control.
RadioSigHandler2 ==
    \/ /\ Running("radio", "USR2", 0)
       /\ radio_planes' = radio_planes + BATCH
       /\ Advance("radio")
       /\ UNCHANGED <<pending, radio_takeoffs>>
    \/ /\ Running("radio", "USR2", 1)
       /\ Kill("air", "USR2")
       /\ Return("radio")
       /\ UNCHANGED <<radio_takeoffs, radio_planes>>

\* SigTerm: report, dismiss ground control, unlink the memory and exit.
RadioReport ==
    /\ Running("radio", "TERM", 0)
    /\ radio_report' = radio_report \cup {<<radio_takeoffs, radio_planes>>}
    /\ Advance("radio")
    /\ UNCHANGED <<linked, status, pending>>

\* Mutant of RadioDismissGround: leaves ground control running.
RadioForgetsGround ==
    /\ Running("radio", "TERM", 1)
    /\ Advance("radio")
    /\ UNCHANGED <<linked, status, pending, radio_report>>

RadioDismissGround ==
    /\ Running("radio", "TERM", 1)
    /\ Kill("ground", "TERM")
    /\ Advance("radio")
    /\ UNCHANGED <<linked, status, radio_report>>

RadioUnlink ==
    /\ Running("radio", "TERM", 2)
    /\ linked' = FALSE
    /\ Exit("radio")
    /\ UNCHANGED radio_report

RadioSigTerm ==
    /\ RadioReport \/ RadioDismissGround \/ RadioUnlink
    /\ UNCHANGED <<shm, handled, oneShot, radio_pc, radio_takeoffs, radio_planes>>

RadioHandlers ==
    \/ /\ RadioSigHandler1 \/ RadioSigHandler2
       /\ UNCHANGED <<shm, linked, status, handled, oneShot, radio_pc, radio_report>>
    \/ RadioSigTerm

RadioNext ==
    \/ RadioOpen \/ RadioInstall \/ RadioQuit
    \/ \E s \in Signals : RadioSignal(s)
    \/ RadioHandlers
    \/ DefaultAction("radio") /\ UNCHANGED radioVars

\* The kernel delivers every pending signal and keeps running the process.
RadioFairness ==
    /\ WF_<<osVars, radioVars>>(RadioOpen \/ RadioInstall \/ RadioHandlers)
    /\ \A s \in Signals : WF_<<osVars, radioVars>>(RadioSignal(s))
=============================================================================
