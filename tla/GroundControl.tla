---------------------------- MODULE GroundControl ----------------------------
(***************************************************************************)
(* ground_control/src/main.c: opens the shared memory that air control has *)
(* created, installs its handlers and a 500 ms timer, and pauses.  Every   *)
(* tick admits a batch of planes until PLANES_LIMIT have been admitted.    *)
(***************************************************************************)
EXTENDS AirportShared

CONSTANTS
    PLANES_LIMIT,
    PromptStartup,  \* TRUE: air control and radio are ready before ground's
                    \* first 500 ms are over; FALSE: nothing is known
    AirFirst        \* TRUE: ground control is started when air control has made
                    \* the memory (test_performance.sh:73 sleeps 3 s between the
                    \* two); FALSE: at any time (lines 76-82 do not wait)

ASSUME PlanesLimitAssumption == PLANES_LIMIT \in Nat
ASSUME AirFirstAssumption == AirFirst \in BOOLEAN
ASSUME PromptStartupAssumption == PromptStartup \in BOOLEAN

VARIABLES
    ground_pc,          \* how far main() has got
    ground_planes,      \* planes
    ground_takeoffs,    \* takeoffs
    ground_traffic      \* traffic: planes waiting, as last computed

groundVars == <<ground_pc, ground_planes, ground_takeoffs, ground_traffic>>

GroundTypeOK ==
    /\ ground_pc \in {"start", "term", "usr1", "timer", "run"}
    /\ ground_planes \in Nat
    /\ ground_takeoffs \in Nat
    /\ ground_traffic \in Int

GroundInit ==
    /\ ground_pc = "start"
    /\ ground_planes = 0
    /\ ground_takeoffs = 0
    /\ ground_traffic = 0

\* MemoryOpen: fails, and ends the program, when there is no shared memory; the
\* store of the pid ends it when the memory has no size yet.
MemoryOpen ==
    /\ status["ground"] = "new"
    /\ AirFirst => shm["air"] = "pid"
    /\ \/ /\ linked /\ shm["ground"] # "none"
          /\ status' = [status EXCEPT !["ground"] = "up"]
          /\ shm' = [shm EXCEPT !["ground"] = "pid"]
          /\ ground_pc' = "term"
       \/ /\ ~linked \/ shm["ground"] = "none"
          /\ status' = [status EXCEPT !["ground"] = "dead"]
          /\ UNCHANGED <<shm, ground_pc>>
    /\ UNCHANGED <<linked, handled, pending, oneShot, stack,
                   ground_planes, ground_takeoffs, ground_traffic>>

GroundInstall ==
    /\ \/ Install("ground", "TERM", ground_pc, "term") /\ ground_pc' = "usr1"
       \/ Install("ground", "USR1", ground_pc, "usr1") /\ ground_pc' = "timer"
       \/ Install("ground", "ALRM", ground_pc, "timer") /\ ground_pc' = "run"
    /\ UNCHANGED <<shm, linked, status, pending, oneShot, stack,
                   ground_planes, ground_takeoffs, ground_traffic>>

\* The interval timer.  It needs no help from ground's own code once set.
GroundTimer ==
    /\ Up("ground") /\ ground_pc = "run"
    /\ (PromptStartup /\ ground_planes = 0) =>
           /\ {"USR1", "USR2", "TERM"} \subseteq handled["radio"]
           /\ "USR2" \in handled["air"]
    /\ "ALRM" \notin pending["ground"]
    /\ pending' = [pending EXCEPT !["ground"] = @ \cup {"ALRM"}]
    /\ UNCHANGED <<shm, linked, status, handled, oneShot, stack, groundVars>>

GroundSignal(s) ==
    /\ EnterHandler("ground", s)
    /\ UNCHANGED groundVars

\* Traffic: what is waiting, then five more planes while below the limit.
Tick ==
    /\ Running("ground", "ALRM", 0)
    /\ ground_traffic' = ground_planes - ground_takeoffs
    /\ \/ /\ ground_planes < PLANES_LIMIT
          /\ ground_planes' = ground_planes + BATCH
          /\ Advance("ground")
       \/ /\ ground_planes >= PLANES_LIMIT
          /\ Return("ground")
          /\ UNCHANGED ground_planes
    /\ UNCHANGED pending

Announce ==
    /\ Running("ground", "ALRM", 1)
    /\ Kill("radio", "USR2")
    /\ Return("ground")
    /\ UNCHANGED <<ground_planes, ground_traffic>>

Traffic ==
    /\ Tick \/ Announce
    /\ UNCHANGED <<shm, linked, status, handled, oneShot, ground_pc, ground_takeoffs>>

GroundSigHandler1 ==
    /\ Running("ground", "USR1", 0)
    /\ ground_takeoffs' = ground_takeoffs + BATCH
    /\ Return("ground")
    /\ UNCHANGED <<shm, linked, status, handled, pending, oneShot,
                   ground_pc, ground_planes, ground_traffic>>

SigHandlerTerm ==
    /\ Running("ground", "TERM", 0)
    /\ Exit("ground")
    /\ UNCHANGED <<shm, linked, handled, oneShot, groundVars>>

GroundNext ==
    \/ MemoryOpen \/ GroundInstall \/ GroundTimer
    \/ \E s \in Signals : GroundSignal(s)
    \/ Traffic \/ GroundSigHandler1 \/ SigHandlerTerm
    \/ DefaultAction("ground") /\ UNCHANGED groundVars

\* The timer fires, signals are delivered and handlers run; nobody promises to
\* start ground control.  Ticks are half a second apart, so a handler that a
\* tick keeps interrupting is not interrupted for ever: strong fairness.
GroundFairness ==
    /\ WF_<<osVars, groundVars>>(GroundInstall)
    /\ SF_<<osVars, groundVars>>(Traffic)
    /\ SF_<<osVars, groundVars>>(GroundSigHandler1)
    /\ SF_<<osVars, groundVars>>(SigHandlerTerm)
    /\ WF_<<osVars, groundVars>>(GroundTimer)
    /\ \A s \in Signals : WF_<<osVars, groundVars>>(GroundSignal(s))
=============================================================================
