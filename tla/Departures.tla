------------------------------ MODULE Departures ------------------------------
(***************************************************************************)
(* What an air control promises, without threads, locks or signals: planes *)
(* arrive in batches, leave one by one, are reported in full batches, and  *)
(* the day is closed once TOTAL of them are reported.                      *)
(***************************************************************************)
EXTENDS Integers

CONSTANTS
    BATCH,      \* planes in an arrival and in a report
    TOTAL,      \* take-offs to report before closing
    SLACK       \* take-offs that may still happen beyond TOTAL

VARIABLES waiting, gone, reported, closed

departureVars == <<waiting, gone, reported, closed>>

DeparturesInit ==
    /\ waiting = 0
    /\ gone = 0
    /\ reported = 0
    /\ closed = FALSE

Arrive ==
    /\ waiting' = waiting + BATCH
    /\ UNCHANGED <<gone, reported, closed>>

Depart ==
    /\ waiting > 0
    /\ gone < TOTAL + SLACK
    /\ waiting' = waiting - 1
    /\ gone' = gone + 1
    /\ UNCHANGED <<reported, closed>>

Report ==
    /\ ~closed
    /\ gone >= reported + BATCH
    /\ reported' = reported + BATCH
    /\ UNCHANGED <<waiting, gone, closed>>

Close ==
    /\ reported >= TOTAL
    /\ closed' = TRUE
    /\ UNCHANGED <<waiting, gone, reported>>

DeparturesNext == Arrive \/ Depart \/ Report \/ Close

DeparturesSpec == DeparturesInit /\ [][DeparturesNext]_departureVars
=============================================================================
