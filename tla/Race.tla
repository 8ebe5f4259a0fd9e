-------------------------------- MODULE Race --------------------------------
(***************************************************************************)
(* Section3/L1.  One thread for each horse moves it along its track and,   *)
(* at the end, puts it into the list of results, without a mutex: the      *)
(* index is loaded for the store into the list, and loaded and stored      *)
(* again to count.                                                         *)
(***************************************************************************)
EXTENDS Integers, Course

CONSTANTS
    NUM_HORSES,         \* 5 in the source
    TRACK_LENGTH,       \* 50
    STEP                \* a horse moves by rand() % STEP (4)

ASSUME RaceAssumption ==
    NUM_HORSES \in Nat \ {0} /\ TRACK_LENGTH \in Nat \ {0} /\ STEP \in Nat \ {0}

VARIABLES
    track, finish_order, finish_count,
    horse_pc,
    place,              \* the finish_count a horse has loaded
    ended               \* the results are printed

raceVars == <<track, finish_order, finish_count, horse_pc, place, ended>>

Horses == 0 .. NUM_HORSES - 1
Finishing == {"load", "store", "reload", "count"}

RaceTypeOK ==
    /\ track \in [Horses -> 0 .. TRACK_LENGTH]
    /\ finish_order \in [Horses -> Horses]
    /\ finish_count \in Nat
    /\ horse_pc \in [Horses -> {"run", "exit"} \cup Finishing]
    /\ place \in [Horses -> Nat]
    /\ ended \in BOOLEAN

RaceInit ==
    /\ track = [h \in Horses |-> 0]
    /\ finish_order = [i \in Horses |-> 0]
    /\ finish_count = 0
    /\ horse_pc = [h \in Horses |-> "run"]
    /\ place = [h \in Horses |-> 0]
    /\ ended = FALSE

Horse(h, from, to) == horse_pc[h] = from /\ horse_pc' = [horse_pc EXCEPT ![h] = to]

\* Mutant of Move: the last step leads past the end of the track.
MovePast(h, step) ==
    /\ Calm => \A g \in Horses : horse_pc[g] \notin Finishing
    /\ track' = [track EXCEPT ![h] = @ + step]
    /\ Horse(h, "run", IF track[h] + step >= TRACK_LENGTH THEN "load" ELSE "run")
    /\ UNCHANGED <<finish_order, finish_count, place>>

\* usleep(10000) between the moves: one horse at a time, if all is calm.
Move(h, step) ==
    /\ Calm => \A g \in Horses : horse_pc[g] \notin Finishing
    /\ LET reached == track[h] + step IN
          /\ track' = [track EXCEPT ![h] = IF reached > TRACK_LENGTH THEN TRACK_LENGTH ELSE reached]
          /\ Horse(h, "run", IF reached >= TRACK_LENGTH THEN "load" ELSE "run")
    /\ UNCHANGED <<finish_order, finish_count, place>>

\* Mutant of LoadPlace: the place of the horse before.
LoadPlaceBefore(h) ==
    /\ Horse(h, "load", "store")
    /\ place' = [place EXCEPT ![h] = IF finish_count = 0 THEN 0 ELSE finish_count - 1]
    /\ UNCHANGED <<track, finish_order, finish_count>>

LoadPlace(h) ==
    /\ Horse(h, "load", "store")
    /\ place' = [place EXCEPT ![h] = finish_count]
    /\ UNCHANGED <<track, finish_order, finish_count>>

StorePlace(h) ==
    /\ Horse(h, "store", "reload")
    /\ finish_order' = [finish_order EXCEPT ![place[h]] = h]
    /\ UNCHANGED <<track, finish_count, place>>

ReloadPlace(h) ==
    /\ Horse(h, "reload", "count")
    /\ place' = [place EXCEPT ![h] = finish_count]
    /\ UNCHANGED <<track, finish_order, finish_count>>

\* Mutant of CountPlace: ++finish_count with the index of the store.
CountPlaceTwice(h) ==
    /\ Horse(h, "count", "exit")
    /\ finish_count' = place[h] + 2
    /\ UNCHANGED <<track, finish_order, place>>

CountPlace(h) ==
    /\ Horse(h, "count", "exit")
    /\ finish_count' = place[h] + 1
    /\ UNCHANGED <<track, finish_order, place>>

HorseRun(h) ==
    /\ program = "race"
    /\ \/ \E step \in 0 .. STEP - 1 : Move(h, step)
       \/ LoadPlace(h) \/ StorePlace(h) \/ ReloadPlace(h) \/ CountPlace(h)
    /\ UNCHANGED ended

\* main() joins all horses and prints finish_order.
Results ==
    /\ program = "race"
    /\ ~ended /\ \A h \in Horses : horse_pc[h] = "exit"
    /\ ended' = TRUE
    /\ UNCHANGED <<track, finish_order, finish_count, horse_pc, place>>

RaceNext == Results \/ \E h \in Horses : HorseRun(h)

\* Horses that can move do, and a track has an end: rand() is not 0 for ever.
RaceFairness ==
    /\ WF_raceVars(Results)
    /\ \A h \in Horses : WF_raceVars(HorseRun(h)) /\ WF_raceVars(HorseRun(h) /\ track'[h] # track[h])

RaceSpec == RaceInit /\ CourseTypeOK /\ [][RaceNext /\ UNCHANGED courseVars]_<<raceVars, courseVars>>

-----------------------------------------------------------------------------
(* Properties *)

\* finish_order has NUM_HORSES entries and its index is not checked (main.c:25).
\* An index is stored at most once by each horse, before that horse counts, so
\* that lost increments only make it smaller.  And if no two horses finish at the
\* same time the results have each horse once.  (Otherwise two can share a place,
\* and the last place keeps a 0.)
PlacesInBounds ==
    /\ \A h \in Horses : horse_pc[h] = "store" => place[h] \in Horses
    /\ (Calm /\ ended) => {finish_order[i] : i \in Horses} = Horses
=============================================================================
