-------------------------------- MODULE Play --------------------------------
(***************************************************************************)
(* Section2/L2.  The director forks the actor and cues it with SIGUSR1;    *)
(* the actor speaks and answers with SIGUSR2; each waits for the other in  *)
(* pause().                                                                *)
(***************************************************************************)
EXTENDS Integers, Pausing, Course

VARIABLES
    spoken,         \* who spoke, line by line
    actor_ready, director_ready

playVars == <<spoken, actor_ready, director_ready>>

Cast == {"director", "actor"}

PlayTypeOK ==
    /\ spoken \in Seq(Cast) /\ Len(spoken) <= 8
    /\ actor_ready \in BOOLEAN /\ director_ready \in BOOLEAN

PlayInit ==
    /\ spoken = <<>>
    /\ actor_ready = FALSE /\ director_ready = FALSE

PlayPausing ==
    /\ at = [p \in Cast |-> IF p = "director" THEN "fork" ELSE "unborn"]
    /\ pending = [p \in Cast |-> {}]
    /\ handles = [p \in Cast |-> {}]
    /\ frames = [p \in Cast |-> <<>>]

Says(p, n) == spoken' = spoken \o [i \in 1 .. n |-> p]

\* A sleep() of p: long enough for the other one to come to a halt.
Sleeps(p) == Calm => \A q \in Cast \ {p} : Idle(q)

-----------------------------------------------------------------------------
(* The actor *)

\* "I'm ready", before the handler is there.
ActorEnters ==
    /\ Goes("actor", "ready", "install") /\ Says("actor", 1)
    /\ UNCHANGED <<pending, handles, frames>>

ActorInstalls ==
    /\ Goes("actor", "install", "call") /\ Install("actor", "SIGUSR1")
    /\ UNCHANGED <<spoken, pending, frames>>

\* After pause(): one line and a sleep, or nothing if it was not the cue.
ActorWakes ==
    /\ Goes("actor", "woken", IF actor_ready THEN "speech" ELSE "exit")
    /\ IF actor_ready THEN Says("actor", 1) ELSE UNCHANGED spoken
    /\ UNCHANGED <<pending, handles, frames>>

\* The soliloquy and "I'm finished".
ActorSpeaks ==
    /\ Goes("actor", "speech", "answer") /\ Sleeps("actor")
    /\ Says("actor", 2)
    /\ UNCHANGED <<pending, handles, frames>>

\* Mutant of ActorAnswers: an answer before the speech, too.
ActorAnswersEarly ==
    /\ at["actor"] \in {"speech", "answer"}
    /\ Post("director", "SIGUSR2")
    /\ Goes("actor", at["actor"], IF at["actor"] = "speech" THEN "speech" ELSE "exit")
    /\ UNCHANGED <<spoken, handles, frames>>

\* kill(getppid(), SIGUSR2), exit.
ActorAnswers ==
    /\ Goes("actor", "answer", "exit") /\ Post("director", "SIGUSR2")
    /\ UNCHANGED <<spoken, handles, frames>>

HandleSigusr1 ==
    /\ HandlerEnds("actor", "SIGUSR1")
    /\ actor_ready' = TRUE /\ UNCHANGED <<spoken, director_ready>>

ActorWaits ==
    /\ CallPause("actor") \/ Kill("actor") \/ Interrupt("actor", "SIGUSR1")
    /\ UNCHANGED playVars

Actor ==
    /\ program = "play"
    /\ \/ /\ ActorEnters \/ ActorInstalls \/ ActorWakes \/ ActorSpeaks \/ ActorAnswers
          /\ UNCHANGED <<actor_ready, director_ready>>
       \/ HandleSigusr1 \/ ActorWaits

-----------------------------------------------------------------------------
(* The director *)

Fork ==
    /\ at["director"] = "fork"
    /\ at' = [director |-> "opening", actor |-> "ready"]
    /\ UNCHANGED <<spoken, pending, handles, frames>>

DirectorOpens ==
    /\ Goes("director", "opening", "install") /\ Says("director", 1)
    /\ UNCHANGED <<pending, handles, frames>>

\* sleep(1), and the handler for the answer before the cue.
DirectorInstalls ==
    /\ Goes("director", "install", "cue") /\ Sleeps("director")
    /\ Install("director", "SIGUSR2")
    /\ UNCHANGED <<spoken, pending, frames>>

AnnounceCue ==
    /\ Goes("director", "cue", "kill") /\ Says("director", 1)
    /\ UNCHANGED <<pending, handles, frames>>

GiveCue ==
    /\ Goes("director", "kill", "call") /\ Post("actor", "SIGUSR1")
    /\ UNCHANGED <<spoken, handles, frames>>

\* After pause(): a line, a sleep and the last line, if there was an answer.
DirectorWakes ==
    /\ Goes("director", "woken", IF director_ready THEN "closing" ELSE "sigkill")
    /\ IF director_ready THEN Says("director", 1) ELSE UNCHANGED spoken
    /\ UNCHANGED <<pending, handles, frames>>

DirectorCloses ==
    /\ Goes("director", "closing", "sigkill") /\ Sleeps("director")
    /\ Says("director", 1)
    /\ UNCHANGED <<pending, handles, frames>>

\* kill(SIGKILL), waitpid.
DirectorReaps ==
    /\ frames["director"] = <<>> /\ at["director"] = "sigkill"
    /\ at' = [director |-> "exit", actor |-> IF at["actor"] = "exit" THEN "exit" ELSE "killed"]
    /\ pending' = [pending EXCEPT !["actor"] = {}]
    /\ frames' = [frames EXCEPT !["actor"] = <<>>]
    /\ UNCHANGED <<spoken, handles>>

HandleSigusr2 ==
    /\ HandlerEnds("director", "SIGUSR2")
    /\ director_ready' = TRUE /\ UNCHANGED <<spoken, actor_ready>>

DirectorWaits ==
    /\ CallPause("director") \/ Interrupt("director", "SIGUSR2")
    /\ UNCHANGED playVars

Director ==
    /\ program = "play"
    /\ \/ /\ Fork \/ DirectorOpens \/ DirectorInstalls \/ AnnounceCue \/ GiveCue
             \/ DirectorWakes \/ DirectorCloses \/ DirectorReaps
          /\ UNCHANGED <<actor_ready, director_ready>>
       \/ HandleSigusr2 \/ DirectorWaits

PlayNext == Director \/ Actor

PlayFairness ==
    LET v == <<playVars, signalVars>> IN WF_v(Director) /\ WF_v(Actor)

PlaySpec ==
    /\ PlayInit /\ PlayPausing /\ CourseTypeOK
    /\ [][PlayNext /\ UNCHANGED courseVars]_<<playVars, signalVars, courseVars>>

-----------------------------------------------------------------------------
(* Properties *)

\* A play that ends had eight lines, and after its first ones they were A,A,A,D,D:
\* the speech is between the cue and the answer.  Nothing orders the actor's
\* first line with those of the director before the cue, except that a
\* director that sleeps long enough comes after it with the second of its own.
PlayInOrder ==
    (program = "play" /\ at["director"] = "exit")
        => /\ Len(spoken) = 8
           /\ SubSeq(spoken, 4, 8) = <<"actor", "actor", "actor", "director", "director">>
           /\ ToSet(SubSeq(spoken, 1, 3)) = Cast
           /\ Calm => spoken[3] = "director"

\* The order of participation that the test of the program demands.
LinesAsTested ==
    (program = "play" /\ at["director"] = "exit")
        => spoken = <<"director", "actor", "director", "actor", "actor", "actor", "director", "director">>

\* It ends, with both processes gone, if sleep(1) is longer than the way to
\* pause(); otherwise the cue or the answer can be lost and one waits for ever.
CurtainFalls == \A p \in Cast : at[p] \in {"exit", "killed"}
=============================================================================
