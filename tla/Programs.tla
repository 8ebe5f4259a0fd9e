------------------------------ MODULE Programs ------------------------------
(***************************************************************************)
(* The smaller programs of the course side by side.  They share nothing    *)
(* and are run one at a time: the initial state says which one, and only   *)
(* the processes of that one take steps.                                   *)
(***************************************************************************)
EXTENDS Tickets, PrimeQueue, Commands, Play, Processor, Race, Rle, Sort, Game, Decoder, Exercises

CONSTANTS
    RunPrograms,        \* which are run
    Rushed              \* those that are also run without regard to sleep()

vars == <<courseVars, signalVars, ticketVars, queueVars, commandVars, playVars, dataVars,
          raceVars, rleVars, sortVars, gameVars, decoderVars, exerciseVars>>

Processes ==
    CASE program = "commands" -> CommandsPausing
      [] program = "play" -> PlayPausing
      [] program = "processor" -> ProcessorPausing
      [] program = "plotter" -> PlotterPausing
      [] OTHER -> at = <<>> /\ pending = <<>> /\ handles = <<>> /\ frames = <<>>

\* A program that is not run has one initial state.
Init ==
    /\ program \in RunPrograms
    /\ pace \in {"calm"} \cup {r \in {"rushed"} : program \in Rushed}
    /\ TicketsInit /\ PlayInit /\ RaceInit /\ RleInit /\ SortInit /\ GameInit
    /\ PrimeQueueInit /\ (program = "queue" \/ (numbers = <<>> /\ left_over = <<>>))
    /\ CommandsInit /\ (program = "commands" \/ commands = <<>>)
    /\ ProcessorInit /\ (program = "processor" \/ structure = "first")
    /\ DecoderInit /\ (DecoderRuns \/ pixels_in_file = 0)
    /\ ExercisesInit
    /\ Processes

Next ==
    /\ UNCHANGED courseVars
    /\ \/ /\ TicketsNext
          /\ UNCHANGED <<signalVars, queueVars, commandVars, playVars, dataVars, raceVars, rleVars, sortVars, gameVars, decoderVars, exerciseVars>>
       \/ /\ PrimeQueueNext
          /\ UNCHANGED <<signalVars, ticketVars, commandVars, playVars, dataVars, raceVars, rleVars, sortVars, gameVars, decoderVars, exerciseVars>>
       \/ /\ CommandsNext
          /\ UNCHANGED <<ticketVars, queueVars, playVars, dataVars, raceVars, rleVars, sortVars, gameVars, decoderVars, exerciseVars>>
       \/ /\ PlayNext
          /\ UNCHANGED <<ticketVars, queueVars, commandVars, dataVars, raceVars, rleVars, sortVars, gameVars, decoderVars, exerciseVars>>
       \/ /\ ProcessorNext
          /\ UNCHANGED <<ticketVars, queueVars, commandVars, playVars, raceVars, rleVars, sortVars, gameVars, decoderVars, exerciseVars>>
       \/ /\ RaceNext
          /\ UNCHANGED <<signalVars, ticketVars, queueVars, commandVars, playVars, dataVars, rleVars, sortVars, gameVars, decoderVars, exerciseVars>>
       \/ /\ RleNext
          /\ UNCHANGED <<signalVars, ticketVars, queueVars, commandVars, playVars, dataVars, raceVars, sortVars, gameVars, decoderVars, exerciseVars>>
       \/ /\ SortNext
          /\ UNCHANGED <<signalVars, ticketVars, queueVars, commandVars, playVars, dataVars, raceVars, rleVars, gameVars, decoderVars, exerciseVars>>
       \/ /\ GameNext
          /\ UNCHANGED <<signalVars, ticketVars, queueVars, commandVars, playVars, dataVars, raceVars, rleVars, sortVars, decoderVars, exerciseVars>>
       \/ /\ DecoderNext
          /\ UNCHANGED <<signalVars, ticketVars, queueVars, commandVars, playVars, dataVars, raceVars, rleVars, sortVars, gameVars, exerciseVars>>
       \/ /\ ExercisesNext
          /\ UNCHANGED <<ticketVars, queueVars, commandVars, playVars, dataVars, raceVars, rleVars, sortVars, gameVars, decoderVars>>

Spec == Init /\ [][Next]_vars

\* The actions of a program that is not run are disabled, and its fairness says nothing.
FairSpec ==
    /\ Spec
    /\ TicketsFairness /\ PrimeQueueFairness /\ CommandsFairness /\ PlayFairness /\ ProcessorFairness
    /\ RaceFairness /\ GameFairness /\ DecoderFairness /\ ExercisesFairness

-----------------------------------------------------------------------------
(* Properties *)

ProgramsTypeOK ==
    /\ CourseTypeOK
    /\ TicketsTypeOK /\ QueueTypeOK /\ CommandsTypeOK /\ PlayTypeOK /\ ProcessorTypeOK
    /\ RaceTypeOK /\ RleTypeOK /\ SortTypeOK /\ GameTypeOK /\ DecoderTypeOK /\ ExercisesTypeOK

\* What the end of each program is.  One of the workers may hang on the last
\* command; the run-length coder and the sorter are sequences of steps.
Ended ==
    CASE program = "tickets" -> Closed
      [] program = "queue" -> AllEnd
      [] program = "commands" -> CommandsOver
      [] program = "play" -> CurtainFalls
      [] program = "processor" -> ProcessorEnds
      [] program = "race" -> ended
      [] DecoderRuns -> Decoded
      [] program = "game" -> GameOver
      [] program \in {"rle", "sort"} -> TRUE
      [] OTHER -> ExerciseEnded

\* At a proper pace every program comes to its end: the tickets are sold and the
\* office closed, every child waited for and every thread joined.
ProgramsEnd == Calm => <>Ended
=============================================================================
