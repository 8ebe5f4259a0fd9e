----------------------------- MODULE Exercises -----------------------------
(***************************************************************************)
(* The smallest programs of the course, which Programs runs like the       *)
(* others: one at a time, and nothing is shared.                           *)
(***************************************************************************)
EXTENDS Sales, Blocks, ShmExample, Forks, Caesar, Plotter, VruntimeLog, Uptime, MessageExample

exerciseVars == <<salesVars, blocksVars, exampleVars, forkVars, caesarVars,
                  plotterVars, vruntimeVars, uptimeVars, messageVars>>

ExercisesInit ==
    /\ SalesInit /\ (program = "sales" \/ memory = "none")
    /\ ShmExampleInit
    /\ program = "shm" \/ (shm_name = "none" /\ sem_name = "none" /\ value["old"] = 0)
    /\ CaesarInit /\ (program = "caesar" \/ (typed = <<>> /\ ~stale))
    /\ MessageInit /\ (program = "messages" \/ left_in_queue = 0)
    /\ BlocksInit /\ ForksInit /\ PlotterInit /\ VruntimeInit /\ UptimeInit

ExercisesNext ==
    \/ SalesNext /\ UNCHANGED <<signalVars, blocksVars, exampleVars, forkVars, caesarVars, plotterVars, vruntimeVars, uptimeVars, messageVars>>
    \/ BlocksNext /\ UNCHANGED <<signalVars, salesVars, exampleVars, forkVars, caesarVars, plotterVars, vruntimeVars, uptimeVars, messageVars>>
    \/ ShmExampleNext /\ UNCHANGED <<signalVars, salesVars, blocksVars, forkVars, caesarVars, plotterVars, vruntimeVars, uptimeVars, messageVars>>
    \/ ForksNext /\ UNCHANGED <<signalVars, salesVars, blocksVars, exampleVars, caesarVars, plotterVars, vruntimeVars, uptimeVars, messageVars>>
    \/ CaesarNext /\ UNCHANGED <<signalVars, salesVars, blocksVars, exampleVars, forkVars, plotterVars, vruntimeVars, uptimeVars, messageVars>>
    \/ PlotterNext /\ UNCHANGED <<salesVars, blocksVars, exampleVars, forkVars, caesarVars, vruntimeVars, uptimeVars, messageVars>>
    \/ VruntimeNext /\ UNCHANGED <<signalVars, salesVars, blocksVars, exampleVars, forkVars, caesarVars, plotterVars, uptimeVars, messageVars>>
    \/ UptimeNext /\ UNCHANGED <<signalVars, salesVars, blocksVars, exampleVars, forkVars, caesarVars, plotterVars, vruntimeVars, messageVars>>
    \/ MessageNext /\ UNCHANGED <<signalVars, salesVars, blocksVars, exampleVars, forkVars, caesarVars, plotterVars, vruntimeVars, uptimeVars>>

\* Each process is scheduled.  As one program is run, one condition does for a
\* process of each.
FirstProcess ==
    \/ TicketOffice \/ BlocksNext \/ ShmReader \/ ForksNext \/ EncryptWriter
    \/ Driver \/ Logger \/ UptimeNext \/ SendMessage

SecondProcess == ShmWriter \/ DecryptWriter \/ TimePlotter \/ ReceiveMessage

ExercisesFairness ==
    LET v == <<exerciseVars, signalVars>> IN
    /\ WF_v(ExercisesNext /\ FirstProcess)
    /\ WF_v(ExercisesNext /\ SecondProcess)
    /\ CompanyFairness

ExercisesTypeOK ==
    /\ SalesTypeOK /\ BlocksTypeOK /\ ShmExampleTypeOK /\ ForksTypeOK /\ CaesarTypeOK
    /\ PlotterTypeOK /\ VruntimeTypeOK /\ UptimeTypeOK /\ MessageTypeOK

\* The end of each of them.
ExerciseEnded ==
    CASE program = "sales" -> SalesEnd
      [] program = "blocks" -> BlocksEnd
      [] program = "shm" -> ShmExampleEnd
      [] program = "forks" -> ForksEnd
      [] program = "caesar" -> CaesarEnd
      [] program = "plotter" -> PlotterEnds
      [] program = "vruntime" -> VruntimeEnd
      [] program = "uptime" -> UptimeEnd
      [] program = "messages" -> MessagesEnd
=============================================================================
