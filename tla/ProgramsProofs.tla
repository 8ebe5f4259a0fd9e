----------------------------- MODULE ProgramsProofs -----------------------------
(***************************************************************************)
(* Proofs about the programs side by side: that each variable keeps its    *)
(* type, where that takes more than has been proved of the programs one by *)
(* one; and that what holds of each program by itself holds of it among    *)
(* the others, whichever of them is run.                                   *)
(***************************************************************************)
EXTENDS Programs, ThreadsProofs, ProcessesProofs, FilesProofs
-----------------------------------------------------------------------------
(* Types: programs that have nothing else to prove of every state *)

LEMMA ForksTypes ==
    /\ ForksInit => ForksTypeOK
    /\ ForksTypeOK /\ [ForksNext]_forkVars => ForksTypeOK'
<1> USE DEF ForksTypeOK, Children
<1>1. ForksInit => ForksTypeOK BY DEF ForksInit
<1>2. ASSUME ForksTypeOK, NEW c \in Children, ForkChild(c) PROVE ForksTypeOK' BY <1>2 DEF ForkChild
<1>3. ASSUME ForksTypeOK, NEW c \in Children, ChildEnds(c) PROVE ForksTypeOK' BY <1>3 DEF ChildEnds
<1>4. ASSUME ForksTypeOK, NEW c \in Children, WaitPid(c) PROVE ForksTypeOK' BY <1>4 DEF WaitPid
<1>5. ForksTypeOK /\ UNCHANGED forkVars => ForksTypeOK' BY DEF forkVars
<1> QED BY <1>1, <1>2, <1>3, <1>4, <1>5 DEF ForksNext

LEMMA VruntimeTypes ==
    /\ VruntimeInit => VruntimeTypeOK
    /\ VruntimeTypeOK /\ [VruntimeNext]_vruntimeVars => VruntimeTypeOK'
<1> USE DEF VruntimeTypeOK
<1>1. VruntimeInit => VruntimeTypeOK BY DEF VruntimeInit
<1>2. VruntimeTypeOK /\ Logger => VruntimeTypeOK'
  BY DEF Logger, InstallAndSet, AlarmHandler, ReadSched, OpenLog, WriteLog, Log
<1>3. VruntimeTypeOK /\ TargetEnds => VruntimeTypeOK' BY DEF TargetEnds
<1>4. VruntimeTypeOK /\ UNCHANGED vruntimeVars => VruntimeTypeOK' BY DEF vruntimeVars
<1> QED BY <1>1, <1>2, <1>3, <1>4 DEF VruntimeNext

LEMMA UptimeTypes ==
    /\ UptimeInit => UptimeTypeOK
    /\ UptimeTypeOK /\ [UptimeNext]_uptimeVars => UptimeTypeOK'
<1> USE UptimeAssumption DEF UptimeTypeOK
<1>1. UptimeInit => UptimeTypeOK BY DEF UptimeInit
<1>2. UptimeTypeOK /\ Fails => UptimeTypeOK' BY DEF Fails
<1>3. UptimeTypeOK /\ ReadUptime => UptimeTypeOK'
  <2> SUFFICES ASSUME UptimeTypeOK, ReadUptime PROVE UptimeTypeOK' OBVIOUS
  <2>1. PICK f \in UptimeFiles : uptime' = f[1] /\ idle_time' = f[2] BY DEF ReadUptime
  <2>2. f[1] \in Nat /\ f[2] \in Nat BY <2>1
  <2> QED BY <2>1, <2>2 DEF ReadUptime
<1>4. UptimeTypeOK /\ CountCores => UptimeTypeOK' BY DEF CountCores
<1>5. UptimeTypeOK /\ WriteReport => UptimeTypeOK' BY DEF WriteReport
<1>6. UptimeTypeOK /\ UNCHANGED uptimeVars => UptimeTypeOK' BY DEF uptimeVars
<1> QED BY <1>1, <1>2, <1>3, <1>4, <1>5, <1>6 DEF UptimeNext

LEMMA MessageTypes ==
    /\ MessageInit => MessageTypeOK
    /\ MessageTypeOK /\ [MessageNext]_messageVars => MessageTypeOK'
<1> USE MessageAssumption DEF MessageTypeOK, Old
<1> DEFINE M == -1 .. MESSAGES - 1
<1>1. MessageInit => MessageTypeOK
  <2> SUFFICES ASSUME MessageInit PROVE MessageTypeOK OBVIOUS
  <2>1. left_in_queue \in 0 .. SLOTS /\ sent = 0 /\ taken = <<>> /\ robert_queue = [i \in 1 .. left_in_queue |-> -1]
    BY DEF MessageInit
  <2>2. -1 \in M /\ left_in_queue \in Nat BY <2>1
  <2>3. robert_queue \in Seq(M) /\ Len(robert_queue) = left_in_queue BY <2>1, <2>2
  <2>4. <<>> \in Seq(M) /\ Len(<<>>) = 0 OBVIOUS
  <2> QED BY <2>1, <2>3, <2>4
<1>2. MessageTypeOK /\ SendMessage => MessageTypeOK'
  <2> SUFFICES ASSUME MessageTypeOK, SendMessage PROVE MessageTypeOK' OBVIOUS
  <2>1. sent \in M /\ sent + 1 \in 0 .. MESSAGES BY DEF SendMessage
  <2>2. robert_queue' \in Seq(M) /\ Len(robert_queue') = Len(robert_queue) + 1 BY <2>1 DEF SendMessage
  <2>3. Len(robert_queue') <= SLOTS BY <2>2 DEF SendMessage
  <2> QED BY <2>1, <2>2, <2>3 DEF SendMessage
<1>3. MessageTypeOK /\ ReceiveMessage => MessageTypeOK'
  <2> SUFFICES ASSUME MessageTypeOK, ReceiveMessage PROVE MessageTypeOK' OBVIOUS
  <2>1. robert_queue \in Seq(M) /\ robert_queue # <<>> /\ taken \in Seq(M) BY DEF ReceiveMessage
  <2>2. Head(robert_queue) \in M /\ Tail(robert_queue) \in Seq(M) /\ Len(Tail(robert_queue)) = Len(robert_queue) - 1
    BY <2>1, HeadTailProperties
  <2>3. taken' \in Seq(M) /\ Len(taken') = Len(taken) + 1 BY <2>1, <2>2 DEF ReceiveMessage
  <2>4. Len(robert_queue') <= SLOTS /\ Len(taken') <= RECEIVERS BY <2>2, <2>3 DEF ReceiveMessage
  <2> QED BY <2>2, <2>3, <2>4 DEF ReceiveMessage
<1>4. MessageTypeOK /\ UNCHANGED messageVars => MessageTypeOK' BY DEF messageVars
<1> QED BY <1>1, <1>2, <1>3, <1>4 DEF MessageNext

-----------------------------------------------------------------------------
(* Types: the semaphore example, the commands and the time plotter *)

\* There is one post, and each semaphore was left with one at most.
ShmTyped ==
    /\ ShmExampleTypeOK
    /\ writer_pc # "exit" => value["old"] <= 1 /\ value["new"] <= 1

LEMMA ShmTypes ==
    /\ ShmExampleInit => ShmTyped
    /\ ShmTyped /\ [ShmExampleNext]_exampleVars => ShmTyped'
<1> USE ShmExampleAssumption DEF ShmTyped, ShmExampleTypeOK, Versions
<1>1. ShmExampleInit => ShmTyped BY DEF ShmExampleInit
<1>2. ASSUME ShmTyped, ShmReader PROVE ShmTyped'
  <2>0. UNCHANGED <<floats, writer_pc, writer_shm, writer_sem>> BY <1>2 DEF ShmReader
  <2> USE DEF Reading
  <2>1. CASE UnlinkShm("shm_unlink", "shm_open") \/ UnlinkShm("clean", "exit") BY <1>2, <2>0, <2>1 DEF UnlinkShm
  <2>2. CASE CreateShm \/ SizeShm \/ UnlinkSem \/ CreateSem \/ PrintFloats
    BY <1>2, <2>0, <2>2 DEF CreateShm, SizeShm, UnlinkSem, CreateSem, PrintFloats
  <2>3. CASE WaitSem
    <3>1. /\ reader_pc' = "print" /\ UNCHANGED <<shm_name, sem_name>>
          /\ value[sem_name] > 0 /\ value' = [value EXCEPT ![sem_name] = @ - 1]
      BY <2>3 DEF WaitSem
    <3>2. value' \in [Versions -> 0 .. 2] /\ \A v \in Versions : value'[v] <= value[v]
      <4>1. CASE sem_name = "none"
        <5>1. "none" \notin DOMAIN value BY <1>2
        <5>2. value' = value BY <1>2, <3>1, <4>1, <5>1
        <5> QED BY <1>2, <5>2
      <4>2. CASE sem_name \in Versions BY <1>2, <3>1, <4>2
      <4> QED BY <1>2, <4>1, <4>2
    <3>3. value \in [Versions -> 0 .. 2] BY <1>2
    <3>4. writer_pc' # "exit" => value'["old"] <= 1 /\ value'["new"] <= 1 BY <1>2, <2>0, <3>2, <3>3
    <3> QED BY <1>2, <2>0, <3>1, <3>2, <3>4
  <2> QED BY <1>2, <2>1, <2>2, <2>3 DEF ShmReader
<1>3. ASSUME ShmTyped, ShmWriter PROVE ShmTyped'
  <2>0. UNCHANGED <<shm_name, sem_name, reader_pc>> BY <1>3 DEF ShmWriter
  <2> USE DEF Writing
  <2>1. CASE OpenShm BY <1>3, <2>0, <2>1 DEF OpenShm
  <2>2. CASE OpenSem BY <1>3, <2>0, <2>2 DEF OpenSem
  <2>3. CASE WriteFloat
    <3>1. floats' \in [Versions -> 0 .. N_FLOATS]
      <4>1. CASE UNCHANGED floats BY <1>3, <4>1
      <4>2. CASE floats' = [floats EXCEPT ![writer_shm] = @ + 1]
        <5>1. writer_shm \in Versions => floats[writer_shm] + 1 \in 0 .. N_FLOATS BY <1>3, <2>3 DEF WriteFloat
        <5>2. writer_shm \notin Versions => floats' = floats BY <1>3, <4>2
        <5> QED BY <1>3, <4>2, <5>1, <5>2
      <4> QED BY <2>3, <4>1, <4>2 DEF WriteFloat
    <3>2. UNCHANGED <<value, writer_shm, writer_sem>> /\ writer_pc = "write" /\ writer_pc' \in {"write", "killed"}
      BY <2>3 DEF WriteFloat
    <3> QED BY <1>3, <2>0, <3>1, <3>2
  <2>4. CASE PostSem
    <3>1. UNCHANGED <<floats, writer_shm, writer_sem>> /\ writer_pc = "write" BY <2>4 DEF PostSem
    <3>2. CASE writer_sem = "none" BY <1>3, <2>0, <2>4, <3>1, <3>2 DEF PostSem
    <3>3. CASE writer_sem # "none"
      <4>1. writer_pc' = "exit" /\ value' = [value EXCEPT ![writer_sem] = @ + 1] BY <2>4, <3>3 DEF PostSem
      <4>2. writer_sem \in Versions BY <1>3, <3>3
      <4>3. value[writer_sem] + 1 \in 0 .. 2 BY <1>3, <3>1, <4>2
      <4>4. value' \in [Versions -> 0 .. 2] BY <1>3, <4>1, <4>3
      <4> QED BY <1>3, <2>0, <3>1, <4>1, <4>4
    <3> QED BY <3>2, <3>3
  <2> QED BY <1>3, <2>1, <2>2, <2>3, <2>4 DEF ShmWriter
<1>4. ShmTyped /\ UNCHANGED exampleVars => ShmTyped' BY DEF exampleVars
<1> QED BY <1>1, <1>2, <1>3, <1>4 DEF ShmExampleNext

CommandsTyped ==
    /\ CommandsTypeOK
    /\ commands \in Seq(Seq(STRING))
    /\ log \in [CommandWorkers -> Seq(CommandSignals)]

LEMMA CommandsTypes ==
    /\ CommandsInit => CommandsTyped
    /\ CommandsTyped /\ [CommandsNext]_commandVars => CommandsTyped'
<1> USE DEF CommandsTyped, CommandsTypeOK
<1>1. CommandsInit => CommandsTyped BY CommandsAssumption DEF CommandsInit, CommandWorkers, CommandSignals
<1>2. ASSUME CommandsTyped, Manager PROVE CommandsTyped'
  <2>0. UNCHANGED <<commands, keep_running, log>> 
    BY <1>2 DEF Manager, StartManager, ReadCommand, SendSignalToWorker, EndOfCommands, Terminate
  <2>1. CASE ReadCommand
    <3>1. next_line + 1 \in 0 .. Len(commands) BY <1>2, <2>1 DEF ReadCommand
    <3>2. Valid(commands[next_line + 1])
            => commands[next_line + 1][1] \in CommandWorkers /\ commands[next_line + 1][2] \in CommandSignals
      BY DEF Valid, CommandSignals
    <3>3. /\ next_line' = next_line + 1 /\ manager_pc' \in {"read", "send"}
          /\ target_pid' \in CommandWorkers /\ signal_num' \in CommandSignals
      BY <1>2, <2>1, <3>2 DEF ReadCommand
    <3> QED BY <1>2, <2>0, <3>1, <3>3
  <2>2. CASE StartManager \/ SendSignalToWorker \/ EndOfCommands \/ Terminate
    BY <1>2, <2>0, <2>2 DEF StartManager, SendSignalToWorker, EndOfCommands, Terminate
  <2> QED BY <1>2, <2>1, <2>2 DEF Manager
<1>3. ASSUME CommandsTyped, NEW w \in CommandWorkers, CommandWorker(w) PROVE CommandsTyped'
  <2>0. UNCHANGED <<commands, next_line, manager_pc, target_pid, signal_num>> BY <1>3 DEF CommandWorker, managerVars
  <2>1. CASE UNCHANGED <<keep_running, log>> BY <1>3, <2>0, <2>1
  <2>2. CASE SigtermHandler(w) BY <1>3, <2>0, <2>2 DEF SigtermHandler
  <2>3. ASSUME NEW s \in CommandSignals, LogSignal(w, s) PROVE CommandsTyped'
    <3>1. log' = [log EXCEPT ![w] = Append(@, s)] /\ UNCHANGED keep_running BY <2>3 DEF LogSignal
    <3>2. Append(log[w], s) \in Seq(CommandSignals) BY <1>3
    <3>3. log' \in [CommandWorkers -> Seq(CommandSignals)] BY <1>3, <3>1, <3>2
    <3> QED BY <1>3, <2>0, <3>1, <3>3
  <2> QED BY <1>3, <2>1, <2>2, <2>3 DEF CommandWorker, InstallHandlers, InstallFor, TestRunning, SignalDelivered
<1>4. CommandsTyped /\ UNCHANGED commandVars => CommandsTyped' BY DEF commandVars, managerVars
<1> QED BY <1>1, <1>2, <1>3, <1>4 DEF CommandsNext

\* No alarm is handled before the one that was handled last.
PlotterTyped ==
    /\ PlotterTypeOK
    /\ last_time <= now
    /\ current_time # NotRead => last_time <= current_time /\ current_time <= now

LEMMA PlotterTypes ==
    /\ PlotterInit => PlotterTyped
    /\ PlotterTyped /\ [PlotterNext]_plotterVars => PlotterTyped'
<1> USE PlotterAssumption DEF PlotterTyped, PlotterTypeOK, NotRead
<1>1. PlotterInit => PlotterTyped BY DEF PlotterInit
<1>2. ASSUME PlotterTyped, Driver PROVE PlotterTyped'
  BY <1>2 DEF Driver, ForkPlotter, Usleep, SendAlarm
<1>3. ASSUME PlotterTyped, TimePlotter PROVE PlotterTyped'
  <2>0. UNCHANGED <<now, driver_pc>> BY <1>3 DEF TimePlotter
  <2>1. CASE PlotterMain BY <1>3, <2>0, <2>1 DEF PlotterMain
  <2>2. CASE GetTime BY <1>3, <2>0, <2>2 DEF GetTime
  <2>3. CASE PrintElapsed
    <3>1. /\ current_time # -1 /\ first_call' = FALSE /\ last_time' = current_time /\ current_time' = -1
          /\ \/ first_time' = current_time /\ UNCHANGED elapsed
             \/ elapsed' = Append(elapsed, current_time - last_time) /\ UNCHANGED first_time
      BY <2>3 DEF PrintElapsed
    <3>2. current_time \in 0 .. ALARMS /\ current_time - last_time \in 0 .. ALARMS BY <1>3, <3>1
    <3>3. elapsed' \in Seq(0 .. ALARMS)
      <4>1. elapsed \in Seq(0 .. ALARMS) BY <1>3
      <4> QED BY <3>1, <3>2, <4>1
    <3>4. first_time' \in 0 .. ALARMS BY <1>3, <3>1, <3>2
    <3>5. last_time' <= now' /\ current_time' = -1 /\ last_time' \in 0 .. ALARMS BY <1>3, <2>0, <3>1, <3>2
    <3>6. first_call' \in BOOLEAN BY <3>1
    <3> QED BY <1>3, <2>0, <3>3, <3>4, <3>5, <3>6
  <2> QED BY <1>3, <2>1, <2>2, <2>3 DEF TimePlotter
<1>4. PlotterTyped /\ UNCHANGED plotterVars => PlotterTyped' BY DEF plotterVars
<1> QED BY <1>1, <1>2, <1>3, <1>4 DEF PlotterNext

-----------------------------------------------------------------------------
(* Types: the game *)

\* Where the ball is left: inside the border, or on its left side, at the start on
\* a narrow screen.
Reached == (0 .. max_cols - 2) \X (1 .. max_rows - 2)

GameTyped ==
    /\ GameTypeOK /\ Guarded
    /\ game_pc["main"] # "place" /\ game_pc["keys"] # "clamp" => ball_pos \in Reached

LEMMA GameTypes ==
    /\ GameInit => GameTyped
    /\ GameTyped /\ [GameNext]_gameVars => GameTyped'
<1> DEFINE OnOrOff == (-1 .. max_cols - 1) \X (0 .. max_rows - 1)
           GameWords == {"nothing", "You win! :)", "Bye!"}
<1>0. /\ Borders \subseteq Reached /\ Reached \subseteq OnOrOff /\ Borders \subseteq Screen /\ Screen \subseteq OnOrOff
      /\ OnOrOff \subseteq Int \X Int /\ <<0, 0>> \in Screen
  BY GameAssumption DEF Borders, Reached, Screen
<1>1. GameInit => GameTyped
  <2> SUFFICES ASSUME GameInit PROVE GameTyped OBVIOUS
  <2>1. Guarded BY GuardedInit
  <2>2. game_pc["main"] = "place" BY DEF GameInit, GameThreads
  <2> QED BY <1>0, <2>1, <2>2 DEF GameInit, GameTyped, GameTypeOK, Guarded, GamePlaces, Screen
<1>2. ASSUME GameTyped, GameNext PROVE GameTyped'
  <2>1. Guarded' BY <1>2, GuardedStep DEF GameTyped
  <2>2. PICK t \in GameThreads : ThreadStep(t) BY <1>2 DEF GameNext
  <2>3. running' \in BOOLEAN /\ won' \in BOOLEAN /\ quit' \in BOOLEAN /\ shown' \in GameWords
    <3> USE DEF GameTyped, GameTypeOK
    <3>1. CASE TestRunningFlag(t) BY <1>2, <3>1 DEF TestRunningFlag
    <3>2. CASE LockPositions(t) BY <1>2, <3>2 DEF LockPositions
    <3>3. CASE UnlockPositions(t) BY <1>2, <3>3 DEF UnlockPositions
    <3>4. CASE PressKey \/ PressQ \/ ClampBall \/ GetKey BY <1>2, <3>4 DEF PressKey, PressQ, ClampBall, GetKey
    <3>5. CASE RandomStep BY <1>2, <3>5 DEF RandomStep
    <3>6. CASE Collide \/ Miss BY <1>2, <3>6 DEF Collide, Miss
    <3>7. CASE Place \/ CreateGameThreads \/ Draw \/ ShowResult \/ JoinThreads
      BY <1>2, <3>7 DEF Place, CreateGameThreads, Draw, ShowResult, JoinThreads
    <3> QED BY <2>2, <3>1, <3>2, <3>3, <3>4, <3>5, <3>6, <3>7 DEF ThreadStep
  <2>4. /\ ball_pos' \in OnOrOff /\ x_pos' \in Screen
        /\ game_pc'["main"] # "place" /\ game_pc'["keys"] # "clamp" => ball_pos' \in Reached
    <3>0. /\ game_pc \in [GameThreads -> GamePlaces] /\ ball_pos \in OnOrOff /\ x_pos \in Screen
          /\ game_pc["main"] # "place" /\ game_pc["keys"] # "clamp" => ball_pos \in Reached
          /\ game_pc["main"] \in {"place", "create"} => game_pc["keys"] = "unborn"
          /\ \A u \in GameThreads : game_pc[u] = "clamp" => u = "keys"
      BY <1>2 DEF GameTyped, GameTypeOK, Guarded, Screen, GameThreads
    <3> HIDE DEF OnOrOff
    <3> USE DEF GameThreads, GamePlaces, Thread
    <3>1. CASE TestRunningFlag(t)
      <4>1. UNCHANGED <<ball_pos, x_pos>> /\ game_pc[t] = "test" BY <3>1 DEF TestRunningFlag
      <4>2. game_pc'["main"] # "place" => game_pc["main"] # "place" BY <3>0, <3>1 DEF TestRunningFlag
      <4>3. game_pc'["keys"] # "clamp" => game_pc["keys"] # "clamp" BY <3>0, <3>1 DEF TestRunningFlag
      <4> QED BY <3>0, <4>1, <4>2, <4>3
    <3>2. CASE LockPositions(t) BY <3>0, <3>2 DEF LockPositions
    <3>3. CASE UnlockPositions(t) BY <3>0, <3>3 DEF UnlockPositions
    <3>4. CASE PressKey
      <4>0. game_pc["keys"] = "act" /\ game_pc'["keys"] = "clamp" /\ UNCHANGED x_pos BY <3>0, <3>4 DEF PressKey
      <4>1. ball_pos \in Reached BY <3>0, <4>0
      <4>2. PICK d \in Keys : ball_pos' = <<ball_pos[1] + d[1], ball_pos[2] + d[2]>> BY <3>4 DEF PressKey
      <4>3. ball_pos' \in OnOrOff BY <4>1, <4>2, GameAssumption DEF Keys, Reached, OnOrOff
      <4> QED BY <3>0, <4>0, <4>3
    <3>5. CASE PressQ BY <3>0, <3>5 DEF PressQ
    <3>6. CASE ClampBall BY <1>0, <3>0, <3>6, ClampInside DEF ClampBall
    <3>7. CASE GetKey BY <3>0, <3>7 DEF GetKey
    <3>8. CASE t = "x" /\ RandomStep
      <4>1. PICK dx \in -1 .. 1, dy \in -1 .. 1 : x_pos' = Clamp(<<x_pos[1] + dx, x_pos[2] + dy>>)
        BY <3>8 DEF RandomStep
      <4>2. <<x_pos[1] + dx, x_pos[2] + dy>> \in Int \X Int BY <1>0, <3>0
      <4>3. x_pos' \in Screen BY <1>0, <4>1, <4>2, ClampInside
      <4> QED BY <3>0, <3>8, <4>3 DEF RandomStep
    <3>9. CASE Collide BY <3>0, <3>9 DEF Collide
    <3>10. CASE Miss BY <3>0, <3>10 DEF Miss
    <3>11. CASE Place
      <4>1. ball_pos' \in Reached /\ x_pos' \in Screen BY <3>11, GameAssumption DEF Place, Reached, Screen
      <4> QED BY <1>0, <4>1
    <3>12. CASE CreateGameThreads BY <3>0, <3>12 DEF CreateGameThreads
    <3>13. CASE Draw BY <3>0, <3>13 DEF Draw
    <3>14. CASE ShowResult BY <3>0, <3>14 DEF ShowResult
    <3>15. CASE JoinThreads BY <3>0, <3>15 DEF JoinThreads
    <3> QED BY <2>2, <3>1, <3>2, <3>3, <3>4, <3>5, <3>6, <3>7, <3>8, <3>9, <3>10, <3>11, <3>12, <3>13, <3>14, <3>15
        DEF ThreadStep
  <2> QED BY <2>1, <2>3, <2>4 DEF GameTyped, GameTypeOK, Guarded, GamePlaces, Screen
<1>3. GameTyped /\ UNCHANGED gameVars => GameTyped' BY DEF gameVars, GameTyped, GameTypeOK, Guarded
<1> QED BY <1>1, <1>2, <1>3

-----------------------------------------------------------------------------
(* Types: the decoder *)

\* No thread writes more pixels than there are, or counts more than it has written.
DecoderBounds ==
    /\ DecoderTypeOK
    /\ pixels_in_file \in 0 .. TOTAL_PIXELS
    /\ \A d \in Decoders : written[d] <= pixels_in_file

DecoderInv == TickInv /\ Tally /\ DecoderBounds

LEMMA CountsFit ==
    ASSUME NEW counted \in Nat, NEW done \in Nat, NEW label,
           IF label = "exit" THEN counted \in {done, done - 1}
           ELSE done = counted + IF label \in {"lock", "count"} THEN 1 ELSE 0
    PROVE  counted <= done
<1>1. CASE label = "exit" BY <1>1
<1>2. CASE label \in {"lock", "count"}
  <2>1. done = counted + 1 BY <1>2
  <2> QED BY <2>1
<1>3. CASE label \notin {"lock", "count", "exit"}
  <2>1. done = counted + 0 BY <1>3
  <2> QED BY <2>1
<1> QED BY <1>1, <1>2, <1>3

LEMMA DecoderTypes ==
    /\ DecoderInit => DecoderInv
    /\ DecoderInv /\ [decoderSteps]_<<decoderVars, courseVars>> => DecoderInv'
<1> USE ThreadNumbers
<1>1. DecoderInit => DecoderInv
  <2> SUFFICES ASSUME DecoderInit PROVE DecoderInv OBVIOUS
  <2>1. TickInv BY TickInvInit
  <2>2. Tally BY DEF DecoderInit, Tally, Launched, PixelsCounted, MainThread
  <2>3. DecoderBounds
    <3>1. \A t \in DecoderThreads : tick_pc[t] = <<>> /\ Len(tick_pc[t]) = 0 /\ tick_pc[t] \in Seq({"lock", "report"})
      BY DEF DecoderInit
    <3>2. 0 \in 0 .. TOTAL_PIXELS /\ 0 \in 0 .. NUM_THREADS /\ 0 <= MAX_NESTED BY DecoderAssumption
    <3>3. \A d \in Decoders : written[d] = 0 /\ 0 <= pixels_in_file BY DEF DecoderInit
    <3>4. \A t \in DecoderThreads : decoder_pc[t] \in {"signal", "unborn"} BY DEF DecoderInit
    <3> QED BY <3>1, <3>2, <3>3, <3>4 DEF DecoderBounds, DecoderTypeOK, DecoderInit
  <2> QED BY <2>1, <2>2, <2>3 DEF DecoderInv
<1>2. ASSUME DecoderInv, DecoderNext, UNCHANGED courseVars PROVE DecoderInv'
  <2>1. TickInv' BY <1>2, TryTestStep, AlarmStep, MainStep, DecodeStep DEF DecoderInv, DecoderNext
  <2>2. Tally' BY <1>2, TallyStep DEF DecoderInv, TickInv, courseVars
  <2>3. pixels_in_file' = pixels_in_file
    BY <1>2 DEF DecoderNext, DecoderMain, Alarm, Decode, TryTest
  <2>4. \A d \in Decoders : written'[d] <= pixels_in_file
    <3>0. written \in [Decoders -> Nat] /\ \A d \in Decoders : written[d] <= pixels_in_file
      BY <1>2 DEF DecoderInv, DecoderBounds, TickInv, DecoderTyped
    <3>1. \/ UNCHANGED written
          \/ \E d \in Decoders : written[d] < pixels_in_file /\ written' = [written EXCEPT ![d] = @ + 1]
      BY <1>2 DEF DecoderNext, DecoderMain, Alarm, TryTest, Decode, DecodePixel, EndOfPixels, LeaveEarly,
                  LockProgress, CountPixel, UnlockProgress
    <3>2. pixels_in_file \in Nat BY <1>2 DEF DecoderInv, TickInv, DecoderTyped
    <3> QED BY <3>0, <3>1, <3>2
  <2>5. pixels_in_file' \in 0 .. TOTAL_PIXELS BY <1>2, <2>3 DEF DecoderInv, DecoderBounds
  <2>6. written' \in [Decoders -> 0 .. TOTAL_PIXELS] /\ progress' \in [Decoders -> 0 .. TOTAL_PIXELS]
    <3>1. DecoderTyped' /\ \A d \in Decoders : progress'[d] <= written'[d]
      <4>1. DecoderTyped' BY <2>1 DEF TickInv
      <4>2. ASSUME NEW d \in Decoders PROVE progress'[d] <= written'[d]
        <5>1. progress'[d] \in Nat /\ written'[d] \in Nat BY <4>1 DEF DecoderTyped
        <5>2. PixelsCounted(d)' BY <2>2 DEF Tally
        <5>3. IF decoder_pc'[d] = "exit" THEN progress'[d] \in {written'[d], written'[d] - 1}
              ELSE written'[d] = progress'[d] + IF decoder_pc'[d] \in {"lock", "count"} THEN 1 ELSE 0
          BY <5>2 DEF PixelsCounted
        <5> QED BY <5>1, <5>3, CountsFit
      <4> QED BY <4>1, <4>2
    <3>2. \A d \in Decoders : written'[d] \in Nat /\ progress'[d] \in Nat BY <3>1 DEF DecoderTyped
    <3>3. \A d \in Decoders : written'[d] \in 0 .. TOTAL_PIXELS /\ progress'[d] \in 0 .. TOTAL_PIXELS
      BY <2>3, <2>4, <2>5, <3>1, <3>2, DecoderAssumption
    <3>4. written' \in [Decoders -> Nat] /\ progress' \in [Decoders -> Nat] BY <3>1 DEF DecoderTyped
    <3> QED BY <3>3, <3>4
  <2>7. alarm' \in BOOLEAN /\ timer' \in {"off", "on"}
    <3>1. alarm \in BOOLEAN /\ timer \in {"off", "on"} BY <1>2 DEF DecoderInv, DecoderBounds, DecoderTypeOK
    <3>2. CASE DecoderMain
      BY <3>1, <3>2 DEF DecoderMain, InstallTryTest, SetTimer, CreateDecoder, CreateFails, JoinDecoders, tickVars
    <3>3. CASE Alarm BY <3>1, <3>3 DEF Alarm, TimerExpires, Deliver
    <3>4. ASSUME NEW d \in Decoders, Decode(d) PROVE alarm' = alarm /\ timer' = timer BY <3>4 DEF Decode, tickVars
    <3>5. ASSUME NEW t \in DecoderThreads, TryTest(t) PROVE alarm' = alarm /\ timer' = timer
      BY <3>5 DEF TryTest, TickLock, ReportLine, TickUnlock
    <3> QED BY <1>2, <3>1, <3>2, <3>3, <3>4, <3>5 DEF DecoderNext
  <2>8. ASSUME NEW t \in DecoderThreads PROVE Len(tick_pc'[t]) <= MAX_NESTED
    <3>0. /\ tick_pc \in [DecoderThreads -> Seq({"lock", "report"})]
          /\ \A u \in DecoderThreads : Len(tick_pc[u]) <= MAX_NESTED
      BY <1>2 DEF DecoderInv, DecoderBounds, DecoderTypeOK, TickInv, DecoderTyped
    <3>1. CASE UNCHANGED tick_pc BY <3>0, <3>1
    <3>2. ASSUME NEW u \in DecoderThreads, Deliver(u) PROVE Len(tick_pc'[t]) <= MAX_NESTED
      <4>1. Len(tick_pc[u]) < MAX_NESTED
        <5>1. tick_pc[u] = <<>> => Len(tick_pc[u]) = 0 OBVIOUS
        <5> QED BY <3>2, <5>1, DecoderAssumption DEF Deliver
      <4>2. Len(Append(tick_pc[u], "lock")) = Len(tick_pc[u]) + 1 /\ Len(tick_pc[u]) \in Nat BY <3>0
      <4>3. tick_pc' = [tick_pc EXCEPT ![u] = Append(@, "lock")] BY <3>2 DEF Deliver
      <4>4. CASE t = u BY <3>0, <4>1, <4>2, <4>3, <4>4, DecoderAssumption
      <4>5. CASE t # u BY <3>0, <4>3, <4>5
      <4> QED BY <4>4, <4>5
    <3>3. ASSUME NEW u \in DecoderThreads, TryTest(u) PROVE Len(tick_pc'[t]) <= MAX_NESTED
      <4>1. PICK to \in {<<"report">>, <<>>} : tick_pc[u] # <<>> /\ tick_pc' = [tick_pc EXCEPT ![u] = Front(@) \o to]
        BY <3>3 DEF TryTest, TickLock, ReportLine, TickUnlock, Ticking
      <4>2. Len(Front(tick_pc[u]) \o to) <= Len(tick_pc[u]) /\ Len(Front(tick_pc[u]) \o to) \in Nat
        <5>1. CASE to = <<"report">>
          <6>0. tick_pc[u] \in Seq({"lock", "report"}) /\ tick_pc[u] # <<>> /\ "report" \in {"lock", "report"}
            BY <3>0, <4>1
          <6>1. Len(Front(tick_pc[u]) \o <<"report">>) = Len(tick_pc[u]) /\ Len(tick_pc[u]) \in Nat
            BY <6>0, TopReplaced
          <6> QED BY <5>1, <6>1
        <5>2. CASE to = <<>>
          <6>1. Len(Front(tick_pc[u]) \o <<>>) = Len(tick_pc[u]) - 1 /\ Len(tick_pc[u]) \in Nat \ {0}
            BY <3>0, <4>1, TopRemoved
          <6> QED BY <5>2, <6>1
        <5> QED BY <4>1, <5>1, <5>2
      <4>3. Len(tick_pc[u]) \in Nat /\ Len(tick_pc[u]) <= MAX_NESTED BY <3>0
      <4>4. CASE t = u
        <5>1. tick_pc'[t] = Front(tick_pc[u]) \o to BY <3>0, <4>1, <4>4
        <5> QED BY <4>2, <4>3, <5>1, DecoderAssumption
      <4>5. CASE t # u BY <3>0, <4>1, <4>5
      <4> QED BY <4>4, <4>5
    <3>4. CASE DecoderMain
      <4>1. tick_pc' = [u \in DecoderThreads |-> <<>>] \/ UNCHANGED tick_pc
        BY <3>4 DEF DecoderMain, InstallTryTest, SetTimer, CreateDecoder, CreateFails, JoinDecoders, tickVars
      <4>2. Len(<<>>) = 0 /\ 0 <= MAX_NESTED BY DecoderAssumption
      <4> QED BY <3>1, <4>1, <4>2
    <3>5. TimerExpires \/ (\E d \in Decoders : Decode(d)) => UNCHANGED tick_pc
      BY DEF TimerExpires, Decode, tickVars
    <3> QED BY <1>2, <3>1, <3>2, <3>3, <3>4, <3>5 DEF DecoderNext, Alarm
  <2>9. tick_report' \in [Decoders -> 0 .. TOTAL_PIXELS]
    <3>0. /\ tick_report \in [Decoders -> 0 .. TOTAL_PIXELS] /\ progress \in [Decoders -> 0 .. TOTAL_PIXELS]
          /\ next_line_of_report \in 0 .. NUM_THREADS
      BY <1>2 DEF DecoderInv, DecoderBounds, DecoderTypeOK
    <3>1. \/ UNCHANGED tick_report
          \/ /\ next_line_of_report < NUM_THREADS
             /\ tick_report' = [tick_report EXCEPT ![next_line_of_report] = progress[next_line_of_report]]
      BY <1>2 DEF DecoderNext, DecoderMain, InstallTryTest, SetTimer, CreateDecoder, CreateFails,
                  JoinDecoders, Alarm, TimerExpires, Deliver, TryTest, TickLock, ReportLine, TickUnlock,
                  Decode, tickVars
    <3>2. next_line_of_report < NUM_THREADS => next_line_of_report \in Decoders
      BY <3>0, DecoderAssumption DEF Decoders
    <3> QED BY <3>0, <3>1, <3>2
  <2>10. DecoderTypeOK'
    <3>1. DecoderTyped' BY <2>1 DEF TickInv
    <3>2. gave_up' \subseteq DecoderThreads
      <4>1. gave_up \subseteq DecoderThreads BY <1>2 DEF DecoderInv, DecoderBounds, DecoderTypeOK
      <4>2. gave_up' = gave_up \/ \E t \in DecoderThreads : gave_up' = gave_up \cup {t}
        BY <1>2 DEF DecoderNext, DecoderMain, InstallTryTest, SetTimer, CreateDecoder, CreateFails,
                    JoinDecoders, Alarm, TryTest, Decode, DecodePixel, EndOfPixels, LeaveEarly,
                    LockProgress, CountPixel, UnlockProgress, Complains
      <4> QED BY <4>1, <4>2
    <3> QED BY <2>6, <2>7, <2>8, <2>9, <3>1, <3>2 DEF DecoderTypeOK, DecoderTyped, DecoderPlaces
  <2> QED BY <2>1, <2>2, <2>3, <2>4, <2>5, <2>10 DEF DecoderInv, DecoderBounds
<1>3. DecoderInv /\ UNCHANGED <<decoderVars, courseVars>> => DecoderInv'
  <2> SUFFICES ASSUME DecoderInv, UNCHANGED <<decoderVars, courseVars>> PROVE DecoderInv' OBVIOUS
  <2>1. TickInv' BY TickInvKept DEF DecoderInv, TickInv, DecoderTyped, Excluded, Snapshot, Reports, decoderVars
  <2>2. Tally' BY DEF DecoderInv, Tally, Launched, PixelsCounted, Python, decoderVars, courseVars
  <2>3. DecoderBounds' BY DEF DecoderInv, DecoderBounds, DecoderTypeOK, decoderVars
  <2> QED BY <2>1, <2>2, <2>3 DEF DecoderInv
<1> QED BY <1>1, <1>2, <1>3 DEF decoderSteps

-----------------------------------------------------------------------------
(* Types: the data processor *)

LEMMA BatchesFit ==
    ASSUME NEW n \in Nat, NEW u \in Nat, NEW b \in Nat, n + u < b, b <= MAX_SIGNALS + 1
    PROVE  n \in 0 .. MAX_SIGNALS /\ b \in 1 .. MAX_SIGNALS + 1
BY ProcessorAssumption

LEMMA ProcessorTypes == ASSUME Upkeep, Upkeep', ProcessorTypeOK, ProcessorNext PROVE ProcessorTypeOK'
<1>1. /\ signal_count' \in 0 .. MAX_SIGNALS /\ batch' \in 1 .. MAX_SIGNALS + 1
      /\ creator_pc' \in {"unborn", "write", "signal", "exit"} /\ structure' \in {"first", "fixed"}
  <2>1. /\ signal_count' \in Nat /\ batch' \in Nat /\ signal_count' + Uncounted' < batch'
        /\ batch' <= MAX_SIGNALS + 1
    BY DEF Upkeep, SignalsSent
  <2>2. Uncounted' \in Nat BY InAllIs DEF Uncounted
  <2>3. signal_count' \in 0 .. MAX_SIGNALS /\ batch' \in 1 .. MAX_SIGNALS + 1
    BY <2>1, <2>2, BatchesFit
  <2> QED BY <2>3 DEF Upkeep
<1> USE ProcessorAssumption DEF ProcessorTypeOK
<1>2. /\ names \subseteq {"shm", "mq"} /\ complaints \subseteq Calls
      /\ shm_data \in [0 .. NUM_ELEMENTS - 1 -> 0 .. MAX_SIGNALS]
      /\ sum \in Nat /\ next_element \in 0 .. NUM_ELEMENTS
      /\ messages \in Seq(Nat) /\ Len(messages) <= MQ_MAXMSG /\ received \in Seq(Nat)
      /\ logger_pc \in {"unborn", "receive", "exit"}
  OBVIOUS
<1> HIDE DEF ProcessorTypeOK
<1>3. CASE DataCreator
  <2>1. UNCHANGED <<names, complaints, sum, next_element, messages, received, logger_pc>>
    BY <1>3 DEF DataCreator, processorVars
  <2>2. CASE WriteElement
    <3>0. batch \in 1 .. MAX_SIGNALS + 1 /\ batch <= MAX_SIGNALS BY <2>2 DEF WriteElement, ProcessorTypeOK
    <3>1. PICK i \in 0 .. NUM_ELEMENTS - 1 : shm_data' = [shm_data EXCEPT ![i] = batch]
      BY <2>2 DEF WriteElement
    <3>3. batch \in 0 .. MAX_SIGNALS BY <3>0
    <3>2. shm_data' \in [0 .. NUM_ELEMENTS - 1 -> 0 .. MAX_SIGNALS] BY <1>2, <3>1, <3>3
    <3> QED BY <1>1, <1>2, <2>1, <3>2 DEF ProcessorTypeOK
  <2>3. CASE SignalProcessor BY <1>1, <1>2, <2>1, <2>3 DEF SignalProcessor, ProcessorTypeOK
  <2> QED BY <1>3, <2>2, <2>3 DEF DataCreator
<1>4. CASE DataLogger
  <2>1. /\ messages # <<>> /\ received' = Append(received, Head(messages)) /\ messages' = Tail(messages)
        /\ logger_pc' \in {"receive", "exit"}
        /\ UNCHANGED <<names, complaints, shm_data, sum, next_element>>
    BY <1>4 DEF DataLogger, processorVars
  <2>2. received' \in Seq(Nat) /\ messages' \in Seq(Nat) /\ Len(messages') <= MQ_MAXMSG BY <1>2, <2>1
  <2> QED BY <1>1, <1>2, <2>1, <2>2 DEF ProcessorTypeOK
<1>5. CASE DataProcessor
  <2>1. complaints' \subseteq Calls /\ names' \subseteq {"shm", "mq"}
        /\ logger_pc' \in {"unborn", "receive", "exit"}
    <3>1. complaints' = complaints \/ \E call \in Calls : complaints' = complaints \cup {call}
      <4> USE DEF Complain, Calls
      <4>1. CASE InstallSignalHandler BY <4>1 DEF InstallSignalHandler, GiveUp
      <4>2. CASE CreateObjects BY <4>2 DEF CreateObjects, GiveUp
      <4>3. CASE ForkCreator \/ ForkLogger BY <4>3 DEF ForkCreator, ForkLogger
      <4>4. CASE ForkFails BY <4>4 DEF ForkFails, GiveUp
      <4>5. CASE SendAverage BY <4>5 DEF SendAverage
      <4> QED BY <1>5, <4>1, <4>2, <4>3, <4>4, <4>5
          DEF DataProcessor, TestCount, StartSum, AddElement, WaitForChildren, SignalHandler, dataVars, processorVars
    <3>2. names' \in {names, names \cup {"shm"}, names \cup {"mq"}, names \ {"shm"}, {}}
      BY <1>5 DEF DataProcessor, InstallSignalHandler, CreateObjects, ForkCreator, ForkLogger, ForkFails, TestCount,
                  StartSum, AddElement, SendAverage, WaitForChildren, SignalHandler, dataVars, processorVars
    <3>3. logger_pc' \in {logger_pc, "receive", "exit"}
      BY <1>5 DEF DataProcessor, InstallSignalHandler, CreateObjects, ForkCreator, ForkLogger, ForkFails, TestCount,
                  StartSum, AddElement, SendAverage, WaitForChildren, SignalHandler, dataVars, processorVars
    <3> QED BY <1>2, <3>1, <3>2, <3>3
  <2>2. CASE UNCHANGED <<shm_data, sum, next_element, messages, received>>
    BY <1>1, <1>2, <2>1, <2>2 DEF ProcessorTypeOK
  <2>3. CASE StartSum BY <1>1, <1>2, <2>1, <2>3 DEF StartSum, ProcessorTypeOK
  <2>4. CASE AddElement
    <3>1. /\ UNCHANGED <<shm_data, messages, received>> /\ next_element < NUM_ELEMENTS
          /\ sum' = sum + shm_data[next_element] /\ next_element' = next_element + 1
      BY <2>4 DEF AddElement
    <3>2. next_element \in 0 .. NUM_ELEMENTS - 1 /\ next_element' \in 0 .. NUM_ELEMENTS BY <1>2, <3>1
    <3>3. shm_data[next_element] \in 0 .. MAX_SIGNALS BY <1>2, <3>2
    <3>4. sum' \in Nat BY <1>2, <3>1, <3>3
    <3> QED BY <1>1, <1>2, <2>1, <3>1, <3>2, <3>4 DEF ProcessorTypeOK
  <2>5. CASE SendAverage
    <3>1. UNCHANGED <<shm_data, sum, next_element, received>> BY <2>5 DEF SendAverage
    <3>2. messages' \in Seq(Nat) /\ Len(messages') <= MQ_MAXMSG
      <4>1. \/ UNCHANGED messages \/ (Len(messages) < MQ_MAXMSG /\ messages' = Append(messages, sum))
        BY <2>5 DEF SendAverage
      <4>2. CASE UNCHANGED messages BY <1>2, <4>2
      <4>3. CASE Len(messages) < MQ_MAXMSG /\ messages' = Append(messages, sum)
        <5>1. messages' \in Seq(Nat) /\ Len(messages') = Len(messages) + 1 /\ Len(messages) \in Nat
          BY <1>2, <4>3
        <5> QED BY <4>3, <5>1
      <4> QED BY <4>1, <4>2, <4>3
    <3> QED BY <1>1, <1>2, <2>1, <3>1, <3>2 DEF ProcessorTypeOK
  <2> QED BY <1>5, <2>2, <2>3, <2>4, <2>5
      DEF DataProcessor, InstallSignalHandler, CreateObjects, ForkCreator, ForkLogger, ForkFails, TestCount,
          WaitForChildren, SignalHandler, dataVars
<1> QED BY <1>3, <1>4, <1>5 DEF ProcessorNext

-----------------------------------------------------------------------------
(* Each program among the others *)

\* Which program is run, and at which pace, stays as it was at the start.
LEMMA CourseStep == [Next]_vars => UNCHANGED courseVars
BY DEF Next, vars

LEMMA CourseTypes == Spec => []CourseTypeOK
<1>1. Init => CourseTypeOK BY DEF Init, CourseTypeOK
<1>2. CourseTypeOK /\ [Next]_vars => CourseTypeOK' BY CourseStep DEF CourseTypeOK, courseVars
<1> QED BY <1>1, <1>2, PTL DEF Spec

\* A step of one program is none of any other.
LEMMA StepsOfEach ==
    [Next]_vars =>
        /\ [TicketsNext /\ UNCHANGED courseVars]_<<ticketVars, courseVars>>
        /\ [PrimeQueueNext /\ UNCHANGED courseVars]_<<queueVars, courseVars>>
        /\ [RaceNext /\ UNCHANGED courseVars]_<<raceVars, courseVars>>
        /\ [RleNext /\ UNCHANGED courseVars]_<<rleVars, courseVars>>
        /\ [SortNext /\ UNCHANGED courseVars]_<<sortVars, courseVars>>
        /\ [GameNext /\ UNCHANGED courseVars]_<<gameVars, courseVars>>
        /\ [DecoderNext /\ UNCHANGED courseVars]_<<decoderVars, courseVars>>
        /\ [CommandsNext]_commandVars
<1> SUFFICES ASSUME [Next]_vars PROVE
        /\ [TicketsNext /\ UNCHANGED courseVars]_<<ticketVars, courseVars>>
        /\ [PrimeQueueNext /\ UNCHANGED courseVars]_<<queueVars, courseVars>>
        /\ [RaceNext /\ UNCHANGED courseVars]_<<raceVars, courseVars>>
        /\ [RleNext /\ UNCHANGED courseVars]_<<rleVars, courseVars>>
        /\ [SortNext /\ UNCHANGED courseVars]_<<sortVars, courseVars>>
        /\ [GameNext /\ UNCHANGED courseVars]_<<gameVars, courseVars>>
        /\ [DecoderNext /\ UNCHANGED courseVars]_<<decoderVars, courseVars>>
        /\ [CommandsNext]_commandVars
  OBVIOUS
<1>1. UNCHANGED courseVars BY CourseStep
<1> QED BY <1>1 DEF Next, vars

LEMMA StepsOfExercises ==
    [Next]_vars =>
        /\ [SalesNext /\ UNCHANGED courseVars]_<<salesVars, courseVars>>
        /\ [BlocksNext /\ UNCHANGED courseVars]_<<blocksVars, courseVars>>
        /\ [ShmExampleNext /\ UNCHANGED courseVars]_<<exampleVars, courseVars>>
        /\ [CaesarNext /\ UNCHANGED courseVars]_<<caesarVars, courseVars>>
        /\ [ForksNext]_forkVars
        /\ [PlotterNext]_plotterVars
        /\ [VruntimeNext]_vruntimeVars
        /\ [UptimeNext]_uptimeVars
        /\ [MessageNext]_messageVars
<1> SUFFICES ASSUME [Next]_vars PROVE
        /\ [SalesNext /\ UNCHANGED courseVars]_<<salesVars, courseVars>>
        /\ [BlocksNext /\ UNCHANGED courseVars]_<<blocksVars, courseVars>>
        /\ [ShmExampleNext /\ UNCHANGED courseVars]_<<exampleVars, courseVars>>
        /\ [CaesarNext /\ UNCHANGED courseVars]_<<caesarVars, courseVars>>
        /\ [ForksNext]_forkVars
        /\ [PlotterNext]_plotterVars
        /\ [VruntimeNext]_vruntimeVars
        /\ [UptimeNext]_uptimeVars
        /\ [MessageNext]_messageVars
  OBVIOUS
<1>1. UNCHANGED courseVars BY CourseStep
<1>2. ExercisesNext \/ UNCHANGED exerciseVars BY DEF Next, vars
<1> QED BY <1>1, <1>2 DEF ExercisesNext, exerciseVars

\* The programs that wait in pause() share the variables of their processes, but
\* only one of them is run.
LEMMA StepsOfPausing ==
    ASSUME [Next]_vars
    PROVE  /\ program = "commands" => [CommandsNext /\ UNCHANGED courseVars]_<<commandVars, signalVars, courseVars>>
           /\ program = "play" => [PlayNext /\ UNCHANGED courseVars]_<<playVars, signalVars, courseVars>>
           /\ program = "processor" => [ProcessorNext /\ UNCHANGED courseVars]_<<dataVars, signalVars, courseVars>>
           /\ program = "plotter" => [PlotterNext /\ UNCHANGED courseVars]_<<plotterVars, signalVars, courseVars>>
           /\ program # "play" => UNCHANGED playVars
           /\ program # "processor" => UNCHANGED dataVars
<1>1. UNCHANGED courseVars BY CourseStep
<1>2. /\ CommandsNext => program = "commands"
      /\ PlayNext => program = "play"
      /\ ProcessorNext => program = "processor"
      /\ PlotterNext => program = "plotter"
  BY DEF CommandsNext, Manager, CommandWorker, PlayNext, Director, Actor, ProcessorNext, DataCreator, DataLogger,
         DataProcessor, PlotterNext, Driver, TimePlotter
<1>3. ExercisesNext => PlotterNext \/ UNCHANGED <<signalVars, plotterVars>> BY DEF ExercisesNext
<1>4. UNCHANGED exerciseVars => UNCHANGED plotterVars BY DEF exerciseVars
<1> QED BY <1>1, <1>2, <1>3, <1>4 DEF Next, vars

\* What the programs do is what each does that has its variables for itself.
LEMMA EachByItself ==
    Spec => /\ TicketsSpec /\ PrimeQueueSpec /\ RaceSpec /\ RleSpec /\ SortSpec /\ GameSpec /\ DecoderSpec
            /\ SalesSpec /\ BlocksSpec /\ ShmExampleSpec /\ CaesarSpec
<1>1. Init => /\ TicketsInit /\ PrimeQueueInit /\ RaceInit /\ RleInit /\ SortInit /\ GameInit /\ DecoderInit
              /\ SalesInit /\ BlocksInit /\ ShmExampleInit /\ CaesarInit /\ CourseTypeOK
  BY DEF Init, ExercisesInit, CourseTypeOK
<1> QED BY <1>1, StepsOfEach, StepsOfExercises, PTL
  DEF Spec, TicketsSpec, PrimeQueueSpec, RaceSpec, RleSpec, SortSpec, GameSpec, DecoderSpec,
      SalesSpec, BlocksSpec, ShmExampleSpec, CaesarSpec

Run(p) == program = p

LEMMA RunsAlone == ASSUME NEW p, [Next]_vars PROVE Run(p)' <=> Run(p)
BY CourseStep DEF courseVars, Run

\* And of those that wait in pause(), what the one that is run does.
LEMMA ThePausingOne ==
    /\ Spec /\ Run("commands") => CommandsSpec
    /\ Spec /\ Run("play") => PlaySpec
    /\ Spec /\ Run("processor") => ProcessorSpec
    /\ Spec /\ Run("plotter") => PlotterSpec
<1>0. Init => CourseTypeOK BY DEF Init, CourseTypeOK
<1>1. Spec /\ Run("commands") => CommandsSpec
  <2>1. Init /\ Run("commands") => CommandsInit /\ CommandsPausing BY DEF Init, Processes, Run
  <2>2. Run("commands") /\ [Next]_vars => Run("commands")' BY RunsAlone
  <2>3. Run("commands") /\ [Next]_vars => [CommandsNext /\ UNCHANGED courseVars]_<<commandVars, signalVars, courseVars>>
    BY StepsOfPausing DEF Run
  <2> QED BY <1>0, <2>1, <2>2, <2>3, PTL DEF Spec, CommandsSpec
<1>2. Spec /\ Run("play") => PlaySpec
  <2>1. Init /\ Run("play") => PlayInit /\ PlayPausing BY DEF Init, Processes, Run
  <2>2. Run("play") /\ [Next]_vars => Run("play")' BY RunsAlone
  <2>3. Run("play") /\ [Next]_vars => [PlayNext /\ UNCHANGED courseVars]_<<playVars, signalVars, courseVars>>
    BY StepsOfPausing DEF Run
  <2> QED BY <1>0, <2>1, <2>2, <2>3, PTL DEF Spec, PlaySpec
<1>3. Spec /\ Run("processor") => ProcessorSpec
  <2>1. Init /\ Run("processor") => ProcessorInit /\ ProcessorPausing BY DEF Init, Processes, Run
  <2>2. Run("processor") /\ [Next]_vars => Run("processor")' BY RunsAlone
  <2>3. Run("processor") /\ [Next]_vars => [ProcessorNext /\ UNCHANGED courseVars]_<<dataVars, signalVars, courseVars>>
    BY StepsOfPausing DEF Run
  <2> QED BY <1>0, <2>1, <2>2, <2>3, PTL DEF Spec, ProcessorSpec
<1>4. Spec /\ Run("plotter") => PlotterSpec
  <2>1. Init /\ Run("plotter") => PlotterInit /\ PlotterPausing BY DEF Init, ExercisesInit, Processes, Run
  <2>2. Run("plotter") /\ [Next]_vars => Run("plotter")' BY RunsAlone
  <2>3. Run("plotter") /\ [Next]_vars => [PlotterNext /\ UNCHANGED courseVars]_<<plotterVars, signalVars, courseVars>>
    BY StepsOfPausing DEF Run
  <2> QED BY <1>0, <2>1, <2>2, <2>3, PTL DEF Spec, PlotterSpec
<1> QED BY <1>1, <1>2, <1>3, <1>4

\* A program that is not run at the start never is.
LEMMA NotRun ==
    /\ Spec /\ ~Run("commands") => []~Run("commands")
    /\ Spec /\ ~Run("play") => []~Run("play")
    /\ Spec /\ ~Run("processor") => []~Run("processor")
    /\ Spec /\ ~Run("plotter") => []~Run("plotter")
<1>1. ~Run("commands") /\ [Next]_vars => ~Run("commands")' BY RunsAlone
<1>2. ~Run("play") /\ [Next]_vars => ~Run("play")' BY RunsAlone
<1>3. ~Run("processor") /\ [Next]_vars => ~Run("processor")' BY RunsAlone
<1>4. ~Run("plotter") /\ [Next]_vars => ~Run("plotter")' BY RunsAlone
<1> QED BY <1>1, <1>2, <1>3, <1>4, PTL DEF Spec

\* The signals that the play and the data processor handle are their own only while
\* they are run; else nothing of theirs changes.
LEMMA PlayAndProcessorTypes == Spec => [](PlayTypeOK /\ ProcessorTypeOK)
<1>1. Spec => []PlayTypeOK
  <2>1. Spec /\ Run("play") => []PlayTypeOK BY ThePausingOne, LinesInOrder, PTL
  <2>2. Init => PlayTypeOK
    <3>1. Init => PlayInit BY DEF Init
    <3>2. ASSUME PlayInit PROVE PlayTypeOK
      <4>1. spoken = <<>> /\ actor_ready \in BOOLEAN /\ director_ready \in BOOLEAN BY <3>2 DEF PlayInit
      <4>2. spoken \in Seq(Cast) /\ Len(spoken) = 0 BY <4>1
      <4> QED BY <4>1, <4>2 DEF PlayTypeOK
    <3> QED BY <3>1, <3>2
  <2>3. ~Run("play") /\ PlayTypeOK /\ [Next]_vars => PlayTypeOK' BY StepsOfPausing DEF PlayTypeOK, playVars, Run
  <2>4. Spec /\ ~Run("play") => []PlayTypeOK BY <2>2, <2>3, NotRun, PTL DEF Spec
  <2> QED BY <2>1, <2>4, PTL
<1>2. Spec => []ProcessorTypeOK
  <2>1. ProcessorSpec => []ProcessorTypeOK
    <3>1. ProcessorInit => ProcessorTypeOK BY ProcessorAssumption DEF ProcessorInit, ProcessorTypeOK
    <3>2. Upkeep /\ Upkeep' /\ ProcessorTypeOK /\ [processorSteps]_<<dataVars, signalVars, courseVars>>
            => ProcessorTypeOK'
      <4>1. UNCHANGED dataVars /\ ProcessorTypeOK => ProcessorTypeOK'
        BY DEF dataVars, processorVars, ProcessorTypeOK
      <4> QED BY <4>1, ProcessorTypes DEF processorSteps
    <3> QED BY <3>1, <3>2, UpkeepAlways, PTL DEF ProcessorSpec, processorSteps
  <2>2. Init => ProcessorTypeOK BY ProcessorAssumption DEF Init, ProcessorInit, ProcessorTypeOK
  <2>3. ~Run("processor") /\ ProcessorTypeOK /\ [Next]_vars => ProcessorTypeOK'
    BY StepsOfPausing DEF ProcessorTypeOK, dataVars, processorVars, Run
  <2>4. Spec /\ ~Run("processor") => []ProcessorTypeOK BY <2>2, <2>3, NotRun, PTL DEF Spec
  <2> QED BY <2>1, <2>4, ThePausingOne, PTL
<1> QED BY <1>1, <1>2, PTL

\* For all values of the constants, and whichever program is run at whichever
\* pace: every variable keeps its type.
THEOREM ProgramTypes == Spec => []ProgramsTypeOK
<1>1. Spec => []GameTypeOK
  <2>1. GameTyped => GameTypeOK BY DEF GameTyped
  <2>2. [GameNext /\ UNCHANGED courseVars]_<<gameVars, courseVars>> => [GameNext]_gameVars OBVIOUS
  <2> QED BY <2>1, <2>2, GameTypes, EachByItself, PTL DEF GameSpec
<1>2. Spec => []DecoderTypeOK
  <2>1. DecoderInv => DecoderTypeOK BY DEF DecoderInv, DecoderBounds
  <2> QED BY <2>1, DecoderTypes, EachByItself, PTL DEF DecoderSpec, decoderSteps
<1>3. Spec => []CommandsTypeOK
  <2>1. Init => CommandsInit BY DEF Init
  <2>2. CommandsTyped => CommandsTypeOK BY DEF CommandsTyped
  <2> QED BY <2>1, <2>2, CommandsTypes, StepsOfEach, PTL DEF Spec
<1>4. Spec => [](ForksTypeOK /\ VruntimeTypeOK /\ UptimeTypeOK /\ MessageTypeOK /\ PlotterTypeOK /\ ShmExampleTypeOK)
  <2>1. Init => ForksInit /\ VruntimeInit /\ UptimeInit /\ MessageInit /\ PlotterInit BY DEF Init, ExercisesInit
  <2>2. PlotterTyped => PlotterTypeOK BY DEF PlotterTyped
  <2>3. ShmTyped => ShmExampleTypeOK BY DEF ShmTyped
  <2>4. [ShmExampleNext /\ UNCHANGED courseVars]_<<exampleVars, courseVars>> => [ShmExampleNext]_exampleVars OBVIOUS
  <2>5. Init => ShmExampleInit BY DEF Init, ExercisesInit
  <2>6. Spec => []ForksTypeOK BY <2>1, ForksTypes, StepsOfExercises, PTL DEF Spec
  <2>7. Spec => []VruntimeTypeOK BY <2>1, VruntimeTypes, StepsOfExercises, PTL DEF Spec
  <2>8. Spec => []UptimeTypeOK BY <2>1, UptimeTypes, StepsOfExercises, PTL DEF Spec
  <2>9. Spec => []MessageTypeOK BY <2>1, MessageTypes, StepsOfExercises, PTL DEF Spec
  <2>10. Spec => []PlotterTypeOK BY <2>1, <2>2, PlotterTypes, StepsOfExercises, PTL DEF Spec
  <2>11. Spec => []ShmExampleTypeOK BY <2>3, <2>4, <2>5, ShmTypes, StepsOfExercises, PTL DEF Spec
  <2> QED BY <2>6, <2>7, <2>8, <2>9, <2>10, <2>11, PTL
<1>5. Spec => [](TicketsTypeOK /\ QueueTypeOK /\ RaceTypeOK /\ RleTypeOK /\ SortTypeOK /\ SalesTypeOK /\ BlocksTypeOK /\ CaesarTypeOK)
  BY EachByItself, TicketsTypes, AllPrimesFound, PlacesFit, FilesRoundTrip, ArraySorted, SalesAddUpAlways, LogIsTrue,
     TextIsPassedOn, PTL
<1> QED BY <1>1, <1>2, <1>3, <1>4, <1>5, CourseTypes, PlayAndProcessorTypes, PTL DEF ProgramsTypeOK, ExercisesTypeOK

\* What has been proved of each program holds of all of them side by side: the
\* invariants of Programs.cfg and the refinement of the shop, for all values of
\* the constants.
THEOREM AllProgramsSafe ==
    Spec => /\ [](/\ TicketsConserved /\ LogInBounds /\ ClosedForGood /\ LastReportComplete
                  /\ PrimesFound
                  /\ LogsMatchCommands /\ OnlyLastAddresseeHangs
                  /\ PlayInOrder
                  /\ AveragesRight /\ NothingLeftBehind
                  /\ PlacesInBounds
                  /\ RoundTrip
                  /\ SortedPermutation
                  /\ InsideBorders /\ ByeOnlyAfterQuit
                  /\ TickIsSnapshot /\ AllCounted
                  /\ SalesAddUp /\ BlocksLogged /\ ReaderSeesAll /\ CaesarPrefix /\ ElapsedAddUp)
            /\ SoldOneByOne
<1>1. Spec => [](TicketsConserved /\ LogInBounds /\ ClosedForGood /\ LastReportComplete)
  BY EachByItself, NoTicketLost, LogFits, NothingAfterClosing, LastReport, PTL
<1>2. Spec => [](PrimesFound /\ PlacesInBounds /\ RoundTrip /\ SortedPermutation)
  BY EachByItself, AllPrimesFound, PlacesFit, FilesRoundTrip, ArraySorted, PTL
<1>3. Spec => [](InsideBorders /\ ByeOnlyAfterQuit /\ TickIsSnapshot /\ AllCounted)
  BY EachByItself, InsideTheBorder, ByeWhenGivenUp, TickSnapshot, EveryPixelCounted, PTL
<1>4. Spec => [](SalesAddUp /\ BlocksLogged /\ ReaderSeesAll /\ CaesarPrefix)
  BY EachByItself, SalesAddUpAlways, LogIsTrue, ReaderIsServed, TextIsPassedOn, PTL
<1>5. Spec => [](LogsMatchCommands /\ OnlyLastAddresseeHangs)
  <2>1. ~Run("commands") => LogsMatchCommands /\ OnlyLastAddresseeHangs
    BY DEF Run, LogsMatchCommands, OnlyLastAddresseeHangs
  <2> QED BY <2>1, ThePausingOne, NotRun, LogsAreComplete, OnlyLastHangs, PTL
<1>6. Spec => []PlayInOrder
  <2>1. ~Run("play") => PlayInOrder BY DEF Run, PlayInOrder
  <2> QED BY <2>1, ThePausingOne, NotRun, LinesInOrder, PTL
<1>7. Spec => [](AveragesRight /\ NothingLeftBehind)
  <2>1. ~Run("processor") => AveragesRight /\ NothingLeftBehind BY DEF Run, AveragesRight, NothingLeftBehind
  <2> QED BY <2>1, ThePausingOne, NotRun, AveragesFollow, LeavesNothing, PTL
<1>8. Spec => []ElapsedAddUp
  <2>1. ~Run("plotter") => ElapsedAddUp BY DEF Run, ElapsedAddUp
  <2> QED BY <2>1, ThePausingOne, NotRun, PrintedAddsUp, PTL
<1>9. Spec => SoldOneByOne BY EachByItself, ShopImplemented, PTL
<1> QED BY <1>1, <1>2, <1>3, <1>4, <1>5, <1>6, <1>7, <1>8, <1>9, PTL
=============================================================================
