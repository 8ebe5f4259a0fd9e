------------------------------ MODULE Commands ------------------------------
(***************************************************************************)
(* Section2/homeworks/H1.  The manager reads commands.txt and sends each   *)
(* command, a signal, to one of two workers, a second apart, and then      *)
(* SIGTERM to both.  A worker logs SIGUSR1 and SIGUSR2 in its handlers and *)
(* waits in pause() while keep_running.                                    *)
(*                                                                         *)
(* A line is the sequence of its words.                                    *)
(***************************************************************************)
EXTENDS Integers, FiniteSets, Pausing, Course

CONSTANT CommandFiles       \* the contents commands.txt may have

ASSUME CommandsAssumption == \A file \in CommandFiles : file \in Seq(Seq(STRING))

VARIABLES
    commands,               \* commands.txt
    next_line,              \* how many fgets has read
    manager_pc,
    target_pid, signal_num, \* what the manager is about to send
    keep_running,
    log                     \* worker_log_<pid>.txt of each worker

managerVars == <<commands, next_line, manager_pc, target_pid, signal_num>>
commandVars == <<managerVars, keep_running, log>>

CommandWorkers == {"worker1", "worker2"}
CommandSignals == {"SIGUSR1", "SIGUSR2", "SIGTERM"}

CommandsTypeOK ==
    /\ next_line \in 0 .. Len(commands)
    /\ manager_pc \in {"start", "read", "send", "term1", "term2", "exit"}
    /\ target_pid \in CommandWorkers /\ signal_num \in CommandSignals
    /\ keep_running \in [CommandWorkers -> BOOLEAN]
    /\ \A w \in CommandWorkers : log[w] \in Seq(CommandSignals)

CommandsInit ==
    /\ commands \in CommandFiles
    /\ next_line = 0
    /\ manager_pc = "start"
    /\ target_pid = "worker1" /\ signal_num = "SIGTERM"
    /\ keep_running = [w \in CommandWorkers |-> TRUE]
    /\ log = [w \in CommandWorkers |-> <<>>]

\* The processes are those of the program that is being run.
CommandsPausing ==
    /\ at = [w \in CommandWorkers |-> "usr1"]
    /\ pending = [w \in CommandWorkers |-> {}]
    /\ handles = [w \in CommandWorkers |-> {}]
    /\ frames = [w \in CommandWorkers |-> <<>>]

-----------------------------------------------------------------------------
(* The manager *)

\* Two words, a worker and a signal: anything else is skipped.
Valid(line) ==
    /\ Len(line) >= 2
    /\ line[1] \in CommandWorkers
    /\ line[2] \in {"SIGUSR1", "SIGUSR2"}

\* The workers are started first, to have their pids for the manager's command
\* line, and sleep(1) before each command lets them finish with the one before.
WorkersReady == Calm => \A w \in CommandWorkers : Idle(w)

StartManager ==
    /\ manager_pc = "start" /\ WorkersReady
    /\ manager_pc' = "read"
    /\ UNCHANGED <<commands, next_line, target_pid, signal_num, signalVars>>

\* Mutant of ReadCommand: remembers the worker of the line before.
ReadCommandStaleTarget ==
    /\ manager_pc = "read" /\ next_line < Len(commands)
    /\ next_line' = next_line + 1
    /\ LET line == commands[next_line + 1] IN
          IF Valid(line)
          THEN signal_num' = line[2] /\ UNCHANGED target_pid /\ manager_pc' = "send"
          ELSE UNCHANGED <<target_pid, signal_num, manager_pc>>
    /\ UNCHANGED <<commands, signalVars>>

ReadCommand ==
    /\ manager_pc = "read" /\ next_line < Len(commands)
    /\ next_line' = next_line + 1
    /\ LET line == commands[next_line + 1] IN
          IF Valid(line)
          THEN target_pid' = line[1] /\ signal_num' = line[2] /\ manager_pc' = "send"
          ELSE UNCHANGED <<target_pid, signal_num, manager_pc>>
    /\ UNCHANGED <<commands, signalVars>>

SendSignalToWorker ==
    /\ manager_pc = "send" /\ WorkersReady
    /\ Post(target_pid, signal_num)
    /\ manager_pc' = "read"
    /\ UNCHANGED <<commands, next_line, target_pid, signal_num, at, handles, frames>>

EndOfCommands ==
    /\ manager_pc = "read" /\ next_line = Len(commands)
    /\ manager_pc' = "term1"
    /\ UNCHANGED <<commands, next_line, target_pid, signal_num, signalVars>>

\* Mutant of Terminate: ends the worker of the last command twice.
TerminateTarget ==
    /\ manager_pc \in {"term1", "term2"}
    /\ Post(target_pid, "SIGTERM")
    /\ manager_pc' = IF manager_pc = "term1" THEN "term2" ELSE "exit"
    /\ UNCHANGED <<commands, next_line, target_pid, signal_num, at, handles, frames>>

\* kill(SIGTERM) to the first worker and then to the second, without a sleep.
Terminate ==
    /\ manager_pc \in {"term1", "term2"}
    /\ Post(IF manager_pc = "term1" THEN "worker1" ELSE "worker2", "SIGTERM")
    /\ manager_pc' = IF manager_pc = "term1" THEN "term2" ELSE "exit"
    /\ UNCHANGED <<commands, next_line, target_pid, signal_num, at, handles, frames>>

Manager ==
    /\ program = "commands"
    /\ StartManager \/ ReadCommand \/ SendSignalToWorker \/ EndOfCommands \/ Terminate
    /\ UNCHANGED <<keep_running, log>>

-----------------------------------------------------------------------------
(* A worker *)

InstallFor(w, from, s, to) ==
    Goes(w, from, to) /\ Install(w, s) /\ UNCHANGED <<pending, frames, keep_running, log>>

InstallHandlers(w) ==
    \/ InstallFor(w, "usr1", "SIGUSR1", "usr2")
    \/ InstallFor(w, "usr2", "SIGUSR2", "term")
    \/ InstallFor(w, "term", "SIGTERM", "test")

\* while (keep_running) pause();
TestRunning(w) ==
    /\ at[w] \in {"test", "woken"}
    /\ Goes(w, at[w], IF keep_running[w] THEN "call" ELSE "exit")
    /\ UNCHANGED <<pending, handles, frames, keep_running, log>>

\* Sigusr1_handler and Sigusr2_handler: the line is in the file with fclose.
LogSignal(w, s) ==
    /\ s \in {"SIGUSR1", "SIGUSR2"} /\ HandlerEnds(w, s)
    /\ log' = [log EXCEPT ![w] = Append(@, s)]
    /\ UNCHANGED keep_running

SigtermHandler(w) ==
    /\ HandlerEnds(w, "SIGTERM")
    /\ keep_running' = [keep_running EXCEPT ![w] = FALSE]
    /\ UNCHANGED log

SignalDelivered(w) ==
    /\ Kill(w) \/ \E s \in CommandSignals : Interrupt(w, s)
    /\ UNCHANGED <<keep_running, log>>

CommandWorker(w) ==
    /\ program = "commands"
    /\ \/ InstallHandlers(w) \/ TestRunning(w)
       \/ CallPause(w) /\ UNCHANGED <<keep_running, log>>
       \/ SigtermHandler(w) \/ \E s \in CommandSignals : LogSignal(w, s)
       \/ SignalDelivered(w)
    /\ UNCHANGED managerVars

CommandsNext == Manager \/ \E w \in CommandWorkers : CommandWorker(w)

CommandsFairness ==
    LET v == <<commandVars, signalVars>> IN
    WF_v(Manager) /\ \A w \in CommandWorkers : WF_v(CommandWorker(w))

CommandsSpec ==
    /\ CommandsInit /\ CommandsPausing /\ CourseTypeOK
    /\ [][CommandsNext /\ UNCHANGED courseVars]_<<commandVars, signalVars, courseVars>>

-----------------------------------------------------------------------------
(* Properties *)

\* Nothing more will happen in this run.
CommandsOver == manager_pc = "exit" /\ \A w \in CommandWorkers : Idle(w)

\* Of the first n lines, those that are a command for w.
LinesFor(w, n) == {m \in 1 .. n : Valid(commands[m]) /\ commands[m][1] = w}

LogIs(w, l, n) ==
    /\ Len(l) = Cardinality(LinesFor(w, n))
    /\ \A m \in LinesFor(w, n) : l[Cardinality(LinesFor(w, m))] = commands[m][2]

\* When all is over, the log of each worker has the commands it was sent, in
\* order, though nothing but a second of sleep keeps two signals from merging
\* (manager main.c:84) and a handler may be interrupted by the next one.  Until
\* then, no handler that writes the log, with calls that must not be nested
\* (worker main.c:16-21), is interrupted by another one that does; SIGTERM's may
\* come on top of it.
LogsMatchCommands ==
    (program = "commands" /\ Calm) =>
        \A w \in CommandWorkers :
            /\ CommandsOver => LogIs(w, log[w], Len(commands))
            /\ \A i, j \in DOMAIN frames[w] : "SIGTERM" \notin {frames[w][i], frames[w][j]} => i = j

\* SIGTERM comes without a sleep after the last command (manager main.c:92): a
\* worker that is between its test of keep_running and its pause() then never
\* ends.  That can only be the worker of the last command.
OnlyLastAddresseeHangs ==
    (program = "commands" /\ Calm /\ CommandsOver)
        => \A w \in CommandWorkers : at[w] = "exit" \/ (w = target_pid /\ signal_num # "SIGTERM")

\* README.md: SIGTERM "Gracefully terminates worker processes".
WorkersTerminate ==
    <>(manager_pc = "exit" /\ \A w \in CommandWorkers : at[w] = "exit")
=============================================================================
