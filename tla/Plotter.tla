------------------------------- MODULE Plotter -------------------------------
(***************************************************************************)
(* Bono/C1.  The driver starts the time plotter and sends it SIGALRM at an *)
(* interval; the plotter prints in the handler how much time has passed    *)
(* since the alarm before.  Time is counted in intervals.  The driver goes *)
(* on for ever, here for ALARMS intervals.                                 *)
(***************************************************************************)
EXTENDS Integers, Pausing, Course

CONSTANT ALARMS     \* bound

ASSUME PlotterAssumption == ALARMS \in Nat

VARIABLES
    now,                    \* intervals since the start
    driver_pc,
    first_call, last_time, current_time,
    first_time,             \* the time of the first alarm
    elapsed                 \* what has been printed

plotterVars == <<now, driver_pc, first_call, last_time, current_time, first_time, elapsed>>

NotRead == -1

PlotterTypeOK ==
    /\ now \in 0 .. ALARMS
    /\ driver_pc \in {"fork", "usleep", "kill", "exit"}
    /\ first_call \in BOOLEAN
    /\ {last_time, first_time} \subseteq 0 .. ALARMS /\ current_time \in NotRead .. ALARMS
    /\ elapsed \in Seq(0 .. ALARMS)

PlotterInit ==
    /\ now = 0 /\ driver_pc = "fork"
    /\ first_call = TRUE
    /\ last_time = 0 /\ first_time = 0 /\ current_time = NotRead
    /\ elapsed = <<>>

PlotterPausing ==
    /\ at = [p \in {"plotter"} |-> "unborn"]
    /\ pending = [p \in {"plotter"} |-> {}]
    /\ handles = [p \in {"plotter"} |-> {}]
    /\ frames = [p \in {"plotter"} |-> <<>>]

-----------------------------------------------------------------------------
(* driver.c *)

ForkPlotter ==
    /\ driver_pc = "fork"
    /\ \/ driver_pc' = "usleep" /\ at' = [at EXCEPT !["plotter"] = "exec"]
       \/ driver_pc' = "exit" /\ UNCHANGED at
    /\ UNCHANGED <<now, pending>>

\* When calm, an interval is enough for the plotter.
Usleep ==
    /\ driver_pc = "usleep" /\ driver_pc' = "kill"
    /\ now < ALARMS /\ now' = now + 1
    /\ Calm => Idle("plotter")
    /\ UNCHANGED <<at, pending>>

\* A child that has ended is still there, as nobody waits for it: kill does not fail.
SendAlarm ==
    /\ driver_pc = "kill" /\ driver_pc' = "usleep"
    /\ Post("plotter", "SIGALRM")
    /\ UNCHANGED <<now, at>>

Driver ==
    /\ program = "plotter"
    /\ ForkPlotter \/ Usleep \/ SendAlarm
    /\ UNCHANGED <<first_call, last_time, current_time, first_time, elapsed, handles, frames>>

-----------------------------------------------------------------------------
(* main.c *)

\* execlp may fail.
ExecPlotter ==
    /\ \E next \in {"sigaction", "exit"} : Goes("plotter", "exec", next)
    /\ UNCHANGED <<pending, handles, frames>>

InstallAlarmHandler ==
    /\ Goes("plotter", "sigaction", "call") /\ Install("plotter", "SIGALRM")
    /\ UNCHANGED <<pending, frames>>

\* while (1) pause();
PauseAgain == Goes("plotter", "woken", "call") /\ UNCHANGED <<pending, handles, frames>>

PlotterMain ==
    /\ \/ ExecPlotter \/ InstallAlarmHandler \/ PauseAgain
       \/ CallPause("plotter") \/ Interrupt("plotter", "SIGALRM") \/ Kill("plotter")
    /\ UNCHANGED <<first_call, last_time, current_time, first_time, elapsed>>

\* clock_gettime.
GetTime ==
    /\ frames["plotter"] # <<>> /\ current_time = NotRead
    /\ current_time' = now
    /\ UNCHANGED <<signalVars, first_call, last_time, first_time, elapsed>>

\* Mutant of PrintElapsed: last_time is the time at which it has been printed.
PrintElapsedLate ==
    /\ current_time # NotRead /\ HandlerEnds("plotter", "SIGALRM")
    /\ IF first_call
       THEN first_time' = current_time /\ UNCHANGED elapsed
       ELSE elapsed' = Append(elapsed, current_time - last_time) /\ UNCHANGED first_time
    /\ first_call' = FALSE
    /\ last_time' = now
    /\ current_time' = NotRead

PrintElapsed ==
    /\ current_time # NotRead /\ HandlerEnds("plotter", "SIGALRM")
    /\ IF first_call
       THEN first_time' = current_time /\ UNCHANGED elapsed
       ELSE elapsed' = Append(elapsed, current_time - last_time) /\ UNCHANGED first_time
    /\ first_call' = FALSE
    /\ last_time' = current_time
    /\ current_time' = NotRead

TimePlotter ==
    /\ program = "plotter"
    /\ PlotterMain \/ GetTime \/ PrintElapsed
    /\ UNCHANGED <<now, driver_pc>>

PlotterNext == Driver \/ TimePlotter

PlotterSpec ==
    /\ PlotterInit /\ PlotterPausing /\ CourseTypeOK
    /\ [][PlotterNext /\ UNCHANGED courseVars]_<<plotterVars, signalVars, courseVars>>

-----------------------------------------------------------------------------
(* Properties *)

\* The times that are printed add up to the time from the first alarm to the last
\* one that was handled, however long a handler takes and although alarms merge
\* (main.c:43-59); and at a proper pace none does, so that each is 1.
ElapsedAddUp ==
    program = "plotter" =>
        /\ SumFunction(elapsed) = last_time - first_time
        /\ Calm => \A i \in DOMAIN elapsed : elapsed[i] = 1

\* All alarms are handled, if the plotter could be started.
PlotterEnds ==
    /\ driver_pc = "exit" \/ now = ALARMS
    /\ at["plotter"] \in Gone \/ Len(elapsed) = ALARMS - 1
=============================================================================
