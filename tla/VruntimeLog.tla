----------------------------- MODULE VruntimeLog -----------------------------
(***************************************************************************)
(* examfinal/exam3.  Half a second after its start, and once, a handler    *)
(* copies the vruntime of another process to a file and ends the program.  *)
(* The other process may end any time.                                     *)
(***************************************************************************)
EXTENDS Course

VARIABLES
    target,             \* the other process: "there" or "gone"
    vruntime_log,       \* "old" (or none), "empty" or "new"
    timer_set,
    vruntime_pc,
    status              \* of exit, "none" before

vruntimeVars == <<target, vruntime_log, timer_set, vruntime_pc, status>>

VruntimeTypeOK ==
    /\ target \in {"there", "gone"} /\ vruntime_log \in {"old", "empty", "new"}
    /\ timer_set \in BOOLEAN
    /\ vruntime_pc \in {"sigaction", "setitimer", "pause", "sched", "fgets", "open", "write", "exit"}
    /\ status \in {"none", "success", "failure"}

VruntimeInit ==
    /\ target = "there" /\ vruntime_log = "old" /\ timer_set = FALSE
    /\ vruntime_pc = "sigaction" /\ status = "none"

Log(from, to) ==
    /\ vruntime_pc = from /\ vruntime_pc' = to
    /\ status' = IF to # "exit" THEN "none" ELSE IF from = "write" THEN "success" ELSE "failure"

InstallAndSet ==
    /\ \/ Log("sigaction", "setitimer") /\ UNCHANGED timer_set
       \/ Log("setitimer", "pause") /\ timer_set' = TRUE
    /\ UNCHANGED vruntime_log

\* The alarm may come before pause() is called: the handler does all the work.
AlarmHandler ==
    /\ timer_set /\ Log("pause", "sched")
    /\ timer_set' = FALSE
    /\ UNCHANGED vruntime_log

\* fopen, and fgets of four lines: both need the process.
ReadSched ==
    /\ \/ Log("sched", IF target = "there" THEN "fgets" ELSE "exit")
       \/ Log("fgets", IF target = "there" THEN "open" ELSE "exit")
    /\ UNCHANGED <<vruntime_log, timer_set>>

\* fopen truncates, or fails.
OpenLog ==
    /\ \/ Log("open", "write") /\ vruntime_log' = "empty"
       \/ Log("open", "exit") /\ UNCHANGED vruntime_log
    /\ UNCHANGED timer_set

\* Nobody looks whether fwrite and fclose succeed.
WriteLog ==
    /\ Log("write", "exit")
    /\ vruntime_log' \in {"new", "empty"}
    /\ UNCHANGED timer_set

Logger ==
    /\ program = "vruntime"
    /\ InstallAndSet \/ AlarmHandler \/ ReadSched \/ OpenLog \/ WriteLog
    /\ UNCHANGED target

TargetEnds ==
    /\ program = "vruntime" /\ target = "there" /\ target' = "gone"
    /\ UNCHANGED <<vruntime_log, timer_set, vruntime_pc, status>>

VruntimeNext == Logger \/ TargetEnds

\* It ends; and when it fails the log is as it was.
VruntimeEnd == vruntime_pc = "exit" /\ (status = "failure" => vruntime_log = "old")
=============================================================================
