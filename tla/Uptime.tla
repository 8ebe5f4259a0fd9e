------------------------------- MODULE Uptime -------------------------------
(***************************************************************************)
(* Section5/L1.  Reads how long the system has been up and how long its    *)
(* processors have been idle, in seconds with two decimals, and writes a   *)
(* report with the uptime in days, hours, minutes and seconds and with the *)
(* utilisation in percent.  Times are in hundredths here.                  *)
(***************************************************************************)
EXTENDS Integers, Course

CONSTANTS
    UptimeFiles,        \* pairs that /proc/uptime may have
    CoreCounts          \* "processor" lines of /proc/cpuinfo

ASSUME UptimeAssumption ==
    UptimeFiles \subseteq Nat \X Nat /\ CoreCounts \subseteq Nat

VARIABLES
    uptime, idle_time, num_cores,
    activity_report,    \* of report.txt; empty without one
    uptime_pc

uptimeVars == <<uptime, idle_time, num_cores, activity_report, uptime_pc>>

UptimeTypeOK ==
    /\ {uptime, idle_time, num_cores} \subseteq Nat
    /\ uptime_pc \in {"uptime", "cpuinfo", "report", "exit"}

UptimeInit ==
    /\ uptime = 0 /\ idle_time = 0 /\ num_cores = 0
    /\ activity_report = <<>> /\ uptime_pc = "uptime"

\* A number of hundredths, divided in floating point and then cut off.
Cut(t, divisor) == t \div (100 * divisor)

\* Mutant of Convert_Time: hours are not cut to a day.
Convert_Time_Hours(t) ==
    [secs |-> Cut(t, 1) % 60, mins |-> Cut(t, 60) % 60, hours |-> Cut(t, 3600), days |-> Cut(t, 86400)]

\* (int) of a time that is no int is undefined; the inputs stay below.
Convert_Time(t) ==
    [secs |-> Cut(t, 1) % 60, mins |-> Cut(t, 60) % 60, hours |-> Cut(t, 3600) % 24, days |-> Cut(t, 86400)]

NotANumber == -1

\* 0 / 0 passes both tests that are to keep it between 0 and 100.
Utilisation ==
    IF uptime = 0 THEN IF idle_time = 0 THEN NotANumber ELSE 0
    ELSE LET percent == 100 - (100 * idle_time) \div (uptime * num_cores) IN
         IF percent < 0 THEN 0 ELSE percent

-----------------------------------------------------------------------------
(* main() *)

\* A file that cannot be read or opened ends the program.
Fails ==
    /\ uptime_pc # "exit" /\ uptime_pc' = "exit"
    /\ UNCHANGED <<uptime, idle_time, num_cores, activity_report>>

ReadUptime ==
    /\ uptime_pc = "uptime" /\ uptime_pc' = "cpuinfo"
    /\ \E f \in UptimeFiles : uptime' = f[1] /\ idle_time' = f[2]
    /\ UNCHANGED <<num_cores, activity_report>>

CountCores ==
    /\ uptime_pc = "cpuinfo"
    /\ num_cores' \in CoreCounts
    /\ uptime_pc' = IF num_cores' = 0 THEN "exit" ELSE "report"
    /\ UNCHANGED <<uptime, idle_time, activity_report>>

WriteReport ==
    /\ uptime_pc = "report" /\ uptime_pc' = "exit"
    /\ activity_report' = <<Convert_Time(uptime), Utilisation>>
    /\ UNCHANGED <<uptime, idle_time, num_cores>>

UptimeNext ==
    /\ program = "uptime"
    /\ Fails \/ ReadUptime \/ CountCores \/ WriteReport

-----------------------------------------------------------------------------
(* Properties *)

\* Days, hours, minutes and seconds, each cut off from a quotient of its own, add
\* up to the whole seconds of the uptime and stay in their ranges (main.c:9-17);
\* and the utilisation is between 0 and 100 once the system is up
\* (main.c:72-74).
TimeAddsUp ==
    activity_report # <<>> =>
        LET t == activity_report[1] IN
        /\ ((t.days * 24 + t.hours) * 60 + t.mins) * 60 + t.secs = uptime \div 100
        /\ t.hours \in 0 .. 23 /\ t.mins \in 0 .. 59 /\ t.secs \in 0 .. 59
        /\ uptime > 0 => activity_report[2] \in 0 .. 100

\* The program ends, and its report is right.
UptimeEnd == uptime_pc = "exit" /\ TimeAddsUp
=============================================================================
