------------------------------- MODULE Decoder -------------------------------
(***************************************************************************)
(* PP2/decode_c and decode_py.  One thread for each key decodes the pixels *)
(* of a file and counts them under progress_mutex; the handler of a        *)
(* repeating SIGALRM takes the same mutex and prints all counters.         *)
(*                                                                         *)
(* In C the signal goes to the main thread if that one does not have it    *)
(* masked, and otherwise to any other (external); it is masked in a thread *)
(* that runs its handler.  Python calls the handler in the main thread, on *)
(* top of itself if it is running there.  The mutex is not recursive: a    *)
(* thread whose handler wants it while it holds it waits for ever.         *)
(***************************************************************************)
EXTENDS Integers, Sequences, SequencesExt, Course

CONSTANTS
    NUM_THREADS,        \* 4 in the source
    TOTAL_PIXELS,       \* 100 * 100
    MAX_NESTED          \* bound: handlers on top of one another

ASSUME DecoderAssumption == NUM_THREADS \in Nat \ {0} /\ TOTAL_PIXELS \in Nat /\ MAX_NESTED \in Nat \ {0}

Decoders == 0 .. NUM_THREADS - 1
MainThread == -1
DecoderThreads == {MainThread} \cup Decoders
NoThread == -2

VARIABLES
    progress, progress_mutex,
    written,            \* pixels handed to write(), whose result nobody looks at
    gave_up,            \* threads that have complained and left early
    pixels_in_file,     \* encrypt.bin may be too short
    decoder_pc,
    alarm,              \* SIGALRM is pending
    timer,              \* "off" or "on"
    tick_pc,            \* of each TryTest on each thread, the last on top
    next_line_of_report, tick_report

decoderVars == <<progress, progress_mutex, written, gave_up, pixels_in_file, decoder_pc,
                 alarm, timer, tick_pc, next_line_of_report, tick_report>>
tickVars == <<alarm, tick_pc, next_line_of_report, tick_report>>

DecoderTypeOK ==
    /\ progress \in [Decoders -> 0 .. TOTAL_PIXELS]
    /\ progress_mutex \in DecoderThreads \cup {NoThread}
    /\ written \in [Decoders -> 0 .. TOTAL_PIXELS]
    /\ gave_up \subseteq DecoderThreads
    /\ decoder_pc \in [DecoderThreads -> {"signal", "timer", "create", "join", "read", "lock",
                                          "count", "unlock", "exit", "unborn"}]
    /\ alarm \in BOOLEAN /\ timer \in {"off", "on"}
    /\ \A t \in DecoderThreads :
          tick_pc[t] \in Seq({"lock", "report"}) /\ Len(tick_pc[t]) <= MAX_NESTED
    /\ next_line_of_report \in 0 .. NUM_THREADS
    /\ tick_report \in [Decoders -> 0 .. TOTAL_PIXELS]

DecoderInit ==
    /\ progress = [d \in Decoders |-> 0]
    /\ progress_mutex = NoThread
    /\ written = [d \in Decoders |-> 0]
    /\ gave_up = {}
    /\ pixels_in_file \in 0 .. TOTAL_PIXELS
    /\ decoder_pc = [t \in DecoderThreads |-> IF t = MainThread THEN "signal" ELSE "unborn"]
    /\ alarm = FALSE
    /\ timer = "off"
    /\ tick_pc = [t \in DecoderThreads |-> <<>>]
    /\ next_line_of_report = 0
    /\ tick_report = [d \in Decoders |-> 0]

\* A thread goes on when no handler is on top of it.
Decoding(t, from, to) ==
    tick_pc[t] = <<>> /\ decoder_pc[t] = from /\ decoder_pc' = [decoder_pc EXCEPT ![t] = to]

Python == program = "decoder_py"

DecoderRuns == program \in {"decoder", "decoder_py"}

\* The handler on top goes on; to <<>> when it returns.
Ticking(t, from, to) ==
    /\ tick_pc[t] # <<>> /\ Last(tick_pc[t]) = from
    /\ tick_pc' = [tick_pc EXCEPT ![t] = Front(@) \o to]

-----------------------------------------------------------------------------
(* SIGALRM *)

\* Every 200 ms: when calm, the handler is done long before the next one.
TimerExpires ==
    /\ timer = "on" /\ ~alarm
    /\ Calm => \A t \in DecoderThreads : tick_pc[t] = <<>>
    /\ alarm' = TRUE
    /\ UNCHANGED <<tick_pc, next_line_of_report, tick_report, progress_mutex>>

Alive(t) == decoder_pc[t] \notin {"unborn", "exit"}

Deliver(t) ==
    /\ alarm /\ Alive(t)
    /\ IF Python
       THEN t = MainThread /\ Len(tick_pc[t]) < MAX_NESTED
       ELSE tick_pc[t] = <<>> /\ (t = MainThread \/ tick_pc[MainThread] # <<>>)
    /\ tick_pc' = [tick_pc EXCEPT ![t] = Append(@, "lock")]
    /\ alarm' = FALSE
    /\ UNCHANGED <<next_line_of_report, tick_report, progress_mutex>>

TickLock(t) ==
    /\ Ticking(t, "lock", <<"report">>)
    /\ progress_mutex = NoThread /\ progress_mutex' = t
    /\ next_line_of_report' = 0
    /\ UNCHANGED <<alarm, tick_report>>

ReportLine(t) ==
    /\ Ticking(t, "report", <<"report">>) /\ next_line_of_report < NUM_THREADS
    /\ tick_report' = [tick_report EXCEPT ![next_line_of_report] = progress[next_line_of_report]]
    /\ next_line_of_report' = next_line_of_report + 1
    /\ UNCHANGED <<alarm, progress_mutex>>

TickUnlock(t) ==
    /\ next_line_of_report = NUM_THREADS /\ Ticking(t, "report", <<>>)
    /\ progress_mutex' = NoThread
    /\ UNCHANGED <<alarm, next_line_of_report, tick_report>>

TryTest(t) ==
    /\ DecoderRuns
    /\ TickLock(t) \/ ReportLine(t) \/ TickUnlock(t)
    /\ UNCHANGED <<progress, written, gave_up, pixels_in_file, decoder_pc, timer>>

Alarm ==
    /\ DecoderRuns
    /\ TimerExpires \/ \E t \in DecoderThreads : Deliver(t)
    /\ UNCHANGED <<progress, written, gave_up, pixels_in_file, decoder_pc, timer>>

-----------------------------------------------------------------------------
(* main() *)

\* In Python the program ends here if there is nothing to decode.
InstallTryTest ==
    /\ \/ Decoding(MainThread, "signal", "timer")
       \/ Python /\ pixels_in_file = 0 /\ Decoding(MainThread, "signal", "exit")
    /\ UNCHANGED <<timer, gave_up, progress_mutex, tickVars>>

Complains(t) == gave_up' = gave_up \cup {t}

\* setitimer: without it the program ends.
SetTimer ==
    /\ \/ Decoding(MainThread, "timer", "create") /\ timer' = "on" /\ UNCHANGED gave_up
       \/ Decoding(MainThread, "timer", "exit") /\ Complains(MainThread) /\ UNCHANGED timer
    /\ UNCHANGED <<progress_mutex, tickVars>>

\* pthread_create, one after the other.
CreateDecoder ==
    /\ tick_pc[MainThread] = <<>> /\ decoder_pc[MainThread] = "create"
    /\ \E d \in Decoders :
          /\ decoder_pc[d] = "unborn" /\ \A e \in 0 .. d - 1 : decoder_pc[e] # "unborn"
          /\ decoder_pc' = [decoder_pc EXCEPT ![d] = "read",
                               ![MainThread] = IF d = NUM_THREADS - 1 THEN "join" ELSE "create"]
    /\ UNCHANGED <<timer, gave_up, progress_mutex, tickVars>>

\* "return 1" ends the process, wherever its other threads are.  In Python the
\* exception leaves main(), and the interpreter joins the threads that there are.
CreateFails ==
    /\ tick_pc[MainThread] = <<>> /\ decoder_pc[MainThread] = "create"
    /\ Complains(MainThread)
    /\ \/ /\ Python
          /\ decoder_pc' = [decoder_pc EXCEPT ![MainThread] = "join"]
          /\ UNCHANGED <<timer, progress_mutex, tick_pc>>
       \/ /\ ~Python
          /\ decoder_pc' = [t \in DecoderThreads |-> "exit"]
          /\ timer' = "off" /\ progress_mutex' = NoThread
          /\ tick_pc' = [t \in DecoderThreads |-> <<>>]
    /\ UNCHANGED <<alarm, next_line_of_report, tick_report>>

\* pthread_join of all, and the timer off.
JoinDecoders ==
    /\ \A d \in Decoders : decoder_pc[d] \in {"exit", "unborn"}
    /\ Decoding(MainThread, "join", "exit")
    /\ timer' = "off"
    /\ UNCHANGED <<gave_up, progress_mutex, tickVars>>

DecoderMain ==
    /\ DecoderRuns
    /\ InstallTryTest \/ SetTimer \/ CreateDecoder \/ CreateFails \/ JoinDecoders
    /\ UNCHANGED <<progress, written, pixels_in_file>>

-----------------------------------------------------------------------------
(* Decode *)

\* A pixel is read and written; without encrypt.bin there is none.
DecodePixel(d) ==
    /\ written[d] < pixels_in_file
    /\ Decoding(d, "read", "lock")
    /\ written' = [written EXCEPT ![d] = @ + 1]
    /\ UNCHANGED <<progress, progress_mutex, gave_up>>

EndOfPixels(d) ==
    /\ written[d] = pixels_in_file
    /\ Decoding(d, "read", "exit")
    /\ UNCHANGED <<written, progress, progress_mutex, gave_up>>

\* Before the first pixel, a thread that cannot open one of its three files leaves.
\* In Python any exception of the loop has it leave, a pixel half written.
LeaveEarly(d) ==
    /\ Decoding(d, "read", "exit")
    /\ \/ (Python \/ written[d] = 0) /\ UNCHANGED written
       \/ /\ Python /\ written[d] < pixels_in_file
          /\ written' = [written EXCEPT ![d] = @ + 1]
    /\ Complains(d)
    /\ UNCHANGED <<progress, progress_mutex>>

\* Mutant of LockProgress: each thread has a counter of its own, why lock.
SkipLockProgress(d) ==
    /\ Decoding(d, "lock", "count")
    /\ UNCHANGED <<written, progress, progress_mutex, gave_up>>

LockProgress(d) ==
    /\ Decoding(d, "lock", "count")
    /\ progress_mutex = NoThread /\ progress_mutex' = d
    /\ UNCHANGED <<written, progress, gave_up>>

\* Mutant of CountPixel: the count of the last thread for all.
CountPixelLast(d) ==
    /\ Decoding(d, "count", "unlock")
    /\ progress' = [progress EXCEPT ![d] = progress[NUM_THREADS - 1] + 1]
    /\ UNCHANGED <<written, progress_mutex, gave_up>>

CountPixel(d) ==
    /\ Decoding(d, "count", "unlock")
    /\ progress' = [progress EXCEPT ![d] = @ + 1]
    /\ UNCHANGED <<written, progress_mutex, gave_up>>

UnlockProgress(d) ==
    /\ Decoding(d, "unlock", "read")
    /\ progress_mutex' = NoThread
    /\ UNCHANGED <<written, progress, gave_up>>

Decode(d) ==
    /\ DecoderRuns
    /\ \/ DecodePixel(d) \/ EndOfPixels(d) \/ LeaveEarly(d) \/ LockProgress(d) \/ CountPixel(d)
       \/ UnlockProgress(d)
    /\ UNCHANGED <<pixels_in_file, timer, tickVars>>

DecoderNext ==
    DecoderMain \/ Alarm \/ (\E d \in Decoders : Decode(d)) \/ \E t \in DecoderThreads : TryTest(t)

\* Between two alarms, if need be, a thread that can go on does so.  Which one
\* does not matter: each of them comes to its end in finitely many steps.
DecoderFairness ==
    /\ SF_decoderVars(DecoderMain \/ \E d \in Decoders : Decode(d))
    /\ \A t \in DecoderThreads : WF_decoderVars(TryTest(t))

DecoderSpec == DecoderInit /\ CourseTypeOK /\ [][DecoderNext /\ UNCHANGED courseVars]_<<decoderVars, courseVars>>

-----------------------------------------------------------------------------
(* Properties *)

\* A tick prints the counters of one moment: while it reads them, one by one,
\* those it has read do not change (main.c:22-30, 89-91).
TickIsSnapshot ==
    \A t \in DecoderThreads : "report" \in ToSet(tick_pc[t]) =>
        \A d \in 0 .. next_line_of_report - 1 : tick_report[d] = progress[d]

\* When main() is through, every thread that has not complained has decoded every
\* pixel of the file and counted it.  In C one that has complained has done none:
\* the others go on without it (main.c:53-59).  And however the threads end, by the
\* "return 1" of main() in the middle of a pixel (main.c:120-123) or in Python by an
\* exception there, the counters miss at most that one pixel of each.
AllCounted ==
    decoder_pc[MainThread] = "exit" => \A d \in Decoders :
        /\ {d, MainThread} \cap gave_up = {} =>
               progress[d] = written[d] /\ written[d] = pixels_in_file
        /\ d \in gave_up /\ ~Python => written[d] = 0
        /\ progress[d] \in {written[d], written[d] - 1}

\* And it comes through if a tick is always over before the next.  If not, the
\* next one may interrupt a thread that holds the mutex, and wait for it there:
\* in C one of the decoders (main.c:22), in Python the tick itself (main.py:17).
Decoded == decoder_pc[MainThread] = "exit"
=============================================================================
