------------------------------ MODULE Processor ------------------------------
(***************************************************************************)
(* The data processor starts data_creator, which writes MAX_SIGNALS        *)
(* batches of data to shared memory and sends SIGUSR2 after each, and      *)
(* data_logger, which receives the averages.  These two are programs       *)
(* without a source here, modelled from what the processor expects of them *)
(* (external).  There are two versions of the processor, exam1_structure   *)
(* and exam1_structurefixed, which differ in how they start.               *)
(*                                                                         *)
(* Element i of batch k is k; for the average the model has the sum.       *)
(***************************************************************************)
EXTENDS Integers, Pausing, Course

CONSTANTS
    NUM_ELEMENTS,       \* 10 in the source
    MAX_SIGNALS,        \* 5
    MQ_MAXMSG           \* attr.mq_maxmsg (10)

ASSUME ProcessorAssumption ==
    /\ NUM_ELEMENTS \in Nat \ {0} /\ MAX_SIGNALS \in Nat \ {0} /\ MQ_MAXMSG \in Nat \ {0}

VARIABLES
    structure,          \* "first" or "fixed"
    names,              \* which of "shm" and "mq" have been created and not unlinked
    complaints,         \* what perror() has named: the calls that failed
    shm_data, signal_count,
    sum, next_element,  \* of the loop over the elements
    messages,           \* the queue to the logger
    received,           \* averages logged
    creator_pc, batch, logger_pc

processorVars == <<structure, names, complaints>>
dataVars == <<processorVars, shm_data, signal_count, sum, next_element, messages, received,
              creator_pc, batch, logger_pc>>

Calls == {"sigaction", "shm_open", "mmap", "mq_open", "fork creator", "execl creator",
          "fork logger", "execl logger", "mq_send"}

ProcessorTypeOK ==
    /\ structure \in {"first", "fixed"} /\ names \subseteq {"shm", "mq"}
    /\ complaints \subseteq Calls
    /\ shm_data \in [0 .. NUM_ELEMENTS - 1 -> 0 .. MAX_SIGNALS]
    /\ signal_count \in 0 .. MAX_SIGNALS
    /\ sum \in Nat /\ next_element \in 0 .. NUM_ELEMENTS
    /\ messages \in Seq(Nat) /\ Len(messages) <= MQ_MAXMSG
    /\ received \in Seq(Nat)
    /\ creator_pc \in {"unborn", "write", "signal", "exit"} /\ batch \in 1 .. MAX_SIGNALS + 1
    /\ logger_pc \in {"unborn", "receive", "exit"}

ProcessorInit ==
    /\ structure \in {"first", "fixed"} /\ names = {} /\ complaints = {}
    /\ shm_data = [i \in 0 .. NUM_ELEMENTS - 1 |-> 0]
    /\ signal_count = 0 /\ sum = 0 /\ next_element = 0
    /\ messages = <<>> /\ received = <<>>
    /\ creator_pc = "unborn" /\ batch = 1
    /\ logger_pc = "unborn"

\* What main() does before it waits, in the order of each version.
Steps ==
    IF structure = "fixed"
    THEN <<"sigaction", "shm_open", "mmap", "mq_open", "fork creator", "fork logger", "test">>
    ELSE <<"shm_open", "mmap", "mq_open", "sigaction", "fork creator", "fork logger", "test">>

ProcessorPausing ==
    /\ at = [p \in {"processor"} |-> Head(Steps)]
    /\ pending = [p \in {"processor"} |-> {}]
    /\ handles = [p \in {"processor"} |-> {}]
    /\ frames = [p \in {"processor"} |-> <<>>]

Processor(from, to) == Goes("processor", from, to) /\ UNCHANGED <<pending, frames>>

-----------------------------------------------------------------------------
(* data_creator and data_logger *)

\* The processor is in pause() or waitpid(), and no signal is on its way.
Waiting ==
    \/ Idle("processor")
    \/ at["processor"] \in {"wait", "reap"} /\ pending["processor"] = {} /\ frames["processor"] = <<>>

\* A second between the batches, for the processor to come back to pause().
WriteElement ==
    /\ creator_pc = "write" /\ batch <= MAX_SIGNALS
    /\ Calm => Waiting
    /\ \E i \in 0 .. NUM_ELEMENTS - 1 :
          /\ \A j \in 0 .. i - 1 : shm_data[j] = batch
          /\ shm_data[i] # batch
          /\ shm_data' = [shm_data EXCEPT ![i] = batch]
          /\ creator_pc' = IF i = NUM_ELEMENTS - 1 THEN "signal" ELSE "write"
    /\ UNCHANGED <<signalVars, batch>>

SignalProcessor ==
    /\ creator_pc = "signal"
    /\ Post("processor", "SIGUSR2")
    /\ batch' = batch + 1
    /\ creator_pc' = IF batch' > MAX_SIGNALS THEN "exit" ELSE "write"
    /\ UNCHANGED <<shm_data, at, handles, frames>>

DataCreator ==
    /\ program = "processor"
    /\ WriteElement \/ SignalProcessor
    /\ UNCHANGED <<processorVars, signal_count, sum, next_element, messages, received, logger_pc>>

\* It ends after MAX_SIGNALS averages.
DataLogger ==
    /\ program = "processor"
    /\ logger_pc = "receive" /\ messages # <<>>
    /\ received' = Append(received, Head(messages))
    /\ messages' = Tail(messages)
    /\ logger_pc' = IF Len(received') = MAX_SIGNALS THEN "exit" ELSE "receive"
    /\ UNCHANGED <<signalVars, processorVars, shm_data, signal_count, sum, next_element, creator_pc, batch>>

-----------------------------------------------------------------------------
(* The data processor *)

\* The step succeeds, or the program says so and ends.
Prepare(step) == \E i \in DOMAIN Steps : Steps[i] = step /\ Processor(step, Steps[i + 1])

Complain(call) == complaints' = complaints \cup {call}

GiveUp(step) == Processor(step, "exit") /\ Complain(step)

\* Without a handler the program unlinks what it has made until then: in the fixed
\* version nothing.
InstallSignalHandler ==
    /\ \/ /\ Prepare("sigaction") /\ Install("processor", "SIGUSR2")
          /\ UNCHANGED <<names, complaints>>
       \/ /\ GiveUp("sigaction") /\ names' = {}
          /\ UNCHANGED handles
    /\ UNCHANGED <<structure, shm_data, signal_count, sum, next_element, messages, received,
                   creator_pc, batch, logger_pc>>

\* shm_open; ftruncate and mmap; mq_open.  Without the last two the segment is
\* unlinked.  The first version notices at mmap that shm_open has failed.
CreateObjects ==
    /\ \/ /\ \/ Prepare("shm_open") /\ names' = names \cup {"shm"}
             \/ structure = "first" /\ Prepare("shm_open") /\ UNCHANGED names
             \/ "shm" \in names /\ Prepare("mmap") /\ UNCHANGED names
             \/ Prepare("mq_open") /\ names' = names \cup {"mq"}
          /\ UNCHANGED complaints
       \/ structure = "fixed" /\ GiveUp("shm_open") /\ UNCHANGED names
       \/ (GiveUp("mmap") \/ GiveUp("mq_open")) /\ names' = names \ {"shm"}
    /\ UNCHANGED <<handles, structure, shm_data, signal_count, sum, next_element, messages, received,
                   creator_pc, batch, logger_pc>>

\* The child becomes data_creator, or complains and exits: main() does not learn of it.
ForkCreator ==
    /\ Prepare("fork creator")
    /\ \/ creator_pc' = "write" /\ UNCHANGED complaints
       \/ creator_pc' = "exit" /\ Complain("execl creator")
    /\ UNCHANGED <<handles, structure, names, shm_data, signal_count, sum, next_element, messages,
                   received, batch, logger_pc>>

ForkLogger ==
    /\ Prepare("fork logger")
    /\ \/ logger_pc' = "receive" /\ UNCHANGED complaints
       \/ logger_pc' = "exit" /\ Complain("execl logger")
    /\ UNCHANGED <<handles, structure, names, shm_data, signal_count, sum, next_element, messages,
                   received, creator_pc, batch>>

\* Mutant of ForkFails: the creator goes on.
ForkFailsOnly ==
    /\ GiveUp("fork creator") \/ GiveUp("fork logger")
    /\ names' = IF structure = "fixed" THEN names ELSE {}
    /\ UNCHANGED <<handles, structure, shm_data, signal_count, sum, next_element, messages, received,
                   creator_pc, batch, logger_pc>>

\* A creator that has been started is killed and waited for; only the first
\* version unlinks its objects.
ForkFails ==
    /\ \/ GiveUp("fork creator") /\ UNCHANGED creator_pc
       \/ GiveUp("fork logger") /\ creator_pc' = "exit"
    /\ names' = IF structure = "fixed" THEN names ELSE {}
    /\ UNCHANGED <<handles, structure, shm_data, signal_count, sum, next_element, messages, received,
                   batch, logger_pc>>

\* Mutant of TestCount: the loop without pause().
TestCountBusy ==
    /\ Processor("test", IF signal_count < MAX_SIGNALS THEN "woken" ELSE "wait")
    /\ UNCHANGED <<handles, dataVars>>

\* while (signal_count < MAX_SIGNALS) pause();
TestCount ==
    /\ Processor("test", IF signal_count < MAX_SIGNALS THEN "call" ELSE "wait")
    /\ UNCHANGED <<handles, dataVars>>

\* Mutant of StartSum: sum is initialised once, before the loop.
StartSumOnce ==
    /\ Processor("woken", IF structure = "first" \/ signal_count <= MAX_SIGNALS THEN "sum" ELSE "test")
    /\ next_element' = 0
    /\ UNCHANGED <<handles, processorVars, shm_data, signal_count, sum, messages, received, creator_pc, batch, logger_pc>>

\* if (signal_count <= MAX_SIGNALS), in the fixed version.
StartSum ==
    /\ Processor("woken", IF structure = "first" \/ signal_count <= MAX_SIGNALS THEN "sum" ELSE "test")
    /\ sum' = 0 /\ next_element' = 0
    /\ UNCHANGED <<handles, processorVars, shm_data, signal_count, messages, received, creator_pc, batch, logger_pc>>

AddElement ==
    /\ next_element < NUM_ELEMENTS /\ Processor("sum", "sum")
    /\ sum' = sum + shm_data[next_element]
    /\ next_element' = next_element + 1
    /\ UNCHANGED <<handles, processorVars, shm_data, signal_count, messages, received, creator_pc, batch, logger_pc>>

\* If it cannot send the average it leaves the loop.
SendAverage ==
    /\ next_element = NUM_ELEMENTS
    /\ \/ /\ Processor("sum", "test")
          /\ Len(messages) < MQ_MAXMSG
          /\ messages' = Append(messages, sum)
          /\ UNCHANGED complaints
       \/ /\ Processor("sum", "wait")
          /\ Complain("mq_send")
          /\ UNCHANGED messages
    /\ UNCHANGED <<handles, structure, names, shm_data, signal_count, sum, next_element, received,
                   creator_pc, batch, logger_pc>>

\* waitpid for one child and then the other; unlink.
WaitForChildren ==
    /\ \/ Processor("wait", "reap") /\ creator_pc = "exit" /\ UNCHANGED names
       \/ Processor("reap", "unlink") /\ logger_pc = "exit" /\ UNCHANGED names
       \/ Processor("unlink", "exit") /\ names' = {}
    /\ UNCHANGED <<handles, structure, complaints, shm_data, signal_count, sum, next_element, messages,
                   received, creator_pc, batch, logger_pc>>

\* The handler is installed without SA_RESTART, and main() looks at no result: a
\* waitpid() that the handler has interrupted is over.
InterruptsWait ==
    /\ frames["processor"] = <<"SIGUSR2">> /\ pending["processor"] = {}
    /\ \/ at["processor"] = "wait" /\ at' = [at EXCEPT !["processor"] = "reap"]
       \/ at["processor"] = "reap" /\ at' = [at EXCEPT !["processor"] = "unlink"]
    /\ frames' = [frames EXCEPT !["processor"] = <<>>]
    /\ UNCHANGED <<pending, handles>>

\* signal_count++: nothing else runs in this process meanwhile.
SignalHandler ==
    /\ HandlerEnds("processor", "SIGUSR2") \/ InterruptsWait
    /\ signal_count' = signal_count + 1
    /\ UNCHANGED <<processorVars, shm_data, sum, next_element, messages, received, creator_pc, batch, logger_pc>>

DataProcessor ==
    /\ program = "processor"
    /\ \/ InstallSignalHandler \/ CreateObjects \/ ForkCreator \/ ForkLogger \/ ForkFails
       \/ TestCount \/ StartSum \/ AddElement \/ SendAverage \/ WaitForChildren
       \/ SignalHandler
       \/ CallPause("processor") /\ UNCHANGED dataVars
       \/ Interrupt("processor", "SIGUSR2") /\ UNCHANGED dataVars

ProcessorNext == DataProcessor \/ DataCreator \/ DataLogger

ProcessorFairness ==
    LET v == <<dataVars, signalVars>> IN
    WF_v(DataProcessor) /\ WF_v(DataCreator) /\ WF_v(DataLogger)

ProcessorSpec ==
    /\ ProcessorInit /\ ProcessorPausing /\ CourseTypeOK
    /\ [][ProcessorNext /\ UNCHANGED courseVars]_<<dataVars, signalVars, courseVars>>

-----------------------------------------------------------------------------
(* Properties *)

Averages == received \o messages

\* At a proper pace the averages are those of the batches, in order
\* (test_performance.sh: 5.5, 15.5, 25.5, 35.5, 45.5).  Whatever the pace, no
\* average without a signal: each return of pause() has a signal of its own, also
\* when signals merge or come outside of pause().
AveragesRight ==
    program = "processor" =>
        /\ Calm => Averages = [k \in 1 .. Len(Averages) |-> k * NUM_ELEMENTS]
        /\ Len(Averages) <= signal_count

\* Wherever main() leaves, from the first failing call to the last line, no child
\* is left behind; and nothing that a later run would find under its names.  There
\* are two exceptions.  Where a fork fails the fixed version forgets to unlink
\* (main.c:72-75, 88-93).  And where mq_send fails (main.c:118-121) main() waits for
\* the children in waitpid(), which the signals of the creator interrupt.
NothingLeftBehind ==
    (program = "processor" /\ at["processor"] = "exit") =>
        /\ "mq_send" \in complaints
           \/ (creator_pc \in {"unborn", "exit"} /\ logger_pc \in {"unborn", "exit"})
        /\ \/ names = {}
           \/ /\ structure = "fixed" /\ complaints \cap {"fork creator", "fork logger"} # {}
              /\ names = {"shm", "mq"}

\* If the pace is proper the processor ends, and unless it has complained with all
\* averages logged.  It does not end when data_creator could not be started: nobody
\* signals it in pause() (main.c:81-83, 104).  It may not end either when mq_send has
\* failed: it waits for a logger that waits for the rest (main.c:127).  At another
\* pace, a signal that comes between the test and pause() (main.c:103) counts, but
\* its average is never sent; two that merge are one.
ProcessorEnds ==
    \/ at["processor"] = "exit" /\ (complaints = {} => Len(received) = MAX_SIGNALS)
    \/ at["processor"] = "pause" /\ "execl creator" \in complaints
    \/ at["processor"] = "reap" /\ "mq_send" \in complaints
=============================================================================
