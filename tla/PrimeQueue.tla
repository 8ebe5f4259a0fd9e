------------------------------ MODULE PrimeQueue ------------------------------
(***************************************************************************)
(* Section2/L3.  The main program sends the numbers of a file, and then    *)
(* one -1 for each of its two workers, through a POSIX message queue of    *)
(* MAXMSG messages; the workers test numbers for primality until they      *)
(* receive a -1.  mq_send waits while the queue is full, mq_receive while  *)
(* it is empty and takes the oldest message of the highest priority: all   *)
(* are sent with priority 0.                                               *)
(***************************************************************************)
EXTENDS Integers, Sequences, SequencesExt, FiniteSets, Course

CONSTANTS
    MAXMSG,         \* attr.mq_maxmsg (5)
    QueueRuns,      \* pairs of numbers.txt and what a killed run left in the queue
    Workers         \* the two worker processes

ASSUME PrimeQueueAssumption ==
    /\ MAXMSG \in Nat \ {0} /\ Workers # {}
    /\ \A r \in QueueRuns : r \in Seq(Int) \X Seq(Int) /\ Len(r[2]) <= MAXMSG

VARIABLES
    numbers,        \* numbers.txt
    left_over,      \* messages of a run that was killed: mq_open has no O_EXCL
    next_number,    \* how many fscanf has read
    pills,          \* -1 messages sent
    sender_pc,
    queue,
    worker_pc,
    found           \* "PRIME FOUND %lld", in the order printed

queueVars == <<numbers, left_over, next_number, pills, sender_pc, queue, worker_pc, found>>

PILL == -1

PrimeQueueInit ==
    /\ \E r \in QueueRuns : numbers = r[1] /\ left_over = r[2]
    /\ next_number = 0
    /\ pills = 0
    /\ sender_pc = "numbers"
    /\ queue = left_over
    /\ worker_pc = [w \in Workers |-> "receive"]
    /\ found = <<>>

-----------------------------------------------------------------------------
(* The main program *)

\* mq_send, priority 0: behind everything else.
Send(m) == Len(queue) < MAXMSG /\ queue' = Append(queue, m)

\* Mutant of SendPill: with a higher priority, ahead of everything else.
SendPillFirst ==
    /\ sender_pc = "pills"
    /\ Len(queue) < MAXMSG
    /\ queue' = <<PILL>> \o queue
    /\ pills' = pills + 1
    /\ sender_pc' = IF pills' = 2 THEN "wait" ELSE "pills"
    /\ UNCHANGED <<next_number, worker_pc, found>>

SendNumber ==
    /\ sender_pc = "numbers" /\ next_number < Len(numbers)
    /\ Send(numbers[next_number + 1])
    /\ next_number' = next_number + 1
    /\ UNCHANGED <<pills, sender_pc, worker_pc, found>>

EndOfNumbers ==
    /\ sender_pc = "numbers" /\ next_number = Len(numbers)
    /\ sender_pc' = "pills"
    /\ UNCHANGED <<next_number, pills, queue, worker_pc, found>>

SendPill ==
    /\ sender_pc = "pills"
    /\ Send(PILL)
    /\ pills' = pills + 1
    /\ sender_pc' = IF pills' = 2 THEN "wait" ELSE "pills"
    /\ UNCHANGED <<next_number, worker_pc, found>>

\* waitpid for both workers, then mq_unlink: what is in the queue is gone.
WaitAndUnlink ==
    /\ sender_pc = "wait"
    /\ \A w \in Workers : worker_pc[w] = "exit"
    /\ sender_pc' = "exit"
    /\ queue' = <<>>
    /\ UNCHANGED <<next_number, pills, worker_pc, found>>

Sender ==
    /\ program = "queue"
    /\ SendNumber \/ EndOfNumbers \/ SendPill \/ WaitAndUnlink
    /\ UNCHANGED <<numbers, left_over>>

-----------------------------------------------------------------------------
(* A worker *)

\* Mutant of is_prime: stops before the square root.
is_prime_short(n) == n > 1 /\ ~\E i \in 2 .. n : i * i < n /\ n % i = 0

\* Trial division up to the square root.
is_prime(n) == n > 1 /\ ~\E i \in 2 .. n : i * i <= n /\ n % i = 0

\* Receive one message; the number is tested before the next one is received.
Receive(w) ==
    /\ program = "queue"
    /\ worker_pc[w] = "receive" /\ queue # <<>>
    /\ queue' = Tail(queue)
    /\ IF Head(queue) = PILL
       THEN worker_pc' = [worker_pc EXCEPT ![w] = "exit"] /\ UNCHANGED found
       ELSE /\ found' = IF is_prime(Head(queue)) THEN Append(found, Head(queue)) ELSE found
            /\ UNCHANGED worker_pc
    /\ UNCHANGED <<numbers, left_over, next_number, pills, sender_pc>>

PrimeQueueNext == Sender \/ \E w \in Workers : Receive(w)

PrimeQueueFairness ==
    /\ WF_queueVars(Sender)
    /\ \A w \in Workers : WF_queueVars(Receive(w))

PrimeQueueSpec == PrimeQueueInit /\ [][PrimeQueueNext /\ UNCHANGED courseVars]_<<queueVars, courseVars>>

-----------------------------------------------------------------------------
(* Properties *)

AllNumbers == left_over \o numbers

\* A -1 ends a worker wherever it comes from: neither the file nor the queue of a
\* run that was killed may contain it.
Proper == PILL \notin ToSet(AllNumbers)

QueueTypeOK ==
    /\ next_number \in 0 .. Len(numbers)
    /\ pills \in 0 .. 2
    /\ sender_pc \in {"numbers", "pills", "wait", "exit"}
    /\ queue \in Seq(Int) /\ Len(queue) <= MAXMSG
    /\ worker_pc \in [Workers -> {"receive", "exit"}]
    /\ found \in Seq(Int)

\* n is prime if nothing but 1 and n divides it.
Prime(n) == n > 1 /\ \A d \in 2 .. n - 1 : n % d # 0

Occurrences(n, s) == Cardinality({i \in DOMAIN s : s[i] = n})

\* The -1 messages come last: a worker that has ended (worker/main.c:50) leaves no
\* number behind for the other one, which its own -1 may end at any time.  At the
\* end each prime of the file, and of the queue a killed run left (main.c:22), was
\* found as often as it is there (test_performance.sh:128); and even if an old -1
\* ends a worker early, nothing else is found, and nothing twice.
PrimesFound ==
    /\ (Proper /\ \E w \in Workers : worker_pc[w] = "exit")
          => next_number = Len(numbers) /\ ToSet(queue) \subseteq {PILL}
    /\ \A n \in ToSet(AllNumbers) \cup ToSet(found) :
          /\ Occurrences(n, found) <= IF Prime(n) THEN Occurrences(n, AllNumbers) ELSE 0
          /\ (Proper /\ sender_pc = "exit" /\ Prime(n)) => Occurrences(n, found) = Occurrences(n, AllNumbers)

\* Both workers and the main program end, if it is proper.
AllEnd == sender_pc = "exit" \/ ~Proper
=============================================================================
