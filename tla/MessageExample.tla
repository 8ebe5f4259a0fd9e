--------------------------- MODULE MessageExample ---------------------------
(***************************************************************************)
(* Section2/class_examples/message_queue.  A sender puts MESSAGES messages *)
(* in a queue of SLOTS and waits while it is full; a receiver takes one.   *)
(* Nobody removes the queue: it begins with what was left in it.           *)
(***************************************************************************)
EXTENDS Integers, Sequences, Course

CONSTANTS
    MESSAGES,       \* 10 in the source
    SLOTS,          \* attr.mq_maxmsg (5)
    RECEIVERS       \* how many times message_queue_receive is run

ASSUME MessageAssumption == MESSAGES \in Nat /\ SLOTS \in Nat \ {0} /\ RECEIVERS \in Nat

VARIABLES robert_queue, left_in_queue, sent, taken

messageVars == <<robert_queue, left_in_queue, sent, taken>>

Old == -1           \* a message of an earlier run

MessageTypeOK ==
    /\ robert_queue \in Seq(Old .. MESSAGES - 1) /\ Len(robert_queue) <= SLOTS
    /\ left_in_queue \in 0 .. SLOTS /\ sent \in 0 .. MESSAGES
    /\ taken \in Seq(Old .. MESSAGES - 1) /\ Len(taken) <= RECEIVERS

MessageInit ==
    /\ left_in_queue \in 0 .. SLOTS
    /\ robert_queue = [i \in 1 .. left_in_queue |-> Old]
    /\ sent = 0 /\ taken = <<>>

SendMessage ==
    /\ program = "messages"
    /\ sent < MESSAGES /\ Len(robert_queue) < SLOTS
    /\ robert_queue' = Append(robert_queue, sent)
    /\ sent' = sent + 1
    /\ UNCHANGED <<left_in_queue, taken>>

ReceiveMessage ==
    /\ program = "messages"
    /\ Len(taken) < RECEIVERS /\ robert_queue # <<>>
    /\ taken' = Append(taken, Head(robert_queue))
    /\ robert_queue' = Tail(robert_queue)
    /\ UNCHANGED <<left_in_queue, sent>>

MessageNext == SendMessage \/ ReceiveMessage

\* Each side gets as far as the other one lets it, and the receivers get the old
\* messages and then the new ones in the order in which they were sent.
MessagesEnd ==
    /\ sent = MESSAGES \/ Len(robert_queue) = SLOTS
    /\ Len(taken) = RECEIVERS \/ robert_queue = <<>>
    /\ \A i \in DOMAIN taken : taken[i] = IF i <= left_in_queue THEN Old ELSE i - left_in_queue - 1
=============================================================================
