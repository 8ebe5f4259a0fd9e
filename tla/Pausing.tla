------------------------------ MODULE Pausing ------------------------------
(***************************************************************************)
(* Processes that wait for signals with pause(), as the system runs them   *)
(* (external): a signal is pending until it is delivered, and a second one *)
(* merges with it; without a handler it kills; a handler runs on top of    *)
(* what it interrupts, with its own signal masked; and pause() returns     *)
(* when the handlers that interrupted it have returned.  A signal that is  *)
(* handled before pause() is called does not end it.                       *)
(***************************************************************************)
EXTENDS Sequences, SequencesExt

VARIABLES
    at,         \* label of each process's main()
    pending,    \* signals posted and not delivered
    handles,    \* signals with a handler
    frames      \* handlers that run, the last on top

signalVars == <<at, pending, handles, frames>>

Gone == {"exit", "killed", "unborn"}

\* Nothing more happens to p unless it is sent a signal.
Idle(p) == at[p] \in {"pause"} \cup Gone /\ pending[p] = {} /\ frames[p] = <<>>

\* main() of p goes on, no handler on top of it.
Goes(p, from, to) == frames[p] = <<>> /\ at[p] = from /\ at' = [at EXCEPT ![p] = to]

\* The call of pause(): what p has tested before may no longer be so.
CallPause(p) == Goes(p, "call", "pause") /\ UNCHANGED <<pending, handles, frames>>

\* kill(p, s): a process that has ended takes no notice.
Post(p, s) ==
    pending' = IF at[p] \in Gone THEN pending ELSE [pending EXCEPT ![p] = @ \cup {s}]

Install(p, s) == handles' = [handles EXCEPT ![p] = @ \cup {s}]

\* Delivery to a handler.
Interrupt(p, s) ==
    /\ at[p] \notin Gone
    /\ s \in (pending[p] \cap handles[p]) \ ToSet(frames[p])
    /\ pending' = [pending EXCEPT ![p] = @ \ {s}]
    /\ frames' = [frames EXCEPT ![p] = Append(@, s)]
    /\ UNCHANGED <<at, handles>>

\* Delivery without one.
Kill(p) ==
    /\ at[p] \notin Gone
    /\ pending[p] \ handles[p] # {}
    /\ at' = [at EXCEPT ![p] = "killed"]
    /\ pending' = [pending EXCEPT ![p] = {}]
    /\ frames' = [frames EXCEPT ![p] = <<>>]
    /\ UNCHANGED handles

\* The handler of s, on top, returns, to another signal that is pending if
\* there is one, and otherwise to what it interrupted.
HandlerEnds(p, s) ==
    LET deliverable == (pending[p] \cap handles[p]) \ ToSet(Front(frames[p])) IN
    /\ frames[p] # <<>> /\ Last(frames[p]) = s
    /\ \/ \E t \in deliverable :
             /\ frames' = [frames EXCEPT ![p] = Append(Front(@), t)]
             /\ pending' = [pending EXCEPT ![p] = @ \ {t}]
             /\ UNCHANGED at
       \/ /\ deliverable = {}
          /\ frames' = [frames EXCEPT ![p] = Front(@)]
          /\ at' = [at EXCEPT ![p] = IF @ = "pause" /\ Len(frames[p]) = 1 THEN "woken" ELSE @]
          /\ UNCHANGED pending
    /\ UNCHANGED handles
=============================================================================
