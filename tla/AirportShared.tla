---------------------------- MODULE AirportShared ----------------------------
(***************************************************************************)
(* What the three airport programs (air control, radio, ground control)    *)
(* share: the shared-memory block of three pids, and the signals they send *)
(* each other.  The kernel's part is modelled from how the programs use    *)
(* it:                                                                     *)
(*  - standard signals do not queue: a process has a SET of pending        *)
(*    signals, and posting one that is already pending loses it;           *)
(*  - pending signals are delivered in any order (Linux pushes one handler *)
(*    frame per pending signal, so a later number may run first);          *)
(*  - a signal without a handler kills the process that receives it;       *)
(*  - kill(0, s) reaches the whole process group, i.e. all three programs  *)
(*    when the test script starts them; kill on a stale pid reaches nobody.*)
(*  - a store to a mapped object that has no size yet is a SIGBUS.         *)
(* Not modelled: failing system calls on an otherwise healthy machine, and *)
(* a stale pid that the kernel has given to an unrelated process.          *)
(***************************************************************************)
EXTENDS Integers, FiniteSets, Sequences

Procs == {"air", "radio", "ground"}
Signals == {"USR1", "USR2", "TERM", "ALRM"}

CONSTANTS
    BATCH,      \* the 5 in "planes += 5", "takeoffs += 5", "takeoffs == 5"
    RESETHAND,  \* handlers <<process, signal>> whose struct sigaction is
                \* installed with sa_flags uninitialised; the garbage may
                \* contain SA_RESETHAND
    StaleMemory \* whether an earlier run may have left its shared memory behind

ASSUME BatchAssumption == BATCH \in Nat \ {0}
ASSUME ResetHandAssumption == RESETHAND \subseteq Procs \X Signals
ASSUME StaleMemoryAssumption == StaleMemory \in BOOLEAN

VARIABLES
    shm,        \* each pid slot: no memory yet, never written, left by an earlier
                \* run, or its owner's pid
    linked,     \* the name in /dev/shm exists
    status,     \* life of each process
    handled,    \* signals each process has a handler for
    pending,    \* signals posted and not yet delivered
    oneShot,    \* handlers that reset to the default action when they run
    stack       \* handler frames of the single-threaded processes, innermost last

osVars == <<shm, linked, status, handled, pending, oneShot, stack>>

SlotValues == {"none", "zero", "stale", "pid"}
Frames == [sig : Signals, at : 0 .. 2]

OSTypeOK ==
    /\ shm \in [Procs -> SlotValues]
    /\ linked \in BOOLEAN
    /\ status \in [Procs -> {"new", "up", "dead"}]
    /\ handled \in [Procs -> SUBSET Signals]
    /\ pending \in [Procs -> SUBSET Signals]
    /\ oneShot \subseteq RESETHAND
    /\ stack \in [Procs -> Seq(Frames)]

(***************************************************************************)
(* Nothing runs yet.  An earlier run that crashed may have left the object *)
(* behind with its pids in it: air control opens it with O_CREAT alone.    *)
(* Otherwise there is no memory at all, and there is none under the name   *)
(* either until air control has given the object its size.                 *)
(***************************************************************************)
OSInit ==
    /\ linked \in {FALSE, StaleMemory}
    /\ shm = [p \in Procs |-> IF linked THEN "stale" ELSE "none"]
    /\ status = [p \in Procs |-> "new"]
    /\ handled = [p \in Procs |-> {}]
    /\ pending = [p \in Procs |-> {}]
    /\ oneShot \in SUBSET RESETHAND
    /\ stack = [p \in Procs |-> <<>>]

Up(p) == status[p] = "up"

\* ftruncate: an object without a size gets three zeroes; another keeps its slots.
GiveSize == shm' = [p \in Procs |-> IF shm[p] = "none" THEN "zero" ELSE shm[p]]

\* The processes that kill(shm[slot], ...) reaches.
Addressed(slot) ==
    {p \in Procs : Up(p) /\ (shm[slot] = "zero" \/ (shm[slot] = "pid" /\ p = slot))}

Kill(slot, s) ==
    pending' = [p \in Procs |-> IF p \in Addressed(slot)
                                THEN pending[p] \cup {s} ELSE pending[p]]

\* Process p leaves: its pending signals and its frames go with it.
Exit(p) ==
    /\ status' = [status EXCEPT ![p] = "dead"]
    /\ pending' = [pending EXCEPT ![p] = {}]
    /\ stack' = [stack EXCEPT ![p] = <<>>]

\* Mutant of Take: every handler resets, as if all flags held SA_RESETHAND.
TakeOnce(p, s) ==
    /\ Up(p)
    /\ s \in pending[p] \cap handled[p]
    /\ pending' = [pending EXCEPT ![p] = @ \ {s}]
    /\ handled' = [handled EXCEPT ![p] = @ \ {s}]

\* A handler of p takes s: one instance of s, and perhaps the disposition.
Take(p, s) ==
    /\ Up(p)
    /\ s \in pending[p] \cap handled[p]
    /\ pending' = [pending EXCEPT ![p] = @ \ {s}]
    /\ handled' = IF <<p, s>> \in oneShot
                  THEN [handled EXCEPT ![p] = @ \ {s}] ELSE handled

\* A signal that p has no handler for ends p.
DefaultAction(p) ==
    /\ Up(p)
    /\ pending[p] \ handled[p] # {}
    /\ Exit(p)
    /\ UNCHANGED <<shm, linked, handled, oneShot>>

(***************************************************************************)
(* Handlers of the single-threaded processes.  A signal is blocked while   *)
(* its own handler runs; any other may interrupt it.                       *)
(***************************************************************************)
EnterHandler(p, s) ==
    /\ \A i \in 1 .. Len(stack[p]) : stack[p][i].sig # s
    /\ Take(p, s)
    /\ stack' = [stack EXCEPT ![p] = Append(@, [sig |-> s, at |-> 0])]
    /\ UNCHANGED <<shm, linked, status, oneShot>>

\* The handler of s is the one running in p, at its step n.
Running(p, s, n) ==
    /\ Up(p)
    /\ stack[p] # <<>>
    /\ stack[p][Len(stack[p])] = [sig |-> s, at |-> n]

\* No handler of p is running: its main program is.
InMain(p) == Up(p) /\ stack[p] = <<>>

\* main() of p, at label here, installs its handler of s.
Install(p, s, label, here) ==
    /\ InMain(p)
    /\ label = here
    /\ handled' = [handled EXCEPT ![p] = @ \cup {s}]

Advance(p) == stack' = [stack EXCEPT ![p][Len(stack[p])].at = @ + 1]
Return(p) == stack' = [stack EXCEPT ![p] = SubSeq(@, 1, Len(@) - 1)]
=============================================================================
