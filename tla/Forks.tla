-------------------------------- MODULE Forks --------------------------------
(***************************************************************************)
(* Section2/L1.  A parent forks three children, which sleep and exec       *)
(* geo_calc, and waits for each of them with waitpid.  A fork may fail;    *)
(* then the pid is -1, and waitpid(-1) waits for any child.                *)
(***************************************************************************)
EXTENDS Integers, Course

VARIABLES
    children,       \* "unborn", "failed", "running", "zombie" or "reaped"
    parent_pc       \* how many calls of fork and waitpid are done

forkVars == <<children, parent_pc>>

Children == 1 .. 3

ForksTypeOK ==
    /\ children \in [Children -> {"unborn", "failed", "running", "zombie", "reaped"}]
    /\ parent_pc \in 0 .. 6

ForksInit == children = [c \in Children |-> "unborn"] /\ parent_pc = 0

ForkChild(c) ==
    /\ parent_pc = c - 1 /\ parent_pc' = c
    /\ \E s \in {"running", "failed"} : children' = [children EXCEPT ![c] = s]

\* sleep, execlp, and the program or perror.
ChildEnds(c) ==
    /\ children[c] = "running"
    /\ children' = [children EXCEPT ![c] = "zombie"]
    /\ UNCHANGED parent_pc

\* Children that waitpid(pid) may take, those that still run included.
WaitedFor(c) ==
    {d \in IF children[c] = "failed" THEN Children ELSE {c} : children[d] \in {"running", "zombie"}}

\* waitpid returns at once if there is no such child.
WaitPid(c) ==
    /\ parent_pc = 2 + c /\ parent_pc' = 3 + c
    /\ \/ \E d \in WaitedFor(c) :
             children[d] = "zombie" /\ children' = [children EXCEPT ![d] = "reaped"]
       \/ WaitedFor(c) = {} /\ UNCHANGED children

ForksNext ==
    /\ program = "forks"
    /\ \E c \in Children : ForkChild(c) \/ ChildEnds(c) \/ WaitPid(c)

\* "Parent process is finishing" (main.c:45) comes after the end of every child,
\* whichever forks failed.
ForksEnd == parent_pc = 6 /\ \A c \in Children : children[c] \in {"failed", "reaped"}
=============================================================================
