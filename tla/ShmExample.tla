----------------------------- MODULE ShmExample -----------------------------
(***************************************************************************)
(* Section2/class_examples/shm_example_semaphores.  The reader creates a   *)
(* shared memory block and a semaphore and waits for it; the writer opens  *)
(* both by name, writes N_FLOATS numbers and posts.  What an earlier run   *)
(* left under either name is still there: always the semaphore, which      *)
(* nobody removes at the end, and the block if its reader was killed.      *)
(***************************************************************************)
EXTENDS Integers, Course

CONSTANT N_FLOATS       \* 20 in the source

ASSUME ShmExampleAssumption == N_FLOATS \in Nat \ {0}

VARIABLES
    shm_name, sem_name,     \* which object the name stands for: "none", "old" or "new"
    sized,                  \* the new block has its size
    floats,                 \* written to each block
    value,                  \* of each semaphore
    reader_pc, writer_pc,
    writer_shm, writer_sem, \* what the writer has opened
    left_block               \* a block was left by an earlier run

exampleVars == <<shm_name, sem_name, sized, floats, value, reader_pc, writer_pc,
                 writer_shm, writer_sem, left_block>>

Versions == {"old", "new"}

ShmExampleTypeOK ==
    /\ {shm_name, sem_name, writer_shm, writer_sem} \subseteq Versions \cup {"none"}
    /\ floats \in [Versions -> 0 .. N_FLOATS] /\ value \in [Versions -> 0 .. 2]
    /\ reader_pc \in {"shm_unlink", "shm_open", "ftruncate", "sem_unlink", "sem_open", "wait",
                      "print", "clean", "exit"}
    /\ writer_pc \in {"shm_open", "sem_open", "write", "exit", "killed"}

ShmExampleInit ==
    /\ shm_name \in {"none", "old"} /\ left_block = (shm_name = "old")
    /\ sem_name \in {"none", "old"}
    /\ sized = FALSE
    /\ floats = [v \in Versions |-> 0]
    /\ value \in [Versions -> 0 .. 1] /\ value["new"] = 0
    /\ reader_pc = "shm_unlink" /\ writer_pc = "shm_open"
    /\ writer_shm = "none" /\ writer_sem = "none"

-----------------------------------------------------------------------------
(* The reader *)

Reading(from, to) == reader_pc = from /\ reader_pc' = to

UnlinkShm(from, to) == Reading(from, to) /\ shm_name' = "none" /\ UNCHANGED <<sem_name, sized, value>>

CreateShm == Reading("shm_open", "ftruncate") /\ shm_name' = "new" /\ UNCHANGED <<sem_name, sized, value>>

SizeShm == Reading("ftruncate", "sem_unlink") /\ sized' = TRUE /\ UNCHANGED <<shm_name, sem_name, value>>

\* Mutant of UnlinkSem: the semaphore of an earlier run is used again.
KeepSem == Reading("sem_unlink", "sem_open") /\ UNCHANGED <<shm_name, sem_name, sized, value>>

UnlinkSem == Reading("sem_unlink", "sem_open") /\ sem_name' = "none" /\ UNCHANGED <<shm_name, sized, value>>

\* O_CREAT: one that exists is opened.
CreateSem ==
    /\ Reading("sem_open", "wait")
    /\ sem_name' = IF sem_name = "none" THEN "new" ELSE sem_name
    /\ UNCHANGED <<shm_name, sized, value>>

WaitSem ==
    /\ Reading("wait", "print")
    /\ value[sem_name] > 0 /\ value' = [value EXCEPT ![sem_name] = @ - 1]
    /\ UNCHANGED <<shm_name, sem_name, sized>>

PrintFloats == Reading("print", "clean") /\ UNCHANGED <<shm_name, sem_name, sized, value>>

ShmReader ==
    /\ program = "shm"
    /\ \/ UnlinkShm("shm_unlink", "shm_open") \/ CreateShm \/ SizeShm
       \/ UnlinkSem \/ CreateSem \/ WaitSem \/ PrintFloats
       \/ UnlinkShm("clean", "exit")
    /\ UNCHANGED <<floats, writer_pc, writer_shm, writer_sem, left_block>>

-----------------------------------------------------------------------------
(* The writer *)

Writing(from, to) == writer_pc = from /\ writer_pc' = to

\* Without a block mmap fails.  When calm, the reader says that it waits first.
OpenShm ==
    /\ Calm => reader_pc = "wait"
    /\ Writing("shm_open", IF shm_name = "none" THEN "exit" ELSE "sem_open")
    /\ writer_shm' = shm_name
    /\ UNCHANGED <<floats, value, writer_sem>>

OpenSem ==
    /\ Writing("sem_open", "write")
    /\ writer_sem' = sem_name
    /\ UNCHANGED <<floats, value, writer_shm>>

\* A block without a size cannot be written.
WriteFloat ==
    /\ writer_pc = "write" /\ floats[writer_shm] < N_FLOATS
    /\ IF writer_shm = "old" \/ sized
       THEN Writing("write", "write") /\ floats' = [floats EXCEPT ![writer_shm] = @ + 1]
       ELSE Writing("write", "killed") /\ UNCHANGED floats
    /\ UNCHANGED <<value, writer_shm, writer_sem>>

\* sem_post; SEM_FAILED is no semaphore.
PostSem ==
    /\ writer_pc = "write" /\ floats[writer_shm] = N_FLOATS
    /\ IF writer_sem = "none"
       THEN Writing("write", "killed") /\ UNCHANGED value
       ELSE Writing("write", "exit") /\ value' = [value EXCEPT ![writer_sem] = @ + 1]
    /\ UNCHANGED <<floats, writer_shm, writer_sem>>

ShmWriter ==
    /\ program = "shm"
    /\ OpenShm \/ OpenSem \/ WriteFloat \/ PostSem
    /\ UNCHANGED <<shm_name, sem_name, sized, reader_pc, left_block>>

ShmExampleNext == ShmReader \/ ShmWriter

ShmExampleSpec == ShmExampleInit /\ CourseTypeOK /\ [][ShmExampleNext /\ UNCHANGED courseVars]_<<exampleVars, courseVars>>

-----------------------------------------------------------------------------
(* Properties *)

\* However the two start, a reader that gets past sem_wait sees all numbers,
\* unless a block was left by a killed run and the writer opened that one
\* (shm_reader/main.c:12 removes it, but too late for a writer that has it).
ReaderSeesAll ==
    (reader_pc \in {"print", "clean"} /\ (Calm \/ ~left_block)) => floats["new"] = N_FLOATS

\* Started in order, both end.  Otherwise the writer may post a semaphore that
\* nobody waits for, and the reader waits for ever.
ShmExampleEnd == reader_pc = "exit" /\ writer_pc = "exit"
=============================================================================
