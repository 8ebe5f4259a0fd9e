# Formal verification of the operating-systems programs

This directory holds TLA+ models of the programs in this repository, the TLC
configurations that check them, and proofs that the TLA+ proof system checks.
The repository is a course's collection of small concurrent systems; the largest
is the airport of `P1/PP1`: three programs that share a memory block and talk
through signals. The models start there, and go on with twenty smaller
programs that have some logic of their own.

- [The system](#the-system): components, state, operations, hazards
- [Modules](#modules): what models what
- [How the airport is modelled](#how-the-airport-is-modelled) and
  [the smaller programs](#how-the-smaller-programs-are-modelled)
- [Runs](#runs): what is checked, with which bounds
- [Fairness](#fairness)
- [Proofs](#proofs)
- [Disagreements found](#disagreements-found)
- [Plan](#plan) and [what is not modelled](#what-is-not-modelled)

## The system

### The airport (`P1/PP1`), modelled

Three programs share `/SharedMemory` (three `int` slots, one per pid) and send
each other standard signals:

```
            SIGUSR2 (5 planes)          SIGUSR2
  ground  ------------------->  radio  --------->  air control
  control <-------------------         <---------  (C or Python)
            SIGUSR1, SIGTERM            SIGUSR1 (5 take-offs), SIGTERM
     ^                                                |
     +------------- SIGUSR1 (C version only) ---------+
```

| program | state it keeps | operations |
|---|---|---|
| air control (`air_control_c/src`, `air_control_py/main.py`) | `planes`, `takeoffs` since the last report, `total_takeoffs`; a state mutex and two runway mutexes; five controller threads; the SIGUSR2 handler | create the memory, launch the radio, start and join the threads; a controller tests the total and the planes, tries the two runways, takes a plane under the state mutex, counts, reports every fifth take-off, releases, and at the end sends SIGTERM to the radio |
| radio (`radio/src/main.c`) | `takeoffs`, `planes` | `SigHandler1`: count five take-offs, tell ground control. `SigHandler2`: count five planes, tell air control. `SigTerm`: print, end ground control, unlink the memory, exit. `main` quits above 100 take-offs |
| ground control (`ground_control/src/main.c`) | `planes`, `takeoffs`, `traffic` | a 500 ms timer (`Traffic`) admits five planes a tick until the limit; `SigHandler1` counts five take-offs; `SigHandlerTerm` exits |

What makes it hard: the three start independently; signals of one kind do not
queue, are delivered in no particular order and interrupt each other's handlers;
SIGUSR2 can interrupt any thread of the C air control, in the middle of
`planes--`; loop tests read shared counters without the mutex; the pid slots are
zero until their owner writes them, and `kill(0, s)` is a signal to everybody;
the memory is found under its name before its slots are set.

What makes it correct:

- the mutexes and each controller's own idea of what it holds agree;
- no take-off without a plane, no plane twice, not more take-offs than planes;
- the take-offs pass the maximum by a bounded number, and never by so many that
  the radio counts another batch;
- what one program has counted is backed by what its neighbour has sent;
- the radio is ended after the last batch is reported to it, not before;
- no program signals a slot that is not written, or dies of an unhandled signal;
- air control waits for ground control until its pid is in its slot;
- once the take-offs are done, all three programs end.

### The smaller programs

They share nothing with each other. Of all but the last three rows every operation is modelled.

| component | state and operations | hard part | what makes it correct |
|---|---|---|---|
| ticket office, `Section3/H1` | shared segment: available tickets, transactions, log of 100 purchases, process-shared mutex; buyer threads buy 1 to 5 tickets; the office polls and removes everything after five sold-out polls | the mutex is destroyed and the segment removed while buyers may still use them; the log index is not checked; the segment can be attached before it is initialised | tickets are conserved; the index stays in the log; after the closing nobody buys; the last report is complete |
| prime queue, `Section2/L3` | POSIX queue of 5 messages, one sender, two workers; `-1` ends a worker | order of the `-1`s, a full and an empty queue | no number is left behind, each prime is found as often as it is there, all end |
| manager and workers, `Section2/homeworks/H1` | a file of commands; two workers with three handlers and `pause()` | signals that merge or interrupt a handler; test then `pause()` | each worker logs its commands in order; only one can miss its SIGTERM |
| director and actor, `Section2/L2` | a flag each, two signals, `pause()` | the signal may come before the `pause()` | the order of the lines; the play ends |
| data processor, `exam1_structurefixed` | `signal_count`; a shared array; a queue to the logger | test then `pause()`; merged signals; the array is overwritten; nine calls that may fail, each with something else to undo | one average for a signal, of one batch; the loop ends; nothing is left behind |
| horse race, `Section3/L1` | `finish_order`, `finish_count`, five threads without a mutex | places shared or lost | no index beyond the array; with horses one at a time each has a place |
| run-length coder, `Section5/H1` | coding and decoding of bytes | runs of 255 and more | decoding gives the file back; the code is as short as can be |
| merge sort and median, `Section1/L1`, `Practice/L1` | pure | halves of different length, equal elements, int sums | a sorted permutation; the median is in the middle |
| collision game, `Bono/C2` | two positions under a mutex, two flags without it, four threads | flags read in the other order; positions out of range in between | inside the border; "Bye!" only after q; all threads end |
| decoder in C, `PP2/decode_c` | progress per thread under a mutex; the SIGALRM handler locks the same mutex | the handler interrupts the holder of the mutex; a thread leaves early, or `main()` does | every pixel is counted; a report is of one moment; it ends |
| decoder in Python, `PP2/decode_py` | the same, in the interpreter's threads | the interpreter runs the handler in the main thread, also on top of itself, and the lock is not recursive | the same |
| tickets without a mutex, `Section2/homeworks/H2` | three counters in a shared segment; the office polls, companies buy | a purchase is three unlocked updates after two reads of the stock; the office reads in between; a segment left by a killed office | purchases that do not overlap add up; the last report misses one purchase at most |
| shared memory with a semaphore, `class_examples/shm_example_semaphores` | a block and a semaphore under names; reader and writer | objects of an earlier run under the same names, replaced while the writer opens them | who gets past the semaphore sees all numbers |
| message queue example, `class_examples/message_queue` | a queue of 5 that nobody removes | full, empty, leftovers | each side gets as far as the other lets it, in order |
| Caesar text, `Bono/C4` | a shared block, a writer, a reader that clears it | no synchronisation; characters that become `\n` or `\0`; a text that fills the block | what is read is a beginning of what was typed, and all of it in order |
| time plotter, `Bono/C1` | `first_call`, `last_time`; a driver that sends SIGALRM | merged alarms, one before the handler is there | what is printed adds up to the time passed |
| vruntime logger, `examfinal/exam3` | a timer, a handler that does everything, a log | the watched process ends half way | it ends, and a failure leaves the old log |
| fork exercise, `Section2/L1` | three children | a failed fork, whose pid -1 means any child to `waitpid` | no child is left |
| memory blocks, `Section4/L2` | four mappings and what is noted of them | a mapping that fails, one put over another, neighbours that are joined | what is logged is true |
| uptime report, `Section5/L1` | times in days, hours, minutes, seconds; a percentage | carries, an uptime of 0 | the parts add up |
| variants of class examples | earlier or shorter forms of the above | | not modelled |
| scheduling exercises, `Section4/L1`, `Bono/C3` | one thread computes, or one loop prints | the kernel's scheduler | not modelled |
| first exercises, `Section1` | parse, compute, print | none | not modelled |

## Modules

| module | models | notes |
|---|---|---|
| `AirportShared` | the kernel as the three programs use it | pid slots, pending signals, dispositions, handler frames, process life |
| `Radio` | `radio/src/main.c` | extends `AirportShared` |
| `GroundControl` | `ground_control/src/main.c` | extends `AirportShared` |
| `AirControlC` | `air_control_c/src/main.c`, `functions.c` | extends `Radio`: air control forks it |
| `AirControlPy` | `air_control_py/main.py` | the other air control |
| `AirportC`, `AirportPy` | compositions of the three programs | the properties live here |
| `Departures` | nothing in particular: what an air control promises | abstract specification; `AirportPy!KeepsPromise` instantiates it |
| `AirportCMC`, `AirportPyMC` | - | sets of controllers, symmetry, flags for TLC |
| `AirportProofs` | - | types of the kernel, the radio, ground control |
| `AirportCProofs`, `AirportPyProofs` | - | theorems about the two compositions |
| `Course` | which of the smaller programs is run, and how much time passes | extended by all below |
| `Pausing` | the kernel for processes that wait in `pause()` | extended by `Commands`, `Play`, `Processor`, `Plotter` |
| `Shop` | nothing in particular: what an office and its buyers promise together | abstract specification; `Tickets!SoldOneByOne` instantiates it |
| `Tickets` | `Section3/H1/ticket_office/src`, `Section3/H1/buyer/src` | |
| `PrimeQueue` | `Section2/L3/main_program/src/main.c`, `worker/src/main.c` | |
| `Commands` | `Section2/homeworks/H1/manager/src/main.c`, `worker/src/main.c` | |
| `Play` | `Section2/L2/src` | |
| `Processor` | `exam1_structurefixed/data_processor/src/main.c`, `exam1_structure/data_processor/src/main.c` | two versions, told apart by `structure`; the programs they start have no source |
| `Race` | `Section3/L1/src/main.c` | |
| `Rle` | `Section5/H1/src/main.c` | |
| `Sort` | `Section1/L1/src/functions.c` | `MergeSort` is a recursive function of its calls |
| `Game` | `Bono/C2/src/main.c` | |
| `Decoder` | `PP2/decode_c/src/main.c`, `PP2/decode_py/main.py` | |
| `Sales` | `Section2/homeworks/H2/ticket_office/src`, `buyer/src` | |
| `ShmExample` | `Section2/class_examples/shm_example_semaphores` | |
| `MessageExample` | `Section2/class_examples/message_queue` | |
| `Caesar` | `Bono/C4/src` | |
| `Plotter` | `Bono/C1/src` | |
| `VruntimeLog` | `examfinal/exam3/src/main.c` | |
| `Forks` | `Section2/L1/src/main.c` | |
| `Blocks` | `Section4/L2/src/main.c` | |
| `Uptime` | `Section5/L1/src/main.c` | |
| `Exercises` | - | the last nine side by side |
| `Programs`, `ProgramsMC` | - | all twenty programs side by side, and their small inputs |
| `ThreadsProofs` | - | theorems about the programs with threads: `Tickets`, `Game`, `Race`, `Decoder` |
| `ProcessesProofs` | - | theorems about the programs with processes: `ShmExample`, `Sales`, `Blocks`, `Processor`, `Commands`, `Play`, `Plotter` |
| `FilesProofs` | - | theorems about the programs that work on the contents of a file or an array: `Rle`, `PrimeQueue`, `Caesar`, `Sort` |
| `ProgramsProofs` | - | theorems about `Programs`: all twenty side by side |
| `SumProofs` | - | lemmas on which they rest: induction over the subsets of a finite set, sums of functions |

The airport's variables are disjoint: `radio_*`, `ground_*`, and air control's
own. They meet only in `osVars`, and each composition says so by leaving the
others' variables `UNCHANGED`.

## How the airport is modelled

**The kernel** (`AirportShared`). `shm` maps each slot to `"none"` (the object has no
size yet, and a store to it is a SIGBUS), `"zero"`, `"stale"` (a pid left by an earlier run) or
`"pid"`. `GiveSize` is `ftruncate`: it makes zeroes of no memory, and leaves old memory as it is. `Kill(slot, s)` adds `s` to the pending
set of the processes the slot addresses: its owner; the whole group if the slot
is zero; nobody if it is stale. A set and not a sequence, because a standard
signal that is already pending is lost. `EnterHandler` pushes a handler frame on
a single-threaded process; the signal is masked while its own frame is on the
stack, any other may come on top. `Running(p, s, n)` says that the innermost
frame is the handler of `s` at its step `n`, so a handler with two effects is two
actions, and everybody else's steps come in between. `DefaultAction` kills a
process that receives a signal it has no handler for. `RESETHAND` is the set of
handlers installed from a `struct sigaction` with an uninitialised `sa_flags`
(`air_control_c/src/main.c:21`, `ground_control/src/main.c:63` and `:68`): for each of
them the initial state chooses whether the garbage contains `SA_RESETHAND`.
Only that bit of the garbage is modelled.

**The radio** (`Radio`). `radio_pc` is the progress of `main()`:
`RadioOpen`, three times `RadioInstall`, then only handlers and `RadioQuit`.
`RadioSigHandler1` is `takeoffs += 5` and then `kill(shm[2], SIGUSR1)`;
`RadioSigHandler2` the same with planes and air control; `RadioSigTerm` is the
report, the `SIGTERM` to ground control, and the unlink with the exit.

**Ground control** (`GroundControl`). `MemoryOpen` is its start: it fails
without the shared memory, or before this has a size. `AirFirst` says whether ground control is
started only when air control has made the memory. `GroundTimer` is the interval timer, which needs no
help from the program. `Traffic` is `Tick` (compute the waiting planes, admit a
batch below the limit) and `Announce` (tell the radio).

**The C air control** (`AirControlC`). `MemoryCreate` is three steps, in between which
ground control may come: the name (`OpenMemory`), the size, the pid. One action per statement of
`TakeOffsFunction` that touches shared state: the two tests without the mutex,
the two `trylock`s, the state lock, the load and the store of `planes--`,
the two counters, the two `kill`s, the unlock, the release of the runway, and
the final `SIGTERM`. `pc[t]` is the next one, `current_runway[t]` and `reg[t]`
are locals. `takeoffs++` and `total_takeoffs++` are one action: `takeoffs` is
used only under the mutex, so no thread can tell them apart. `SigHandler2` runs
on any thread the kernel picks (`hpc[t]`, `hreg[t]`), also on several at once,
and stops the thread it runs on. Between `Fork` and `Execl` the child has air
control's handler (`ChildSigHandler2`).

**The Python air control** (`AirControlPy`). `CreateSharedMemory` is six steps: the name
(`OpenMemory`), the size (`SizeMemory`), a zero for each slot in order (`ZeroSlots`), and the own pid
(`StoreAirPid`). Ground control may attach from the first on, and what it has stored is then
zeroed with the rest. The interpreter notes a signal
(`tripped`) and calls the handler on the main thread later; `handlers` is the
stack of its runs, each waiting for `state_lock` or holding it.
`SignalsInsideWith` says whether the interpreter may call it again inside the
`with` block of a run (CPython checks for signals at every back edge and call,
so it may), or not. The worker is `takeoff_worker` with its double check of the
planes under the lock and the `continue` out of the `with` block. `StoreRadioPid`,
`WaitForGround` and the joins are `main()`.

**The promise** (`Departures`). Planes arrive in batches, leave one by one and
only when there is one, are reported in full batches, and the day is closed only
when all reports are in; nothing is reported later. The mapping: a plane has
gone when it is taken under the lock, a take-off is reported when `takeoffs` is
reset, the day is closed when a worker has sent SIGTERM.

## How the smaller programs are modelled

Each module has its own variables, `Init`, one action per step another thread or
process can tell apart, `Next` and fairness. `Programs` composes them: the
initial state chooses the `program` that is run and only its actions are
enabled, so one run checks all of them, and each is as if it were alone.

**Time** (`Course`). These programs wait for each other with `sleep()` and with
people starting one after the other. With `pace = "calm"` such a wait lasts until
the others have come to a halt: that is what the authors had in mind, and most
promises depend on it. With `pace = "rushed"` it may last no time at all. A
property that says `Calm =>` holds at the calm pace only; the others
(`PrimesFound`, `PlacesInBounds`, `TickIsSnapshot`, `AllCounted`, `NothingLeftBehind`, and
parts of `AveragesRight`, `ReaderSeesAll` and `CaesarPrefix`) hold at both. `Rushed` names the programs that a run tries at
both paces. No guard refers to the pace where the code has no wait.

**Signals** (`Pausing`). `at[p]` is the label of `main()`, `frames[p]` the handlers on
top of it. Test and `pause()` are two steps: a signal that is handled at the label
`"call"`, between the two, does not end the `pause()`. A handler's effect is part of
`HandlerEnds`; handlers of different signals interrupt each other.

**Tickets.** Office and buyers, with the lock, the test, the taking, the log, the
count and the unlock as steps of their own. A new segment is all zero, which is
also an unlocked mutex; a destroyed mutex excludes nobody; a removed segment stays
with those attached and is not found by others, of whom the first ends its whole
process (`"dead"`). `pthread_mutex_destroy` refuses while the mutex is held.
At the calm pace the two programs together implement `Shop` (`SoldOneByOne`): a purchase is made
when it is counted, so that the tickets in the hands of a buyer that has not counted them yet are
still in stock (`InHand`); before the office opens the shop has all its tickets; it is closed when
the segment is removed, and everything else that the two do is a stutter.

**PrimeQueue.** The queue is a sequence of at most `MAXMSG`. `Receive` takes and tests
one number: nobody else sees a worker's local state. The workers are one set. The queue
begins with what a killed run left in it (`left_over`), as `mq_open` would find it; nothing
is promised to workers that meet an old -1 (`Proper`) but that they find no number twice.

**Commands.** A line is the sequence of its words, so that empty lines, missing words and
unknown names can be told apart; `target_pid` and `signal_num` are the manager's locals.

**Play.** `spoken` is who spoke, in order. The lines are counted as they are written, one `printf` a
step: the test of the program runs it with line buffering.

**Processor.** `data_creator` and `data_logger` are binaries of the exam: the model has what
the processor relies on. Batch `k` is the number `k` in each element, so a sum
over two batches would show. `Steps` is the order in which each version prepares. Each call whose result
`main()` looks at may fail: `sigaction`, `shm_open` (the first version notices at `mmap`), `ftruncate` and `mmap` (one step),
`mq_open`, the two `fork`s, `execl` in either child, of which `main()` does not learn, and `mq_send`, which ends the loop.
`complaints` are the calls that have failed, and `names` is what a later run would find. The
handler is installed without `SA_RESTART`, so that it also ends a `waitpid` (`InterruptsWait`); that can
happen only after a failed `mq_send`, when the creator still sends signals.

**Race.** `finish_order[finish_count] = id` is a load and a store, `finish_count++`
another load and a store. The C standard promises less of such a race; compilers
produce this.

**Rle, Sort.** The algorithms as functions on sequences and arrays, against
reference definitions: the file itself, and the k-th smallest element. Their
`main()` is a sequence of steps. Whether an element comes from the left half (`TakeLeft`)
and whether a byte extends a run (`Extends`) are operators of their own.

**Game.** The loop test, the lock and the unlock are the same actions for the four
threads, with the mutex's sections in between.

**Decoder.** In C SIGALRM is delivered to the main thread unless that one is in the handler,
then to any. In Python it is always the main thread, on top of a handler that is there
already; `tick_pc[t]` is the stack of them, and `MAX_NESTED` bounds it. At the calm pace a
handler is done before the next tick. `gave_up` are the threads that have complained: a decoder
that cannot open one of its files leaves before its first pixel (`LeaveEarly`; in Python any exception in
its loop ends it, a pixel half done), main() ends without a timer (`SetTimer`), and when a
thread cannot be created (`CreateFails`) the C program ends at once, whatever the others are at.

**Sales.** A purchase is the test of the input, two reads of the stock for the cap
(`Compare`, `ClampRequest`), and for each field a `Load` and a `Store`. At the calm pace two
companies do not type at the same time; the office polls at any moment. Nothing is claimed
of purchases that overlap: there the counters go anywhere, and the repository does not say
what they should do.

**ShmExample, Caesar.** Names and the objects that they stand for are apart: an unlinked
block stays with those that have it. A copy into shared memory is a step for each byte or
number, and `strncpy` may copy in any order.

**Plotter.** Time is counted in intervals of the driver. The handler is `GetTime` and
`PrintElapsed`, and time may pass between the two.

**Blocks.** Addresses are pages; the kernel chooses a free place for two of the blocks, and
the others lie where the program says. `RangeAround` is the kernel's habit of joining
mappings that touch.

**Uptime, VruntimeLog, Forks, MessageExample.** One action for each step that may fail or
wait. Times are in hundredths of a second; a conversion to `int` cuts.

## Runs

For the airport, scaled down: `BATCH` for the 5 of the source, `TOTAL_TAKEOFFS` for 20,
`PLANES_LIMIT` for 20, `RADIO_LIMIT` for 100, and a set of `Controllers` for the
five threads. The proportions that matter are kept: `TOTAL_TAKEOFFS` and
`PLANES_LIMIT` are whole batches, and there are no more controllers than planes
in a batch (5 and 5 in the source). The exception is `airport_c`, whose single
take-off is one short of a batch, so that the overshoot, which two bounds of that
run are about, makes the difference to the radio. No state constraint is used: every model is
finite because planes are limited.

| run | instance | checks | shows |
|---|---|---|---|
| `airport_c` | 2 controllers, batch 2, 1 take-off, 4 planes, one-shot handlers or not | `TypeOK`, `LocksHeld`, `OvershootBounded`, `RadioCountsNoMore`, `NobodyKilled` | more planes than take-offs, so that an overshoot can happen, and it completes the radio's batch: both bounds are reached; two signals for air control, so that a handler that has reset itself is missed |
| `airport_c_startup` | 1 controller, batch 1, `RADIO_LIMIT` 0, any start order, memory left by an earlier run or none, `SA_RESETHAND` or not | `GroundAddressed` | nobody signals ground control before its pid is in the slot; `RadioQuit` happens here |
| `airport_c_live` | 2 controllers, batch 2 | `EverybodyGoesHome` | once the total is reached, all three programs end |
| `airport_py` | 2 workers, batch 2, 2 take-offs, 4 planes, nested handlers, memory left by an earlier run or none, ground control after the memory (`AirFirst`) | the safety properties of `AirportPy` but `OvershootBounded`, which follows from the last one, `KeepsPromise` | the Python version is correct where the C version is not, and implements `Departures` |
| `airport_py_live` | 1 worker, batch 2, 2 take-offs, 4 planes, no handler inside a `with` block | `PlanesTakeOff` | enough planes always lead to the end of all three programs, also when the two signals that announce them come on top of one another or merge |
| `airport_c_negative` | 2 controllers | `PlanesNonNegative` (violated) | two controllers take off with one plane |
| `airport_c_phantom` | 2 controllers, 4 planes | `NoPhantomPlanes` (violated) | the handler's unlocked `planes += 5` undoes a `planes--` |
| `airport_py_nested` | 1 worker, 3 planes, nested handlers | `PlanesTakeOff` (violated) | the handler waits for the lock its own outer run holds |
| `airport_py_slot` | 1 worker, no memory left, any start order | `GroundKeepsItsSlot` (violated) | air control zeroes the pid of a ground control that attached while the memory was made |
| `programs` | the twenty smaller programs, see below | 23 invariants, `SoldOneByOne`, `ProgramsEnd` | each keeps its promises and ends, and the ticket office with its buyers implements `Shop` |
| `workers_terminate` | `Commands` at the calm pace | `WorkersTerminate` (violated) | a worker can miss its SIGTERM for ever |
| `play_order` | `Play` at the calm pace | `LinesAsTested` (violated) | the actor's first line before the director's |

Symmetry over the controllers is used in the runs without a liveness property:
`Init`, `Next`, the invariants and `Departures` never name a controller.

**Start-up.** Three constants say how much of the start is left open.
`PromptStartup = TRUE` is the assumption under which the
programs were written: ground control's first tick comes 500 ms after its start,
and by then air control and the radio have installed their handlers. Without it a
tick kills the radio that has no handler yet, which no property could survive,
so only the two runs about start-up (`airport_c_startup`, `airport_py_slot`) do
without it. `AirFirst = TRUE` starts ground control when the memory is complete, as the test script
does by a sleep of 3 s (`test_performance.sh:73`); the three checks of the Python airport other than `airport_py_slot`
have it, to keep them small, the C runs do not. The theorems about the Python airport do without
it. `RESETHAND` names the handlers whose flags may make them one-shots: in `airport_c` and `airport_c_startup`
those whose signal comes more than once (`RepeatedFlags`).

`airport_c`, `airport_c_startup` and `airport_py_slot` may stop early: a program that does not find the memory
gives up, or a one-shot handler has gone and the next signal ends air control, and the others
wait for it. They do not check deadlock; all other runs of the airport do. `Over` is
the terminated system stuttering.

**Why the airport's bounds are enough.** The interesting cases need two controllers for
every race on `planes`, two batches for a handler that interrupts a take-off, and a merged or a
nested signal needs two of a kind; all occur in the instances above. The contention of a third controller for the second
runway is left to the theorem `MutualExclusion`, which is for any number of them. The theorems below lift
all safety properties of these runs, and the refinement, to any number of controllers and any
limits. `PlanesTakeOff` is checked with one worker only: two of them, with the two signals, are
beyond TLC in reasonable time, and how the workers end one after the other is also in `KeepsPromise` and
`TermAfterLastBatch`.

**The instance of `programs`** (`Programs.cfg`, `ProgramsMC`).

| program | instance | why it is enough | properties |
|---|---|---|---|
| tickets | 2 buyers, 3 tickets, purchases of 1 or 2, log of 3, closing after 2 sold-out polls | a purchase that does not fit, a log filled to its end, a buyer inside or before `start` when the office closes, and one report between the last two polls | `TicketsConserved`, `LogInBounds`, `ClosedForGood`, `LastReportComplete`, `SoldOneByOne` |
| queue | files of up to 4 of {2, 4, 9} and one with a -1, 2 workers, queue of 2; old messages in it: one, a -1, or both | prime, even and square, equal numbers, queue full and empty, at the start, too | `PrimesFound` |
| commands | 6 files, both paces | every way to skip a line; the same worker twice; the last command for either | `LogsMatchCommands`, `OnlyLastAddresseeHangs` |
| play | as it is, both paces | | `PlayInOrder`; `LinesAsTested` in `play_order` |
| processor | 2 versions, 2 elements, 3 batches, both paces, a failure of each call | a batch before and one after; a torn array needs two elements | `AveragesRight`, `NothingLeftBehind` |
| race | 3 horses, track of 2, steps of 0 to 2, both paces | three, so that one can overwrite a place after another counted | `PlacesInBounds` |
| rle | bytes 0 to 3, runs of up to 3; all files of {0, 2} up to length 9, and the generated one | three full runs and every remainder | `RoundTrip` |
| sort | all arrays of up to 4 of {-1, 0, 1, 3, 7}, `INT_MAX` 7 | both parities, halves of 1 and 2, equal elements | `SortedPermutation` |
| game | 5 by 3 | the smallest screen on which X starts inside the border and away from the ball; every border is a step away | `InsideBorders`, `ByeOnlyAfterQuit` |
| decoder | in C and in Python, 2 threads, 0 to 2 pixels, both paces, `MAX_NESTED` 2 | the handler on each of three threads, at each point, and on top of another; each thread may fail, and main() between the two | `TickIsSnapshot`, `AllCounted` |
| sales | stock of 3, 2 companies, at most 2 at a time, requests of 0, 1, 3; new memory and an old one | a refused, a fitting and a capped request; a purchase that empties the stock under the eyes of the office | `SalesAddUp` |
| blocks | 7 pages, blocks of 1, 2, 1, 1, the last two at pages 4 and 6 | blocks that touch and that overlap, and any that fails | `BlocksLogged` |
| shm | 2 numbers, any leftovers, both paces | writer before, between and after each step of the reader | `ReaderSeesAll` |
| caesar | 4 bytes, 16 characters, 6 lines, both paces, an old text or none | the empty line, one that is too long, one that fills the block, and characters that become the newline and the zero | `CaesarPrefix` |
| plotter | `ALARMS` 4, both paces | alarms that merge, that find no handler, and three times between four | `ElapsedAddUp` |
| vruntime, forks | as they are | | `ProgramsEnd` |
| uptime | 33 pairs of times around each carry, 0 to 2 processors | the last and the first hundredth of a second, minute, hour and day; 0 | `ProgramsEnd` |
| messages | 3 messages, queue of 2, 2 receivers, any leftovers | both sides wait | `ProgramsEnd` |

`ProgramsEnd` says that each of them comes to its end, and what is then true: no child left,
every thread joined, a report that adds up, an old log kept. The data processor is the one that need
not end even then: it stays in `pause()` if `data_creator` could not be started, and in `waitpid` for the logger if
an average could not be sent.

It does not check deadlock: every program stops at its end, and at the rushed pace
some hang, which `ProgramsEnd` says they do not at the calm one.

## Fairness

`AirFairness`, `RadioFairness`, `GroundFairness` say that a thread that can run does run,
that a pending signal is delivered, that a handler goes on and that the timer
fires: the kernel's promises. Nothing makes a person start ground control.
Ground control's handlers have strong fairness: ticks come every 500 ms, so a
handler that a tick keeps interrupting is not interrupted for ever, although the
model has no clock. The mutexes need no fairness of their own: the runways are
tried, not waited for, and the state mutex is held for finitely many steps by
controllers of which only finitely many take-offs remain.

The smaller programs: every process or thread that can take a step takes one. Beyond
that, some buyer's `rand()` comes to one ticket again and again (`TicketsFairness`), and
some company wants at least one (`CompanyFairness`); a horse does not draw 0 for ever
(`RaceFairness`); the decoder's threads go on between alarms, which come for ever
(`DecoderFairness`); the player presses keys, one of them q some time, and the keyboard
thread gets the mutex to say so, although the others take it all the time
(`GameFairness`). These are assumptions about random numbers, people, and mutexes that are
free again and again; without any of them a program may go on for ever, as it does in reality.

## Proofs

Each safety property of the passing runs is also a theorem, for all values of the constants that
the named assumptions of the modules allow; liveness is not (see the end of this section). For the
smaller programs a theorem is about the specification of the program alone (`TicketsSpec`,
`GameSpec` and so on), and `ProgramsProofs` carries all of them over to `Programs!Spec`, of which the
run `programs` checks an instance. Most theorems follow one pattern: an inductive invariant, a lemma
for each action that can disturb it, and the step from the invariant to the property.

### The airport

`AirportProofs` proves what both airports share: that each operation of the kernel and each step of
the radio and of ground control keeps the types.

| theorem | of | argument |
|---|---|---|
| `TypeCorrect` | both | `TypeOK` is inductive; one case per action |
| `MutualExclusion` | both | `LocksHeld` is not inductive alone: creating the threads would take a controller out of its critical section. `LockInv` adds the types and that no controller runs before it is created. In Python the signal handler's runs are part of it: the lock belongs to a worker or to one run on the stack |
| `Overshoot` | both | neither the mutex nor `LocksHeld` helps, the loop test reads the total without it. `CommittedBounded` counts the controllers past the test as well: while the total is low they are at most all of them, afterwards nobody joins and each leaves with one take-off |
| `GroundIsAddressed` | C | `Ungrounded`: as long as ground control's pid is not in its slot there is no plane, no signal, no handler, and no take-off (`Asleep`), since planes come from ground control alone; so no controller gets to a batch or to the end |
| `RadioCounts` | C | `RadioInv`: a SIGUSR1 that is pending or in its handler is worth a batch, and what the radio has counted, this batch and what air control has not reported yet together are no more than the take-offs made (`TakeoffsCovered`). A signal that is lost or merged only takes from the left side. With `Overshoot`, and because the radio counts whole batches |
| `NobodyIsKilled` | C | `Installed` ties the slots, the handlers and the flags of each program to its program counter; `Polite`: the airport sleeps until the radio and ground control have installed all their handlers, and then each kind of signal is sent to the one process that handles it, unless its handler was a one-shot. Ground control is dismissed only by the radio's last handler |
| `NoTakeoffWithoutPlane` | Python | `PlanesNonNegative` with the types is inductive, because of the double check |
| `NothingAfterTerm` | Python | `BatchInv`: a full batch has a worker that is reporting it, what is reported are whole batches, and whoever leaves has seen all of `TOTAL_TAKEOFFS` reported. With `CommittedBounded` no batch is full again after that |
| `Refinement` | Python | the initial state maps to the initial state of `Departures`, the double check maps to `Depart`, the report to `Report`, ending the radio to `Close`, the handler's return to `Arrive`, all other steps stutter; under `LockInv`, `CommittedBounded` and `BatchInv` |
| `GroundIsAwaited` | Python | `Slots`: how far air control is for each content of a slot; a ground control that has stored its pid during the creation is in it, and one that stored it before the slot was zeroed is not. Once the slots are zeroed the third holds zero or the pid of ground control, so that what ends the wait of `main.py:160` is that pid, and nothing changes it then |
| `CountsAreBacked` | Python | `Backed`, four inequalities, one for each hop of a signal (ground control to radio, radio to air control, and back): what the receiver has counted, a batch for each signal that is pending, handled or a flag, and what a half-done handler still owes is no more than what the sender has sent. With them `FullBatch` (who reports has a whole batch), `Prompt` (the timer waits for the others) and that no handler of a C program runs twice at once. If the pid of ground control has been zeroed after it was stored (`Erased`) it is gone for ever, and the property, which is about a ground control with its slot, is true; else all this is inductive |

Hypotheses of these theorems, beyond the modules' assumptions:

- `NothingAfterTerm` and `Refinement`: `WholeBatches`, no more workers than a batch has planes, and
  a total of whole batches, as in the source (5, 5 and 20). Without it they fail: with more workers
  than a batch the overshoot fills another batch, and it is reported after the radio was ended.
- `GroundIsAddressed`, `RadioCounts`, `NobodyIsKilled`: at least one take-off to make (20 in the
  source); with none, the controllers would end the radio at once, and it ground control, whose pid may not be there.
- `CountsAreBacked`: `PromptStartup`, explained with the runs. Memory left by an earlier run, and ground control at any time,
  are allowed in it and in `GroundIsAwaited`.
- `NobodyIsKilled`: behaviours in which ground control's first tick finds the radio, and so air control, with their handlers
  (`InTime`); a start without `PromptStartup` is one of them if its tick happens to be in time. A tick that is not does kill
  a program, or signals everybody. The flags of the uninitialised `struct sigaction`s (`UninitialisedFlags`) are
  arbitrary: the property names the end of a program whose own one-shot handler is gone. And `LimitOutOfReach`, that
  the whole batches of the take-offs there can be are no more than
  `RADIO_LIMIT` (20 of at most 24, and 100, in the source): a radio that leaves its loop at the limit is gone when
  the last signals come.

### The smaller programs

| theorem | program, pace | invariant |
|---|---|---|
| `TicketsTypes` | tickets, any | `TicketsTypeOK` with `PollsLeft`, that the count of polls is below its limit until the office closes |
| `LogFits` | tickets, calm | `InOrder` says where everybody is in the life of the office: nobody before it opens (`Before`), who is inside has the mutex as long as it works (`Exclusive`), it closes only with no ticket left and nobody in a purchase (`Shut`), a purchase is of 1 to all tickets there are (`Enough`), and available tickets and transactions together, the one under way included, are no more than `TICKETS` (`Counted`). With `TICKETS <= LOG_SIZE` the index is in the log |
| `NothingAfterClosing` | tickets, calm | `Shut`, of the same invariant |
| `NoTicketLost` | tickets, calm | `Balance`: stock, log and the purchase under way add up at each step inside the mutex |
| `LastReport` | tickets, calm | `LastSeen`: after the first poll that finds nothing nobody is in a purchase, and a report printed since then has everything |
| `ShopImplemented` | tickets, calm | the refinement of `Shop`. The initial state maps to that of `Shop`; counting a purchase maps to `Sell`, printing to `PrintReport`, removing the segment to `Close`, under the invariants of the rows above; all other steps stutter, in particular taking the tickets and writing the log. For that, `LoggedInHand`: a buyer about to count has its purchase already in the log, at the next index, so that the count makes it the last sale |
| `InsideTheBorder` | game | `Guarded`: a thread is between lock and unlock if and only if the mutex names it. `OnScreen`: the ball may be on the border only in the hands of the thread that moved it there. The property, like the start position, needs five columns |
| `ByeWhenGivenUp` | game | `Decided`: `running` is cleared by q or with `won` already set, although both flags are read without the mutex |
| `PlacesFit` | race, any and calm | `Counting`: without a mutex the index lags behind the horses that are through, and never passes their number; it is what a horse has loaded that has to be bounded, too. `OneByOne` at the calm pace: those that are through are exactly those in the list |
| `TickSnapshot` | decoder, any | `Excluded`: a thread is between lock and unlock in `Decode` or in one of its handler's runs, not in both, and only while the mutex names it. Hence what a run has read is still so (`Snapshot`) |
| `EveryPixelCounted` | decoder, any | `Tally`: at each place of a thread, by how much what it has written and what it has counted differ, also where it leaves early or is ended with the process; and whom `main()` has launched (`Launched`) |
| `ReaderIsServed` | semaphore example, any | `Posted`: only a writer that has written everything posts the semaphore, and the reader waits for the one it made itself |
| `SalesAddUpAlways` | tickets without a mutex, calm | `OneSale`: stock and sales add up, but for what the one purchase under way has moved (`OnTheWay`), for each of its loads and stores |
| `LogIsTrue` | blocks | `BlocksKnown`: who is mapped where and since when; a number can be read unless a later block lies over it |
| `LeavesNothing` | data processor, any | `Upkeep`: what exists at each place of `main()`, in both versions and after each failure. `SignalsSent` counts the signals of the creator: unless an average could not be sent it has sent all when `main()` waits for it, so that no handler interrupts `waitpid` |
| `AveragesFollow` | data processor, any and calm | `DataTyped`: averages, queued or under way, are no more than the signals. `InBatches`: the creator writes only while the processor waits in `pause()`, so that each sum meets one batch; with the sum of a constant array |
| `OnlyLastHangs` | manager, calm | `CommandsInv`: at each place of the manager, what each worker may be at; who has not had the last command is in `pause()` when SIGTERM comes |
| `LogsAreComplete` | manager, calm | `LogInv`: the log of a worker, with the command that is pending or in a handler (`UnderWay`), are the commands sent to it so far. SIGTERM may be handled before, after, under or on top of that command |
| `PrintedAddsUp` | time plotter, any and calm | `AddsUp`: the sum of what is printed telescopes to the time between first and last; `OnTime`: at the calm pace an alarm is handled in its own interval |
| `FilesRoundTrip` | coder | `Coded`, the invariant of the loop after `n` bytes: the pairs written and the run being counted stand for the first `n` bytes, the pairs are whole, and a byte is repeated only after a full run. Then the two directions of the file, phase by phase |
| `AllPrimesFound` | prime queue | `Accounted`: each prime handed over is in the queue or has been found, and that as often as it was handed over. `PillsLast`: nothing follows the first `-1` that the sender put there, so who takes it leaves no number behind |
| `ArraySorted` | sorter | `Reorders`: merging the halves is a permutation of the positions, because `taken` counts the elements of each half; `Ascends`: if both halves ascend, so does the whole. Then `MergeSort`, by induction on the length of the call: the two halves are shorter calls. The median is the k-th smallest element because the elements below it and up to it are positions of the sorted array |
| `LinesInOrder` | play, any and calm | `ActorState`, `DirectorState`: for each label of the two, what may be pending, installed and ready; a cue is sent once and answered once, and nothing before the `pause()` is lost without killing the actor. `SpokenSoFar`: the lines are determined by the two labels; `ActorInTime` at the calm pace |
| `TextIsPassedOn` | Caesar, any and calm | `TextIsPassed`: what the reader has is the beginning of what the writer can pass on. `MemIsOurs`: a byte of the block is zero or what the writer puts there, in whichever order it copies; `WrittenWhenCalm`: it is all there when the writer has ended |

Two theorems are about `Programs!Spec`, the twenty programs side by side:

| theorem | argument |
|---|---|
| `AllProgramsSafe` | all other invariants of the run `programs`, and `SoldOneByOne`, for all values of the constants. `EachByItself`: a step of `Programs` is a step of one program and leaves the variables of the others alone, so that each behaviour is one of `TicketsSpec`, of `GameSpec`, and so on. The four programs that wait in `pause()` share the variables of `Pausing`: a behaviour is one of `CommandsSpec`, for example, only if `commands` is the program that is run (`ThePausingOne`); if it is not, it never will be (`NotRun`), and the properties of the four say nothing |
| `ProgramTypes` | `ProgramsTypeOK`. The types of most programs are part of their invariants; those of the forks, the vruntime logger, the uptime report and the messages are inductive, and the others need a little more: a ball that is drawn is at one of the places `Reached` (game), a thread has not written more pixels than it has read (decoder, `DecoderBounds`), a line of commands is a sequence of words (commands), and what is installed and pending for the data processor and the plotter |

A few assumptions on the constants carry these theorems: files are sequences of bytes or of words,
the prime queue has a worker (two in the source), `MAX_RUN` fits in a byte, the tickets fit in the log,
and the arrays to sort are arrays of `int`s with one element at least (`SortAssumption`). TLC
evaluates them on the instances of the runs. "Calm" and "any" are the two paces of
`Course`; a property that holds at the calm pace only says so in its own definition.

Induction. The library's induction theorems take an operator as a parameter and cannot be used.
`SumProofs!SubsetInduction` does the same for a set instead of an operator, from a smallest
counterexample among the subsets of a finite set; `FilesProofs!UpTo` follows for numbers, and `StepByStep`
gives the existence and the steps of a function that is defined by recursion on numbers. The sums
(`SumFunction`, `FoldFunction` of the community modules), the concatenation of the runs (`FlattenSeq`), and the
loops of the coder are reasoned about through those.

### Only model-checked

- Everything that rests on fairness: `EverybodyGoesHome`, `PlanesTakeOff`, `ProgramsEnd` (and with it the
  results of the uptime report, the forks and the vruntime logger, which it states of their ends).
- The violations, of course.

## Disagreements found

Each is a run TLC violates, and is listed with its lines in `PROJECT.json`.

1. `functions.c:67` tests `planes <= 0` before the mutex and not again under
   it; the Python version does, and is correct. (`airport_c_negative`)
2. `functions.c:55` adds planes without the mutex, from a handler that may run on
   any thread: an update is lost and a plane leaves twice. (`airport_c_phantom`)
3. `main.py:59` takes a non-reentrant lock in a signal handler that can be run
   inside itself: the main thread waits for itself. (`airport_py_nested`)
4. `main.py:39` makes the memory visible and `main.py:52` zeroes the slot that ground control may have written in
   between, or in the memory of an earlier run; `main.py:160` then waits for ever.
   (`airport_py_slot`, without old memory)
5. `Section2/homeworks/H1/worker/src/main.c:68` tests `keep_running` and then calls
   `pause()`; the SIGTERM that follows the last command without a sleep can be
   handled in between, and the worker stays. (`workers_terminate`)
6. In `Section2/L2/src/main.c` nothing orders the first lines of the actor (line 26) and of the director (line 47);
   `test/test_performance.sh:89` expects D, A, D, A, A, A, D, D. (`play_order`)

More that the models show and no run keeps. In the airport: `functions.c:99` signals
ground control, and so does the radio for the same batch, so that ground control
counts it twice and its `traffic` goes below zero; a second C controller can send
SIGTERM before the one that counted the last take-off has sent its SIGUSR1
(`functions.c:90`), and a signal merged with a pending one, or handled after
SIGTERM, is missing from the radio's report.

In the smaller programs, at the rushed pace: buyers that attach to the segment before
`InitializeSharedMemory` is through can lock a mutex that is then initialised again,
two buy at once, and 3 tickets become -1 (`Tickets` with `pace = "rushed"`); the actor's
first line may come even after the director's second; a cue that comes before the actor's
`pause()` is lost, or kills it if it comes before the handler, and the director waits for ever;
two horses share a place, and the last place names horse 0; a tick that comes while
the handler of the one before still runs can reach a decoder that holds the mutex, which
then waits for itself (in Python any tick that comes while one is printed does); a signal to the data processor between its test and its `pause()`
is counted and its average never sent, and the logger waits for ever. At any pace: the data processor waits for ever for
signals of a `data_creator` that could not be started, and the fixed version leaves its two names behind when a
fork fails (`exam1_structurefixed/data_processor/src/main.c:72`, `:88`; the first version removes them).

In the game, on a terminal of three columns: the ball starts in column 0, which is the border, and
`KEY_LEFT` takes it to column -1 (`Bono/C2/src/main.c:104`, `:41`) until it is clamped. The proof of `GameTypeOK` would
not go through with columns from 0 on, and the type was corrected.

## Plan

In this order; all but a part of 8 are done.

1. The airport: kernel, radio, ground control, C air control; Python air
   control and its refinement of `Departures`.
2. Types, locks, overshoot and the refinement, for any number of controllers.
3. The smaller programs: tickets, prime queue, the three with `pause()`, race, coder,
   sorter, game, decoder in C; one composition and one run.
4. Proofs about the tickets: types, the log, the closing.
5. The rest of the concurrent programs: tickets without a mutex, decoder in Python, the first
   version of the data processor, shared-memory and queue examples, Caesar text, timers,
   forks; and the two sequential ones with a result that can be wrong, blocks and uptime.
   Queues, memory and semaphores left by runs that were killed.
6. Proofs about the smaller programs: threads, processes, files; and about all of them side by side.
7. Proofs about the airport: the slots, the chain of counts, what the radio counts, and who may be
   signalled when.
8. Abstractions: a shop that sells tickets one purchase at a time, implemented by `Tickets` (done);
   the prime queue as a bag of numbers that two workers empty (left).

## What is not modelled

- Failing system calls where a program prints a message and exits before it has done anything that another sees
  (in the play, the manager, the queues and the text). Those that leave something behind are there:
  missing memory, every checked call of the data processor, a thread, a timer or a file of the decoder,
  the forks, the mappings, the log and the report.
- In the first version of the data processor, an `ftruncate` whose result nobody looks at, and what an old queue of
  the same name contains.
- A stale pid that the kernel has given to an unrelated process.
- Time: `sleep`, `usleep` and the one second of a take-off are arbitrary delays, or
  calm ones as said above.
- The C library inside signal handlers: at the rushed pace the workers' `fopen` and `fprintf`
  may interrupt each other. At the calm one they do not (`LogsMatchCommands`).
- The rounding of floating point, and the content of pixels and files.
- Wording and buffering of the output; `printf` inside handlers (not
  async-signal-safe) is left out, only the radio's reported numbers are kept.
- In the airport, an `ftruncate` or `mmap` that fails after `shm_open`, and a radio that cannot be launched: air control ends, and in Python
  removes the memory; or, in C, where nobody looks at the result of `fork`, goes on without a radio.
- Bits of the uninitialised `sa_flags` other than `SA_RESETHAND`, and `sa_mask`.
- Signal numbers of people at the terminal: nobody interrupts the programs.
- `exam1_structure/data_processor/src/mainold.c`, a draft in no build; the variants of class
  examples (`Lab2-L2-solution`, `shm_example`, `shm_example_v2`, `fork_intro_v2`, `signals`),
  whose full forms are modelled.
- `Section4/L1` (one thread multiplies matrices at a given priority, on a given processor) and
  `Bono/C3` (a loop prints numbers of `/proc`): the scheduler they measure is not theirs, and
  they keep no state that anything could contradict.
- The first exercises of `Section1` (fixed texts, a sum, random wind speeds, areas of
  circles), vendored tools (`cpplint.py`), CMake.
