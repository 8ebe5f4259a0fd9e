---------------------------- MODULE AirportProofs ----------------------------
(***************************************************************************)
(* What the proofs about both airports share: type correctness of the      *)
(* kernel's operations, the radio and ground control, and what the         *)
(* kernel's operations do to pending signals and handler frames.           *)
(***************************************************************************)
EXTENDS Radio, GroundControl, TLAPS

-----------------------------------------------------------------------------
(* The kernel's operations *)

\* kill() posts a signal and changes nothing else of a process.
LEMMA KillType ==
    ASSUME OSTypeOK, NEW slot \in Procs, NEW s \in Signals, Kill(slot, s)
    PROVE  pending' \in [Procs -> SUBSET Signals]
BY DEF OSTypeOK, Kill

\* A process that exits keeps a well-formed status, pending set and stack.
LEMMA ExitType ==
    ASSUME OSTypeOK, NEW p \in Procs, Exit(p)
    PROVE  /\ status' \in [Procs -> {"new", "up", "dead"}]
           /\ pending' \in [Procs -> SUBSET Signals]
           /\ stack' \in [Procs -> Seq(Frames)]
BY DEF OSTypeOK, Exit

\* Delivery takes one signal out of the pending set.
LEMMA TakeType ==
    ASSUME OSTypeOK, NEW p \in Procs, NEW s \in Signals, Take(p, s)
    PROVE  /\ pending' \in [Procs -> SUBSET Signals]
           /\ handled' \in [Procs -> SUBSET Signals]
BY DEF OSTypeOK, Take

\* The default action of a signal keeps the types.
LEMMA DefaultActionType ==
    ASSUME OSTypeOK, NEW p \in Procs, DefaultAction(p)
    PROVE  OSTypeOK'
BY ExitType DEF OSTypeOK, DefaultAction

\* A handler's first frame is a frame.
LEMMA EnterHandlerType ==
    ASSUME OSTypeOK, NEW p \in Procs, NEW s \in Signals, EnterHandler(p, s)
    PROVE  OSTypeOK'
<1>1. [sig |-> s, at |-> 0] \in Frames
    BY DEF Frames
<1>2. stack' \in [Procs -> Seq(Frames)]
    BY <1>1 DEF OSTypeOK, EnterHandler
<1>3. QED
    BY <1>2, TakeType DEF OSTypeOK, EnterHandler

\* A handler that goes on to its next step, of at most three, has a frame still.
LEMMA AdvanceType ==
    ASSUME OSTypeOK, NEW p \in Procs, NEW s \in Signals, NEW n \in 0 .. 1,
           Running(p, s, n), Advance(p)
    PROVE  stack' \in [Procs -> Seq(Frames)]
<1> DEFINE top == Len(stack[p])
<1>1. stack[p] \in Seq(Frames) /\ stack[p] # <<>>
    BY DEF OSTypeOK, Running
<1>2. top \in 1 .. top
    BY <1>1
<1>3. stack[p][top] = [sig |-> s, at |-> n]
    BY DEF Running
<1>4. [stack[p][top] EXCEPT !.at = @ + 1] \in Frames
    BY <1>3 DEF Frames
<1>5. [stack[p] EXCEPT ![top].at = @ + 1] = [stack[p] EXCEPT ![top] = [stack[p][top] EXCEPT !.at = @ + 1]]
    BY <1>1, <1>2, <1>3
<1>6. [stack[p] EXCEPT ![top].at = @ + 1] \in Seq(Frames)
    BY <1>1, <1>2, <1>4, <1>5
<1>7. stack' = [stack EXCEPT ![p] = [stack[p] EXCEPT ![top].at = @ + 1]]
    BY DEF Advance, OSTypeOK
<1>8. QED
    BY <1>6, <1>7 DEF OSTypeOK

\* A handler that returns leaves the frames below it.
LEMMA ReturnType ==
    ASSUME OSTypeOK, NEW p \in Procs, NEW s \in Signals, NEW n \in 0 .. 2,
           Running(p, s, n), Return(p)
    PROVE  stack' \in [Procs -> Seq(Frames)]
<1>1. stack[p] \in Seq(Frames) /\ stack[p] # <<>>
    BY DEF OSTypeOK, Running
<1>2. SubSeq(stack[p], 1, Len(stack[p]) - 1) \in Seq(Frames)
    BY <1>1
<1>3. QED
    BY <1>2 DEF OSTypeOK, Return

\* Installing a handler keeps the dispositions well formed.
LEMMA InstallType ==
    ASSUME OSTypeOK, NEW p \in Procs, NEW s \in Signals, NEW label, NEW here,
           Install(p, s, label, here)
    PROVE  handled' \in [Procs -> SUBSET Signals]
BY DEF OSTypeOK, Install

-----------------------------------------------------------------------------
(* The radio *)

\* No step of the radio breaks the types.
LEMMA RadioType ==
    ASSUME OSTypeOK, RadioTypeOK, RadioNext
    PROVE  OSTypeOK' /\ RadioTypeOK'
<1> USE BatchAssumption
<1>1. "radio" \in Procs /\ "ground" \in Procs /\ "air" \in Procs
    BY DEF Procs
<1>2. {"USR1", "USR2", "TERM"} \subseteq Signals
    BY DEF Signals
<1>3. CASE RadioOpen
    BY <1>1, <1>3, ExitType DEF RadioOpen, OSTypeOK, RadioTypeOK
<1>4. CASE RadioInstall
    BY <1>1, <1>2, <1>4, InstallType DEF RadioInstall, OSTypeOK, RadioTypeOK
<1>5. CASE RadioQuit
    BY <1>1, <1>5, ExitType DEF RadioQuit, OSTypeOK, RadioTypeOK, radioVars
<1>6. CASE \E s \in Signals : RadioSignal(s)
    BY <1>1, <1>6, EnterHandlerType DEF RadioSignal, RadioTypeOK, radioVars
<1>7. CASE RadioHandlers
    <2>1. CASE RadioSigHandler1 /\ UNCHANGED <<shm, linked, status, handled, oneShot, radio_pc, radio_report>>
        <3>1. stack' \in [Procs -> Seq(Frames)]
            BY <1>1, <1>2, <2>1, AdvanceType, ReturnType DEF RadioSigHandler1
        <3>2. pending' \in [Procs -> SUBSET Signals]
            BY <1>1, <1>2, <2>1, KillType DEF RadioSigHandler1, OSTypeOK
        <3>3. QED
            BY <2>1, <3>1, <3>2 DEF RadioSigHandler1, OSTypeOK, RadioTypeOK
    <2>2. CASE RadioSigHandler2 /\ UNCHANGED <<shm, linked, status, handled, oneShot, radio_pc, radio_report>>
        <3>1. stack' \in [Procs -> Seq(Frames)]
            BY <1>1, <1>2, <2>2, AdvanceType, ReturnType DEF RadioSigHandler2
        <3>2. pending' \in [Procs -> SUBSET Signals]
            BY <1>1, <1>2, <2>2, KillType DEF RadioSigHandler2, OSTypeOK
        <3>3. QED
            BY <2>2, <3>1, <3>2 DEF RadioSigHandler2, OSTypeOK, RadioTypeOK
    <2>3. CASE RadioSigTerm
        <3>1. stack' \in [Procs -> Seq(Frames)]
            BY <1>1, <1>2, <2>3, AdvanceType, ExitType
            DEF RadioSigTerm, RadioReport, RadioDismissGround, RadioUnlink
        <3>2. pending' \in [Procs -> SUBSET Signals] /\ status' \in [Procs -> {"new", "up", "dead"}]
            BY <1>1, <1>2, <2>3, KillType, ExitType
            DEF RadioSigTerm, RadioReport, RadioDismissGround, RadioUnlink, OSTypeOK
        <3>3. linked' \in BOOLEAN
            BY <2>3 DEF RadioSigTerm, RadioReport, RadioDismissGround, RadioUnlink, OSTypeOK
        <3>4. <<radio_takeoffs, radio_planes>> \in Nat \X Nat
            BY DEF RadioTypeOK
        <3>5. radio_report' \subseteq radio_report \cup {<<radio_takeoffs, radio_planes>>}
            BY <2>3 DEF RadioSigTerm, RadioReport, RadioDismissGround, RadioUnlink
        <3>6. radio_report' \subseteq (Nat \X Nat)
            BY <3>4, <3>5, Zenon DEF RadioTypeOK
        <3>7. QED
            BY <2>3, <3>1, <3>2, <3>3, <3>6 DEF RadioSigTerm, OSTypeOK, RadioTypeOK
    <2>4. QED
        BY <1>7, <2>1, <2>2, <2>3 DEF RadioHandlers
<1>8. CASE DefaultAction("radio") /\ UNCHANGED radioVars
    BY <1>1, <1>8, DefaultActionType DEF RadioTypeOK, radioVars
<1>9. QED
    BY <1>3, <1>4, <1>5, <1>6, <1>7, <1>8 DEF RadioNext

-----------------------------------------------------------------------------
(* Ground control *)

\* No step of ground control breaks the types.
LEMMA GroundType ==
    ASSUME OSTypeOK, GroundTypeOK, GroundNext
    PROVE  OSTypeOK' /\ GroundTypeOK'
<1> USE BatchAssumption
<1>1. "radio" \in Procs /\ "ground" \in Procs
    BY DEF Procs
<1>2. {"USR1", "USR2", "TERM", "ALRM"} \subseteq Signals
    BY DEF Signals
<1>3. CASE MemoryOpen
    BY <1>1, <1>3 DEF MemoryOpen, OSTypeOK, SlotValues, GroundTypeOK
<1>4. CASE GroundInstall
    BY <1>1, <1>2, <1>4, InstallType DEF GroundInstall, OSTypeOK, GroundTypeOK
<1>5. CASE GroundTimer
    BY <1>1, <1>2, <1>5 DEF GroundTimer, OSTypeOK, GroundTypeOK, groundVars
<1>6. CASE \E s \in Signals : GroundSignal(s)
    BY <1>1, <1>6, EnterHandlerType DEF GroundSignal, GroundTypeOK, groundVars
<1>7. CASE Traffic
    <2>1. stack' \in [Procs -> Seq(Frames)]
        BY <1>1, <1>2, <1>7, AdvanceType, ReturnType DEF Traffic, Tick, Announce
    <2>2. pending' \in [Procs -> SUBSET Signals]
        BY <1>1, <1>2, <1>7, KillType DEF Traffic, Tick, Announce, OSTypeOK
    <2>3. QED
        BY <1>7, <2>1, <2>2 DEF Traffic, Tick, Announce, OSTypeOK, GroundTypeOK
<1>8. CASE GroundSigHandler1
    <2>1. stack' \in [Procs -> Seq(Frames)]
        BY <1>1, <1>2, <1>8, ReturnType DEF GroundSigHandler1
    <2>2. QED
        BY <1>8, <2>1 DEF GroundSigHandler1, OSTypeOK, GroundTypeOK
<1>9. CASE SigHandlerTerm
    BY <1>1, <1>9, ExitType DEF SigHandlerTerm, OSTypeOK, GroundTypeOK, groundVars
<1>10. CASE DefaultAction("ground") /\ UNCHANGED groundVars
    BY <1>1, <1>10, DefaultActionType DEF GroundTypeOK, groundVars
<1>11. QED
    BY <1>3, <1>4, <1>5, <1>6, <1>7, <1>8, <1>9, <1>10 DEF GroundNext

-----------------------------------------------------------------------------
(* Handler frames *)

\* A handler of s is at its step n in p, on top or interrupted.
Frame(p, s, n) == \E i \in 1 .. Len(stack[p]) : stack[p][i] = [sig |-> s, at |-> n]

\* No signal has two frames in a process: it is blocked while its handler runs.
OneFrameEach ==
    \A p \in Procs : \A i, j \in 1 .. Len(stack[p]) : stack[p][i].sig = stack[p][j].sig => i = j

\* What a step of p does to the frames, given what it does to those of s.
OtherFramesKept(p, s) ==
    \A q \in Procs, r \in Signals, m \in 0 .. 2 :
        <<q, r>> # <<p, s>> => (Frame(q, r, m)' <=> Frame(q, r, m))

LEMMA EnterFrames ==
    ASSUME OSTypeOK, OneFrameEach, NEW p \in Procs, NEW s \in Signals, EnterHandler(p, s)
    PROVE  /\ OneFrameEach'
           /\ OtherFramesKept(p, s)
           /\ \A m \in 0 .. 2 : ~Frame(p, s, m) /\ (Frame(p, s, m)' <=> m = 0)
<1> DEFINE n == Len(stack[p])
           f == [sig |-> s, at |-> 0]
<1>0. f \in Frames BY DEF Frames
<1>1. stack[p] \in Seq(Frames) /\ n \in Nat
  <2>1. stack[p] \in Seq(Frames) BY DEF OSTypeOK
  <2> QED BY <2>1
<1>2. stack'[p] = Append(stack[p], f) /\ \A q \in Procs : q # p => stack'[q] = stack[q]
  BY DEF EnterHandler, OSTypeOK
<1>3. /\ Len(stack'[p]) = n + 1 /\ stack'[p][n + 1] = f
      /\ \A i \in 1 .. n : stack'[p][i] = stack[p][i]
  BY <1>0, <1>1, <1>2
<1>4. \A i \in 1 .. n : stack[p][i].sig # s BY DEF EnterHandler
<1>5. \A i \in 1 .. n + 1 : i \in 1 .. n \/ i = n + 1 BY <1>1
<1>6. f.sig = s /\ f.at = 0 /\ \A r, m : f = [sig |-> r, at |-> m] => r = s /\ m = 0 OBVIOUS
<1> HIDE DEF n, f
<1>7. \A i, j \in 1 .. n + 1 : stack'[p][i].sig = stack'[p][j].sig => i = j
  <2> SUFFICES ASSUME NEW i \in 1 .. n + 1, NEW j \in 1 .. n + 1, stack'[p][i].sig = stack'[p][j].sig
               PROVE  i = j
    OBVIOUS
  <2>1. CASE i \in 1 .. n /\ j \in 1 .. n BY <2>1, <1>3 DEF OneFrameEach, n
  <2>2. CASE i = n + 1 /\ j \in 1 .. n BY <2>2, <1>3, <1>4, <1>6
  <2>3. CASE j = n + 1 /\ i \in 1 .. n BY <2>3, <1>3, <1>4, <1>6
  <2> QED BY <1>5, <2>1, <2>2, <2>3
<1>8. OneFrameEach'
  BY <1>2, <1>3, <1>7 DEF OneFrameEach
<1>9. \A q \in Procs : q # p => \A r \in Signals, m \in 0 .. 2 : Frame(q, r, m)' <=> Frame(q, r, m)
  BY <1>2 DEF Frame
<1>10. \A r, m : Frame(p, r, m)' <=> (Frame(p, r, m) \/ (r = s /\ m = 0))
  <2> SUFFICES ASSUME NEW r, NEW m
               PROVE  Frame(p, r, m)' <=> (Frame(p, r, m) \/ (r = s /\ m = 0))
    OBVIOUS
  <2>1. ASSUME Frame(p, r, m)' PROVE Frame(p, r, m) \/ (r = s /\ m = 0)
    <3>1. PICK i \in 1 .. n + 1 : stack'[p][i] = [sig |-> r, at |-> m] BY <2>1, <1>3 DEF Frame
    <3>2. CASE i \in 1 .. n BY <3>1, <3>2, <1>3 DEF Frame, n
    <3>3. CASE i = n + 1 BY <3>1, <3>3, <1>3, <1>6
    <3> QED BY <1>5, <3>2, <3>3
  <2>2. ASSUME Frame(p, r, m) PROVE Frame(p, r, m)'
    <3>1. PICK i \in 1 .. n : stack[p][i] = [sig |-> r, at |-> m] BY <2>2 DEF Frame, n
    <3>2. i \in 1 .. n + 1 BY <1>1
    <3> QED BY <3>1, <3>2, <1>3 DEF Frame
  <2>3. ASSUME r = s, m = 0 PROVE Frame(p, r, m)'
    <3>1. n + 1 \in 1 .. n + 1 BY <1>1
    <3> QED BY <2>3, <3>1, <1>3 DEF Frame, f
  <2> QED BY <2>1, <2>2, <2>3
<1>11. \A m : ~Frame(p, s, m) BY <1>4 DEF Frame, n
<1> QED BY <1>8, <1>9, <1>10, <1>11 DEF OtherFramesKept

LEMMA AdvanceFrames ==
    ASSUME OSTypeOK, OneFrameEach, NEW p \in Procs, NEW s \in Signals, NEW k \in 0 .. 1,
           Running(p, s, k), Advance(p)
    PROVE  /\ OneFrameEach'
           /\ OtherFramesKept(p, s)
           /\ \A m \in 0 .. 2 : (Frame(p, s, m) <=> m = k) /\ (Frame(p, s, m)' <=> m = k + 1)
<1> DEFINE n == Len(stack[p])
           f == [sig |-> s, at |-> k + 1]
<1>1. stack[p] \in Seq(Frames) /\ n \in Nat \ {0} /\ stack[p][n] = [sig |-> s, at |-> k]
  <2>1. stack[p] \in Seq(Frames) /\ stack[p] # <<>> BY DEF OSTypeOK, Running
  <2> QED BY <2>1 DEF Running
<1>2. stack'[p] = [stack[p] EXCEPT ![n].at = @ + 1] /\ \A q \in Procs : q # p => stack'[q] = stack[q]
  BY DEF Advance, OSTypeOK
<1>3. stack'[p] = [stack[p] EXCEPT ![n] = f]
  BY <1>1, <1>2
<1>4. /\ Len(stack'[p]) = n /\ stack'[p][n] = f
      /\ \A i \in 1 .. n : i # n => stack'[p][i] = stack[p][i]
  BY <1>1, <1>3
<1>5. f.sig = s /\ \A r, m : f = [sig |-> r, at |-> m] => r = s /\ m = k + 1 OBVIOUS
<1>6. stack[p][n].sig = s /\ n \in 1 .. n /\ \A r, m : stack[p][n] = [sig |-> r, at |-> m] => r = s /\ m = k
  BY <1>1
<1> HIDE DEF n, f
<1>7. \A i \in 1 .. n : stack'[p][i].sig = stack[p][i].sig BY <1>4, <1>5, <1>6
<1>8. OneFrameEach'
  <2>1. \A i, j \in 1 .. n : stack'[p][i].sig = stack'[p][j].sig => i = j
    BY <1>7 DEF OneFrameEach, n
  <2>2. ASSUME NEW q \in Procs
        PROVE  \A i, j \in 1 .. Len(stack'[q]) : stack'[q][i].sig = stack'[q][j].sig => i = j
    <3>1. CASE q = p BY <1>4, <2>1, <3>1
    <3>2. CASE q # p BY <1>2, <3>2 DEF OneFrameEach
    <3> QED BY <3>1, <3>2
  <2> QED BY <2>2 DEF OneFrameEach
<1>9. \A q \in Procs : q # p => \A r \in Signals, m \in 0 .. 2 : Frame(q, r, m)' <=> Frame(q, r, m)
  BY <1>2 DEF Frame
<1>10. \A i \in 1 .. n : stack[p][i].sig = s => i = n BY <1>6 DEF OneFrameEach, n
<1>11. \A r, m : r # s => (Frame(p, r, m)' <=> Frame(p, r, m))
  BY <1>4, <1>5, <1>6 DEF Frame, n
<1>12. \A m : Frame(p, s, m) <=> m = k
  BY <1>1, <1>6, <1>10 DEF Frame, n
<1>13. \A m : Frame(p, s, m)' <=> m = k + 1
  <2>1. \A i \in 1 .. n : \A m : stack'[p][i] = [sig |-> s, at |-> m] => i = n BY <1>4, <1>10
  <2> QED BY <1>4, <1>5, <1>6, <2>1 DEF Frame, f
<1> QED BY <1>8, <1>9, <1>11, <1>12, <1>13 DEF OtherFramesKept

LEMMA ReturnFrames ==
    ASSUME OSTypeOK, OneFrameEach, NEW p \in Procs, NEW s \in Signals, NEW k \in 0 .. 2,
           Running(p, s, k), Return(p)
    PROVE  /\ OneFrameEach'
           /\ OtherFramesKept(p, s)
           /\ \A m \in 0 .. 2 : (Frame(p, s, m) <=> m = k) /\ ~Frame(p, s, m)'
<1> DEFINE n == Len(stack[p])
<1>1. stack[p] \in Seq(Frames) /\ n \in Nat \ {0} /\ stack[p][n] = [sig |-> s, at |-> k]
  <2>1. stack[p] \in Seq(Frames) /\ stack[p] # <<>> BY DEF OSTypeOK, Running
  <2> QED BY <2>1 DEF Running
<1>2. stack'[p] = SubSeq(stack[p], 1, n - 1) /\ \A q \in Procs : q # p => stack'[q] = stack[q]
  BY DEF Return, OSTypeOK
<1>3. Len(stack'[p]) = n - 1 /\ \A i \in 1 .. n - 1 : stack'[p][i] = stack[p][i]
  BY <1>1, <1>2
<1>4. /\ stack[p][n].sig = s /\ n \in 1 .. n
      /\ \A r, m : stack[p][n] = [sig |-> r, at |-> m] => r = s /\ m = k
      /\ \A i \in 1 .. n : i \in 1 .. n - 1 <=> i # n
      /\ 1 .. n - 1 \subseteq 1 .. n
  BY <1>1
<1> HIDE DEF n
<1>5. OneFrameEach'
  <2>1. \A i, j \in 1 .. n - 1 : stack'[p][i].sig = stack'[p][j].sig => i = j
    <3> SUFFICES ASSUME NEW i \in 1 .. n - 1, NEW j \in 1 .. n - 1, stack'[p][i].sig = stack'[p][j].sig
                 PROVE  i = j
      OBVIOUS
    <3>1. stack[p][i].sig = stack[p][j].sig BY <1>3
    <3>2. i \in 1 .. n /\ j \in 1 .. n BY <1>4
    <3> QED BY <3>1, <3>2 DEF OneFrameEach, n
  <2> QED BY <1>2, <1>3, <2>1 DEF OneFrameEach
<1>6. \A q \in Procs : q # p => \A r \in Signals, m \in 0 .. 2 : Frame(q, r, m)' <=> Frame(q, r, m)
  BY <1>2 DEF Frame
<1>7. \A i \in 1 .. n : stack[p][i].sig = s => i = n BY <1>4 DEF OneFrameEach, n
<1>8. \A r, m : r # s => (Frame(p, r, m)' <=> Frame(p, r, m))
  BY <1>3, <1>4 DEF Frame, n
<1>9. \A m : Frame(p, s, m) <=> m = k
  BY <1>1, <1>4, <1>7 DEF Frame, n
<1>10. \A m : ~Frame(p, s, m)'
  <2>1. \A i \in 1 .. n - 1 : stack'[p][i].sig # s BY <1>3, <1>4, <1>7
  <2> QED BY <1>3, <2>1 DEF Frame
<1> QED BY <1>5, <1>6, <1>8, <1>9, <1>10 DEF OtherFramesKept

\* A process that exits has no frames, and the others keep theirs.
LEMMA ExitFrames ==
    ASSUME OSTypeOK, OneFrameEach, NEW p \in Procs, Exit(p)
    PROVE  /\ OneFrameEach'
           /\ \A q \in Procs, r \in Signals, m \in 0 .. 2 : Frame(q, r, m)' => Frame(q, r, m)
<1>1. stack'[p] = <<>> /\ \A q \in Procs : q # p => stack'[q] = stack[q]
  BY DEF Exit, OSTypeOK
<1>2. Len(stack'[p]) = 0 BY <1>1
<1> QED BY <1>1, <1>2 DEF OneFrameEach, Frame

LEMMA SameFrames ==
    ASSUME OneFrameEach, UNCHANGED stack
    PROVE  /\ OneFrameEach'
           /\ \A q \in Procs, r \in Signals, m \in 0 .. 2 : Frame(q, r, m)' <=> Frame(q, r, m)
BY DEF OneFrameEach, Frame

-----------------------------------------------------------------------------
(* Posting *)

\* kill() on a slot with a pid reaches its owner at most.
LEMMA KillOwner ==
    ASSUME OSTypeOK, NEW slot \in Procs, NEW s \in Signals, shm[slot] = "pid", Kill(slot, s)
    PROVE  \A q \in Procs, r \in Signals :
              r \in pending'[q] => r \in pending[q] \/ (q = slot /\ r = s)
BY DEF OSTypeOK, Kill, Addressed

\* Whoever kill() reaches, it posts the one signal.
LEMMA KillOnly ==
    ASSUME OSTypeOK, NEW slot \in Procs, NEW s \in Signals, Kill(slot, s)
    PROVE  \A q \in Procs, r \in Signals : r # s => (r \in pending'[q] => r \in pending[q])
BY DEF OSTypeOK, Kill, Addressed

\* Batches that are still to be counted.
Credit(b) == IF b THEN BATCH ELSE 0

\* The step posts no s, and no handler of s gets to a new point.
Quiet(s) ==
    \A q \in Procs :
        /\ s \in pending'[q] => s \in pending[q]
        /\ \A m \in 0 .. 2 : Frame(q, s, m)' => Frame(q, s, m)

\* Nothing posted and nothing delivered.
LEMMA StillQuiet ==
    ASSUME OneFrameEach, UNCHANGED <<pending, stack>>
    PROVE  OneFrameEach' /\ \A s \in Signals : Quiet(s)
BY SameFrames DEF Quiet

\* A process that exits takes its signals and frames with it.
LEMMA ExitQuiet ==
    ASSUME OSTypeOK, OneFrameEach, NEW p \in Procs, Exit(p)
    PROVE  OneFrameEach' /\ \A s \in Signals : Quiet(s)
<1>1. \A q \in Procs : \A s \in Signals : s \in pending'[q] => s \in pending[q]
  BY DEF Exit, OSTypeOK
<1> QED BY <1>1, ExitFrames DEF Quiet

\* A delivery turns a pending signal into a frame at its start.
LEMMA Delivery ==
    ASSUME OSTypeOK, OneFrameEach, NEW p \in Procs, NEW s \in Signals, EnterHandler(p, s)
    PROVE  /\ OneFrameEach'
           /\ \A r \in Signals : r # s => Quiet(r)
           /\ s \in pending[p] /\ s \notin pending'[p]
           /\ \A m \in 0 .. 2 : ~Frame(p, s, m) /\ (Frame(p, s, m)' <=> m = 0)
           /\ \A q \in Procs : q # p =>
                 /\ s \in pending'[q] <=> s \in pending[q]
                 /\ \A m \in 0 .. 2 : Frame(q, s, m)' <=> Frame(q, s, m)
<1>1. pending' = [pending EXCEPT ![p] = @ \ {s}] /\ s \in pending[p]
  BY DEF EnterHandler, Take
<1>2. /\ s \notin pending'[p]
      /\ \A q \in Procs : q # p => pending'[q] = pending[q]
      /\ \A q \in Procs : \A r \in Signals : r # s => (r \in pending'[q] => r \in pending[q])
  BY <1>1 DEF OSTypeOK
<1> QED BY <1>1, <1>2, EnterFrames DEF Quiet, OtherFramesKept

\* Likewise the default action, which ends the process.
LEMMA DefaultFrames ==
    ASSUME OSTypeOK, OneFrameEach, NEW p \in Procs, DefaultAction(p)
    PROVE  OneFrameEach' /\ \A s \in Signals : Quiet(s)
BY ExitQuiet DEF DefaultAction

\* No step of the radio or of ground control gives a signal a second frame.
LEMMA RadioFrames == ASSUME OSTypeOK, OneFrameEach, RadioNext PROVE OneFrameEach'
<1> USE DEF Procs, Signals
<1>1. CASE RadioOpen \/ RadioInstall \/ RadioQuit
  BY <1>1, ExitFrames, SameFrames DEF RadioOpen, RadioInstall, RadioQuit
<1>2. ASSUME NEW s \in Signals, RadioSignal(s) PROVE OneFrameEach'
  BY <1>2, EnterFrames DEF RadioSignal
<1>3. CASE RadioHandlers
  <2>1. CASE RadioSigHandler1 BY <2>1, AdvanceFrames, ReturnFrames DEF RadioSigHandler1
  <2>2. CASE RadioSigHandler2 BY <2>2, AdvanceFrames, ReturnFrames DEF RadioSigHandler2
  <2>3. CASE RadioSigTerm
    BY <2>3, AdvanceFrames, ExitFrames DEF RadioSigTerm, RadioReport, RadioDismissGround, RadioUnlink
  <2> QED BY <1>3, <2>1, <2>2, <2>3 DEF RadioHandlers
<1>4. CASE DefaultAction("radio") BY <1>4, DefaultFrames
<1> QED BY <1>1, <1>2, <1>3, <1>4 DEF RadioNext

LEMMA GroundFrames == ASSUME OSTypeOK, OneFrameEach, GroundNext PROVE OneFrameEach'
<1> USE DEF Procs, Signals
<1>1. CASE MemoryOpen \/ GroundInstall \/ GroundTimer
  BY <1>1, SameFrames DEF MemoryOpen, GroundInstall, GroundTimer
<1>2. ASSUME NEW s \in Signals, GroundSignal(s) PROVE OneFrameEach'
  BY <1>2, EnterFrames DEF GroundSignal
<1>3. CASE Traffic
  BY <1>3, AdvanceFrames, ReturnFrames DEF Traffic, Tick, Announce
<1>4. CASE GroundSigHandler1 BY <1>4, ReturnFrames DEF GroundSigHandler1
<1>5. CASE SigHandlerTerm BY <1>5, ExitFrames DEF SigHandlerTerm
<1>6. CASE DefaultAction("ground") BY <1>6, DefaultFrames
<1> QED BY <1>1, <1>2, <1>3, <1>4, <1>5, <1>6 DEF GroundNext
=============================================================================
