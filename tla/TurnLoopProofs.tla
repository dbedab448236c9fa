--------------------------- MODULE TurnLoopProofs ---------------------------
(***************************************************************************)
(* For any number of hosts, plans, messages and crashes, where the calls   *)
(* of the runtime come one at a time and none is cancelled: the tools of a *)
(* risky plan run only after its own approval, or as the one plan that an  *)
(* exception out of an approved round lets through; each runs at most      *)
(* once, and not after the plan was rejected.                              *)
(*                                                                         *)
(* The difficulty is the flag _approved_pending_plan, which names no plan. *)
(* Sound says what it stands for while it is up: the approval of the plan  *)
(* that the one active thread works on, or else an exception since which   *)
(* no later plan has run (LeftUp).  Plans run in the order of their        *)
(* numbers (LastRan, of the plan in memory and of the one on the disk), so *)
(* that an exception is used up by the next plan.  Books says that the     *)
(* file of a plan is gone once it was approved or rejected, which is what  *)
(* keeps a restart from running it again.                                  *)
(*                                                                         *)
(* Of the messages much less has to be assumed.  SteersFirst and           *)
(* AckedIsSafe hold in every setting, with cancels and any crashes;        *)
(* HeardInOrder leaves out only a crash where calls overlap (Recovers).    *)
(* Their invariant MInv sees a step only through the nine kinds of moves   *)
(* listed under Kind, and puts the order of arrival on Told, the           *)
(* conversation with the message on its way from the queue into it, so     *)
(* that a message that waits for another is always behind it.              *)
(***************************************************************************)
EXTENDS TurnLoop, FiniteSetTheorems, SequenceTheorems, NaturalsInduction, WellFoundedInduction, TLAPS

OneAtATime == ~setting.overlap /\ ~setting.cancels

Message == [id : Nat, delivery : {"steering", "follow_up"}]
Snapshot == [pending : Nat, queue : Seq(Message), convo : Seq(Message)]
ops == {"none", "prompt", "approve", "continue", "loop", "enqueue", "reject"}
ThreadState == [pc : pcs, op : ops, depth : Nat, plan : Nat, call : Nat, msg : Message,
                nudged : BOOLEAN, failed : BOOLEAN, carryOn : BOOLEAN, keep : BOOLEAN,
                stopped : BOOLEAN, snap : Snapshot]

Typed ==
    /\ setting \in Setting
    /\ pending \in Nat /\ plans \in Nat /\ sent \in Nat
    /\ approvedFlag \in BOOLEAN /\ cancel \in BOOLEAN
    /\ queue \in Seq(Message) /\ convo \in Seq(Message)
    /\ disk \in Snapshot
    /\ ran \subseteq Nat \X Nat /\ escaped \subseteq Nat /\ approved \subseteq Nat

\* What the flag stands for while it is up: the approval of the pending plan, which
\* has not run, or an exception since which no later plan has run.
LastRan(p) == \A c \in ran : c[1] <= p
Cleared(p) == LetThrough(p) \/ (p \in approved /\ \A c \in ran : c[1] # p)
LeftUp == \E e \in escaped : LastRan(e) /\ (pending # 0 => e < pending)
FlagMeans == approvedFlag => LeftUp
OnDisk == pending \in {0, disk.pending}

\* What the position of the active thread says about the flag, the pending plan and
\* the plan it works on.
Holds(q) == q.pc \in {"tools", "ran"} /\ q.plan # 0
Sound(q) ==
    /\ q.plan <= plans
    /\ \/ Holds(q) \/ FlagMeans
       \/ q.pc \in {"loop", "take"} /\ pending # 0 /\ Cleared(pending)
    /\ q.pc \notin {"tail", "sync", "save"} => OnDisk
    /\ q.pc \in {"sync", "save"} => q.snap.pending = pending
    /\ q.pc \in {"model", "stage", "pause", "said", "tools", "ran", "round", "inject"} => pending = 0
    /\ q.pc = "take" => q.plan = pending /\ pending # 0 /\ approvedFlag
    /\ Holds(q) => q.plan = disk.pending /\ q.plan \notin rejected
                   /\ (q.plan \in approved \/ LetThrough(q.plan))
    /\ q.pc = "tools" /\ q.plan # 0 =>
          LetThrough(q.plan) \/ \A c \in ran : c[1] = q.plan => c[2] > q.call
    /\ q.pc = "ran" => q.call # 0
    /\ q.pc = "ran" /\ q.plan # 0 =>
          LetThrough(q.plan) \/ \A c \in ran : c[1] = q.plan => c[2] >= q.call
    /\ q.pc \in {"stage", "pause"} =>
          /\ q.plan # 0 /\ q.plan \notin approved \union rejected
          /\ \A c \in ran : c[1] < q.plan
          /\ \A e \in escaped : e < q.plan
    /\ q.pc = "grant" => q.plan = pending /\ q.plan \in files
    /\ q.op = "reject" => q.pc \in {"tail", "sync", "save"} /\ q.plan \notin files /\ pending = 0

\* The plans numbered so far, and the files, approvals and rejections of them.
Books ==
    /\ files \subseteq 1 .. plans
    /\ approved \subseteq 1 .. plans /\ rejected \subseteq 0 .. plans
    /\ escaped \subseteq 1 .. plans
    /\ files \intersect (approved \union rejected) = {}
    /\ pending <= plans /\ disk.pending <= plans
    /\ pending # 0 => pending \notin rejected /\ LastRan(pending)
    /\ disk.pending # 0 => disk.pending \notin rejected /\ LastRan(disk.pending)
    /\ \A c \in ran : c[1] \in 1 .. plans
    /\ OneLeakPerException

OneCall ==
    /\ ~cancel
    /\ thread \in [Threads -> ThreadState]
    /\ \A t, u \in Threads : ~At(t, "idle") /\ ~At(u, "idle") => t = u
    /\ AtRest => FlagMeans /\ OnDisk
    /\ \A t \in Threads : ~At(t, "idle") => Sound(thread[t])

IInv == OneAtATime /\ Typed /\ OneCall /\ Books

-----------------------------------------------------------------------------
\* Sequences: the index a message is taken at, and what is left of the queue.

Below == {ss \in Nat \X Nat : ss[1] < ss[2]}

\* The least of some indexes is one of them, and below every other.
LEMMA FirstIsOne ==
    ASSUME NEW S, S \subseteq Nat, S # {}
    PROVE  First(S) \in S /\ \A j \in S : First(S) <= j
  <1>1. IsWellFoundedOn(Below, Nat)
    <2>1. Below = OpToRel(<, Nat)
      BY Zenon DEF Below, OpToRel
    <2> QED
      BY <2>1, NatLessThanWellFounded, Zenon
  <1>2. PICK i \in S : \A j \in S : <<j, i>> \notin Below
    BY <1>1, WFMin, Zenon
  <1>3. \A j \in S : i <= j
    <2> SUFFICES ASSUME NEW j \in S PROVE i <= j
      OBVIOUS
    <2>1. <<j, i>> \notin {ss \in Nat \X Nat : ss[1] < ss[2]}
      BY <1>2, Zenon DEF Below
    <2>2. i \in Nat /\ j \in Nat
      OBVIOUS
    <2> QED
      BY <2>1, <2>2
  <1> QED
    BY <1>3 DEF First

\* A chosen index is one of the queue.
LEMMA IndexIsOne ==
    ASSUME queue \in Seq(Message)
    PROVE  /\ IndexesOf("steering") # {} => First(IndexesOf("steering")) \in 1 .. Len(queue)
           /\ queue # <<>> => NextIndex \in 1 .. Len(queue)
  <1>1. IndexesOf("steering") \subseteq 1 .. Len(queue) /\ Len(queue) \in Nat
    BY DEF IndexesOf
  <1>2. IndexesOf("steering") # {} => First(IndexesOf("steering")) \in IndexesOf("steering")
    BY <1>1, FirstIsOne
  <1>3. queue # <<>> => 1 \in 1 .. Len(queue)
    OBVIOUS
  <1> QED
    BY <1>1, <1>2, <1>3 DEF NextIndex

\* A queue without one message is a queue.
LEMMA WithoutType ==
    ASSUME queue \in Seq(Message), NEW i \in 1 .. Len(queue)
    PROVE  Without(queue, i) \in Seq(Message) /\ queue[i] \in Message
  BY DEF Without

-----------------------------------------------------------------------------
\* Threads: a step moves the one thread that is not idle.

\* An idle thread is well typed.
LEMMA IdleType == Idle \in ThreadState
  BY DEF Idle, ThreadState, pcs, ops, Message, NoMessage, Snapshot, Empty

\* A thread that moves stays well typed.
LEMMA GotoType ==
    ASSUME NEW q \in ThreadState, NEW pc \in pcs
    PROVE  /\ [q EXCEPT !.pc = pc] \in ThreadState
           /\ [q EXCEPT !.pc = pc].pc = pc
           /\ [q EXCEPT !.pc = pc].plan = q.plan
           /\ [q EXCEPT !.pc = pc].call = q.call
           /\ [q EXCEPT !.pc = pc].op = q.op
           /\ [q EXCEPT !.pc = pc].snap = q.snap
  BY DEF ThreadState

\* A thread inside a call is the only one.
LEMMA Alone ==
    ASSUME IInv, NEW t \in Threads, ~At(t, "idle")
    PROVE  /\ \A u \in Threads \ {t} : At(u, "idle")
           /\ Sound(thread[t])
           /\ thread[t] \in ThreadState
           /\ thread \in [Threads -> ThreadState]
  BY DEF IInv, Typed, OneCall

\* A step of one thread that keeps its part of the invariant keeps all of it.
LEMMA Moves ==
    ASSUME NEW t \in Threads, \A u \in Threads \ {t} : At(u, "idle"),
           thread \in [Threads -> ThreadState],
           NEW q \in ThreadState, thread' = [thread EXCEPT ![t] = q],
           ~cancel', q.pc = "idle" => (FlagMeans /\ OnDisk)',
           q.pc # "idle" => Sound(thread[t])'
    PROVE  OneCall'
  <1>1. thread' \in [Threads -> ThreadState] /\ thread'[t] = q
    OBVIOUS
  <1>2. \A u \in Threads \ {t} : thread'[u] = thread[u] /\ thread[u].pc = "idle"
    BY DEF At
  <1>3. \A u, v \in Threads : ~At(u, "idle")' /\ ~At(v, "idle")' => u = v
    BY <1>1, <1>2 DEF At
  <1>4. AtRest' => (FlagMeans /\ OnDisk)'
    BY <1>1 DEF AtRest
  <1>5. \A u \in Threads : ~At(u, "idle")' => Sound(thread[u])'
    <2> TAKE u \in Threads
    <2>1. CASE u = t
      BY <1>1, <2>1 DEF At
    <2>2. CASE u # t
      BY <1>2, <2>2 DEF At
    <2> QED
      BY <2>1, <2>2
  <1> QED
    BY <1>1, <1>3, <1>4, <1>5 DEF OneCall

\* A call begins on an idle thread, and then every thread is idle.
LEMMA Begins ==
    ASSUME IInv, NEW t \in Threads, Free(t)
    PROVE  /\ \A u \in Threads : At(u, "idle")
           /\ thread \in [Threads -> ThreadState]
           /\ FlagMeans /\ OnDisk /\ ~cancel
  BY DEF IInv, OneAtATime, Typed, OneCall, Free, AtRest, At

-----------------------------------------------------------------------------
\* Every action keeps IInv: ...
Still == UNCHANGED <<setting, state, cancel, files, disk, counters, history>>

\* ... those that only move the thread ...
LEMMA Silent ==
    ASSUME IInv, NEW t \in Threads, \A u \in Threads \ {t} : At(u, "idle"),
           NEW q \in ThreadState, thread' = [thread EXCEPT ![t] = q], Still,
           q.pc = "idle" => FlagMeans /\ OnDisk, q.pc # "idle" => Sound(q)
    PROVE  IInv'
  <1>1. thread'[t] = q
    BY DEF IInv, OneCall
  <1>2. UNCHANGED <<pending, approvedFlag, files, disk, plans, approved, rejected, ran, escaped>>
    BY DEF Still, state, counters, history
  <1>3. q.pc # "idle" => Sound(thread[t])'
    BY <1>1, <1>2 DEF Sound, Holds, FlagMeans, OnDisk, LeftUp, LastRan, Cleared, LetThrough
  <1>4. q.pc = "idle" => (FlagMeans /\ OnDisk)'
    BY <1>2 DEF FlagMeans, OnDisk, LeftUp, LastRan
  <1>5. OneCall'
    BY <1>3, <1>4, Moves DEF IInv, OneCall, Still
  <1>6. Books'
    BY <1>2 DEF IInv, Books, LastRan, LetThrough, OneLeakPerException
  <1> QED
    BY <1>5, <1>6 DEF IInv, OneAtATime, Typed, Still, state, counters, history

\* ... as a call does when it begins ...
LEMMA CallsBegin ==
    ASSUME IInv, setting' = setting,
           \/ StartPrompt \/ StartContinue \/ StartApprove
           \/ \E h \in Hosts : StartReject(h) \/ \E d \in Steers : StartEnqueue(h, d)
    PROVE  IInv'
  <1>1. CASE StartPrompt \/ StartContinue \/ StartApprove
    <2>1. PICK pc \in {"prompt", "continue", "approve"} : Begin(Worker, pc, pc)
      BY <1>1 DEF StartPrompt, StartContinue, StartApprove
    <2> DEFINE q == [Idle EXCEPT !.pc = pc, !.op = pc, !.plan = pending]
    <2>2. Worker \in Threads /\ Free(Worker)
      BY <2>1 DEF Threads, Begin
    <2>3. q \in ThreadState /\ q.pc = pc /\ q.plan = pending /\ q.op = pc
      BY IdleType DEF ThreadState, pcs, ops, Idle, IInv, Typed
    <2>4. thread' = [thread EXCEPT ![Worker] = q] /\ Still
      BY <2>1 DEF Begin, Still
    <2> HIDE DEF q
    <2>5. Sound(q)
      BY <2>2, <2>3, Begins DEF Sound, Holds, IInv, Books
    <2> QED
      BY <2>2, <2>3, <2>4, <2>5, Begins, Silent
  <1>2. ASSUME NEW h \in Hosts, StartReject(h)
        PROVE  IInv'
    <2> DEFINE q == [Idle EXCEPT !.pc = "reject", !.plan = pending]
    <2>1. h \in Threads /\ Free(h)
      BY <1>2 DEF Threads, StartReject
    <2>2. q \in ThreadState /\ q.pc = "reject" /\ q.plan = pending /\ q.op = "none"
      BY IdleType DEF ThreadState, pcs, ops, Idle, IInv, Typed
    <2>3. thread' = [thread EXCEPT ![h] = q] /\ Still
      BY <1>2 DEF StartReject, Still
    <2> HIDE DEF q
    <2>4. Sound(q)
      BY <2>1, <2>2, Begins DEF Sound, Holds, IInv, Books
    <2> QED
      BY <2>1, <2>2, <2>3, <2>4, Begins, Silent
  <1>3. ASSUME NEW h \in Hosts, NEW d \in Steers, StartEnqueue(h, d)
        PROVE  IInv'
    <2> DEFINE q == [Idle EXCEPT !.pc = "append", !.msg.delivery = d]
    <2>1. h \in Threads /\ Free(h)
      BY <1>3 DEF Threads, StartEnqueue
    <2>2. q \in ThreadState /\ q.pc = "append" /\ q.plan = 0 /\ q.op = "none"
      BY BoundsAssumption, IdleType DEF ThreadState, pcs, ops, Idle, Message
    <2>3. thread' = [thread EXCEPT ![h] = q] /\ Still
      BY <1>3 DEF StartEnqueue, Still
    <2> HIDE DEF q
    <2>4. Sound(q)
      BY <2>1, <2>2, Begins DEF Sound, Holds, IInv, Typed
    <2> QED
      BY <2>1, <2>2, <2>3, <2>4, Begins, Silent
  <1> QED
    BY <1>1, <1>2, <1>3

\* ... and so do the decisions of the loop, the answers of the model and of the
\* tools, and the snapshot while it is filled.
LEMMA StepsThatOnlyMove ==
    ASSUME IInv, setting' = setting, NEW t \in Threads,
           \/ Turn(t) \/ ModelFails(t) \/ ModelSpeaks(t) \/ ModelCallsSafeTools(t)
           \/ Nudge(t) \/ CancelTools(t) \/ ToolRefused(t) \/ ToolReturns(t)
           \/ PersistMetadata(t) \/ PersistMessages(t)
    PROVE  IInv'
  <1>1. ~At(t, "idle")
    BY DEF At, Turn, ModelFails, ModelSpeaks, ModelCallsSafeTools, Nudge, CancelTools,
           ToolRefused, ToolReturns, PersistMetadata, PersistMessages
  <1> DEFINE r == thread[t]
             Result(q) == /\ q \in ThreadState /\ thread' = [thread EXCEPT ![t] = q]
                          /\ Still /\ q.pc # "idle" /\ Sound(q)
  <1>2. /\ \A u \in Threads \ {t} : At(u, "idle")
        /\ Sound(r) /\ r \in ThreadState /\ ~cancel /\ Typed /\ Books
    BY <1>1, Alone DEF IInv, OneCall
  <1> SUFFICES \E q : Result(q)
    BY <1>2, Silent
  <1>3. CASE Turn(t)
    <2>1. r.pc = "loop" /\ Still
      BY <1>3 DEF Turn, At, Still
    <2>2. ASSUME NEW pc \in {"tail", "model"}, Goto(t, pc), pending = 0 \/ ~approvedFlag,
                 pc = "model" => pending = 0
          PROVE  \E q : Result(q)
      <3> DEFINE q == [r EXCEPT !.pc = pc]
      <3>1. q \in ThreadState /\ q.pc = pc /\ q.plan = r.plan /\ q.op = r.op
        BY <1>2 DEF ThreadState, pcs
      <3>2. Sound(q)
        BY <1>2, <2>1, <2>2, <3>1 DEF Sound, Holds, FlagMeans, Holds, FlagMeans
      <3> QED
        BY <2>1, <2>2, <3>1, <3>2 DEF Goto
    <2>3. ASSUME thread' = [thread EXCEPT ![t] = [@ EXCEPT !.pc = "take", !.plan = pending]],
                 pending # 0, approvedFlag
          PROVE  \E q : Result(q)
      <3> DEFINE q == [r EXCEPT !.pc = "take", !.plan = pending]
      <3>1. q \in ThreadState /\ q.pc = "take" /\ q.plan = pending /\ q.op = r.op
        BY <1>2 DEF ThreadState, pcs, Typed
      <3>2. Sound(q)
        BY <1>2, <2>1, <2>3, <3>1 DEF Sound, Holds, FlagMeans, Books
      <3> QED
        BY <2>1, <2>3, <3>1, <3>2
    <2> QED
      BY <1>2, <1>3, <2>2, <2>3 DEF Turn
  <1>4. CASE ModelFails(t) \/ ModelSpeaks(t)
    <2>1. PICK pc \in {"tail", "said"} : Goto(t, pc)
      BY <1>4 DEF ModelFails, ModelSpeaks
    <2> DEFINE q == [r EXCEPT !.pc = pc]
    <2>2. r.pc = "model" /\ Still
      BY <1>4 DEF ModelFails, ModelSpeaks, At, Still
    <2>3. q \in ThreadState /\ q.pc = pc /\ q.plan = r.plan /\ q.op = r.op
      BY <1>2 DEF ThreadState, pcs
    <2>4. Sound(q)
      BY <1>2, <2>2, <2>3 DEF Sound, Holds, FlagMeans, Holds, FlagMeans
    <2> QED
      BY <2>1, <2>2, <2>3, <2>4 DEF Goto
  <1>5. CASE ModelCallsSafeTools(t)
    <2>1. PICK n \in 1 .. MaxCalls : StartTools(t, 0, n)
      BY <1>5 DEF ModelCallsSafeTools
    <2> DEFINE q == [r EXCEPT !.pc = "tools", !.plan = 0, !.call = n,
                              !.failed = FALSE, !.carryOn = FALSE, !.stopped = FALSE]
    <2>2. r.pc = "model" /\ Still
      BY <1>5 DEF ModelCallsSafeTools, At, Still
    <2>3. q \in ThreadState /\ q.pc = "tools" /\ q.plan = 0 /\ q.op = r.op
      <3>1. n \in Nat
        BY BoundsAssumption
      <3>2. q.pc = "tools" /\ q.plan = 0 /\ q.op = r.op
        BY <1>2 DEF ThreadState
      <3>3. q \in ThreadState
        BY <1>2, <3>1 DEF ThreadState, pcs
      <3> QED
        BY <3>2, <3>3
    <2>4. Sound(q)
      BY <1>2, <2>2, <2>3 DEF Sound, Holds, FlagMeans, Typed
    <2> QED
      BY <2>1, <2>2, <2>3, <2>4 DEF StartTools
  <1>6. CASE Nudge(t)
    <2> DEFINE q == [r EXCEPT !.pc = "loop", !.nudged = TRUE]
    <2>1. r.pc = "said" /\ Still /\ thread' = [thread EXCEPT ![t] = q]
      BY <1>6 DEF Nudge, At, Still
    <2>2. q \in ThreadState /\ q.pc = "loop" /\ q.plan = r.plan /\ q.op = r.op
      BY <1>2 DEF ThreadState, pcs
    <2>3. Sound(q)
      BY <1>2, <2>1, <2>2 DEF Sound, Holds, FlagMeans, Holds, FlagMeans
    <2> QED
      BY <2>1, <2>2, <2>3
  <1>7. CASE CancelTools(t)
    BY <1>2, <1>7 DEF CancelTools
  <1>8. CASE ToolRefused(t)
    <2>1. PICK c \in BOOLEAN :
             thread' = [thread EXCEPT ![t] = [@ EXCEPT !.call = r.call - 1, !.failed = TRUE,
                                                      !.carryOn = c]]
      BY <1>8 DEF ToolRefused
    <2> DEFINE q == [r EXCEPT !.call = r.call - 1, !.failed = TRUE, !.carryOn = c]
    <2>2. r.pc = "tools" /\ Still /\ r.call # 0
      BY <1>8 DEF ToolRefused, At, Still, LastCall
    <2>3. /\ q \in ThreadState /\ q.pc = "tools" /\ q.plan = r.plan /\ q.op = r.op
          /\ q.call = r.call - 1
      <3>1. r.call - 1 \in Nat /\ c \in BOOLEAN
        BY <1>2, <2>2, <2>1 DEF ThreadState
      <3>2. q.pc = "tools" /\ q.plan = r.plan /\ q.op = r.op /\ q.call = r.call - 1
        BY <1>2, <2>2 DEF ThreadState
      <3>3. q \in ThreadState
        BY <1>2, <2>2, <3>1 DEF ThreadState, pcs
      <3> QED
        BY <3>2, <3>3
    <2>4. Sound(q)
      BY <1>2, <2>2, <2>3 DEF Sound, Holds, FlagMeans, Typed, ThreadState
    <2>5. thread' = [thread EXCEPT ![t] = q]
      BY <2>1
    <2> QED
      BY <2>2, <2>3, <2>4, <2>5, Zenon
  <1>9. CASE ToolReturns(t)
    <2>1. r.pc = "ran" /\ Still /\ r.call \in Nat /\ r.call # 0 /\ r.plan \in Nat
      BY <1>2, <1>9 DEF ToolReturns, At, Still, Sound, ThreadState
    <2>2. ASSUME NEW go \in BOOLEAN,
                 thread' = [thread EXCEPT ![t] = [@ EXCEPT !.pc = "tools", !.call = r.call - 1,
                                                           !.keep = go]]
          PROVE  \E q : Result(q)
      <3> DEFINE q == [r EXCEPT !.pc = "tools", !.call = r.call - 1, !.keep = go]
      <3>1. /\ q \in ThreadState /\ q.pc = "tools" /\ q.plan = r.plan /\ q.op = r.op
            /\ q.call = r.call - 1
        <4>1. r.call - 1 \in Nat /\ go \in BOOLEAN
          BY <1>2, <2>1, <2>2 DEF ThreadState
        <4>2. q.pc = "tools" /\ q.plan = r.plan /\ q.op = r.op /\ q.call = r.call - 1
          BY <1>2, <2>1 DEF ThreadState
        <4>3. q \in ThreadState
          BY <1>2, <2>1, <4>1 DEF ThreadState, pcs
        <4> QED
          BY <4>2, <4>3
      <3>2. Sound(q)
        BY <1>2, <2>1, <3>1 DEF Sound, Holds, FlagMeans, Typed
      <3>3. thread' = [thread EXCEPT ![t] = q]
        BY <2>2
      <3> QED
        BY <2>1, <3>1, <3>2, <3>3, Zenon
    <2>3. ASSUME NEW c \in BOOLEAN,
                 thread' = [thread EXCEPT ![t] = [@ EXCEPT !.pc = "tools", !.call = r.call - 1,
                                                           !.failed = TRUE, !.carryOn = c]]
          PROVE  \E q : Result(q)
      <3> DEFINE q == [r EXCEPT !.pc = "tools", !.call = r.call - 1, !.failed = TRUE, !.carryOn = c]
      <3>1. /\ q \in ThreadState /\ q.pc = "tools" /\ q.plan = r.plan /\ q.op = r.op
            /\ q.call = r.call - 1
        <4>1. r.call - 1 \in Nat /\ c \in BOOLEAN
          BY <1>2, <2>1, <2>3 DEF ThreadState
        <4>2. q.pc = "tools" /\ q.plan = r.plan /\ q.op = r.op /\ q.call = r.call - 1
          BY <1>2, <2>1 DEF ThreadState
        <4>3. q \in ThreadState
          BY <1>2, <2>1, <4>1 DEF ThreadState, pcs
        <4> QED
          BY <4>2, <4>3
      <3>2. Sound(q)
        BY <1>2, <2>1, <3>1 DEF Sound, Holds, FlagMeans, Typed
      <3>3. thread' = [thread EXCEPT ![t] = q]
        BY <2>3
      <3> QED
        BY <2>1, <3>1, <3>2, <3>3, Zenon
    <2> QED
      BY <1>2, <1>9, <2>2, <2>3 DEF ToolReturns
  <1>10. CASE PersistMetadata(t)
    <2> DEFINE s == [pending |-> pending, queue |-> queue, convo |-> <<>>]
               q == [r EXCEPT !.pc = "sync", !.stopped = cancel, !.snap = s]
    <2>1. r.pc = "tail" /\ Still /\ thread' = [thread EXCEPT ![t] = q]
      BY <1>10 DEF PersistMetadata, At, Still
    <2>2. s \in Snapshot
      BY <1>2 DEF Snapshot, Typed
    <2>3. /\ q \in ThreadState /\ q.pc = "sync" /\ q.plan = r.plan /\ q.op = r.op
          /\ q.snap.pending = pending
      BY <1>2, <2>2 DEF ThreadState, pcs, Typed
    <2>4. Sound(q)
      BY <1>2, <2>1, <2>3 DEF Sound, Holds, FlagMeans, Books
    <2> QED
      BY <2>1, <2>3, <2>4
  <1>11. CASE PersistMessages(t)
    <2> DEFINE q == [r EXCEPT !.pc = "save", !.snap.convo = convo]
    <2>1. r.pc = "sync" /\ Still /\ thread' = [thread EXCEPT ![t] = q]
      BY <1>11 DEF PersistMessages, At, Still
    <2>2. /\ q \in ThreadState /\ q.pc = "save" /\ q.plan = r.plan /\ q.op = r.op
          /\ q.snap.pending = r.snap.pending
      BY <1>2 DEF ThreadState, pcs, Typed, Snapshot
    <2>3. Sound(q)
      BY <1>2, <2>1, <2>2 DEF Sound, Holds, FlagMeans, Holds, FlagMeans
    <2> QED
      BY <2>1, <2>2, <2>3
  <1> QED
    BY <1>3, <1>4, <1>5, <1>6, <1>7, <1>8, <1>9, <1>10, <1>11

-----------------------------------------------------------------------------
\* The three ways a thread is set: into a fresh loop, with a message, to rest.

\* A thread that enters the loop is well typed.
LEMMA LoopEntered ==
    ASSUME NEW t \in Threads, NEW d \in Nat, EnterLoop(t, d)
    PROVE  \E q \in ThreadState : /\ thread' = [thread EXCEPT ![t] = q]
                                 /\ q.pc = "loop" /\ q.plan = 0 /\ q.op = "loop"
  <1> DEFINE q == [Idle EXCEPT !.pc = "loop", !.op = "loop", !.depth = d]
  <1>1. q \in ThreadState /\ q.pc = "loop" /\ q.plan = 0 /\ q.op = "loop"
    BY IdleType DEF ThreadState, pcs, ops, Idle
  <1> QED
    BY <1>1 DEF EnterLoop

\* So is one that takes a message, and the queue it leaves.
LEMMA MessageTaken ==
    ASSUME NEW t \in Threads, thread[t] \in ThreadState, queue \in Seq(Message),
           NEW i \in 1 .. Len(queue), Dequeue(t, i)
    PROVE  /\ queue' \in Seq(Message)
           /\ \E q \in ThreadState : /\ thread' = [thread EXCEPT ![t] = q] /\ q.pc = "inject"
                                    /\ q.plan = thread[t].plan /\ q.op = thread[t].op
  <1> DEFINE q == [thread[t] EXCEPT !.pc = "inject", !.msg = queue[i]]
  <1>1. q \in ThreadState /\ q.pc = "inject" /\ q.plan = thread[t].plan /\ q.op = thread[t].op
    BY WithoutType DEF ThreadState, pcs
  <1> QED
    BY <1>1, WithoutType DEF Dequeue

\* So is one that only moves on.
LEMMA PcSet ==
    ASSUME NEW t \in Threads, thread[t] \in ThreadState, NEW pc \in pcs, Goto(t, pc)
    PROVE  \E q \in ThreadState :
              /\ thread' = [thread EXCEPT ![t] = q] /\ q.pc = pc /\ q.op = thread[t].op
              /\ q.plan = thread[t].plan /\ q.call = thread[t].call
  BY GotoType DEF Goto

\* The fields of an idle thread.
LEMMA IdleFields == Idle.pc = "idle" /\ Idle.plan = 0 /\ Idle.op = "none"
  BY DEF Idle

\* The calls and the entries of the runtime keep IInv.
LEMMA Entries ==
    ASSUME IInv, setting' = setting, NEW t \in Threads,
           \/ AppendMessage(t) \/ Reject(t)
           \/ Prompt(t) \/ Continue(t) \/ Approve(t) \/ Grant(t)
    PROVE  IInv'
  <1> DEFINE r == thread[t]
  <1>1. ~At(t, "idle")
    BY DEF At, AppendMessage, Reject, Prompt, Continue, Approve, Grant
  <1>2. /\ \A u \in Threads \ {t} : At(u, "idle")
        /\ Sound(r) /\ r \in ThreadState /\ ~cancel /\ Typed /\ Books
        /\ thread \in [Threads -> ThreadState]
    BY <1>1, Alone DEF IInv, OneCall
  <1>3. CASE AppendMessage(t)
    <2> DEFINE m == [r.msg EXCEPT !.id = sent + 1]
               q == [r EXCEPT !.pc = "tail", !.op = "enqueue", !.msg = m]
    <2>1. m \in Message
      <3>1. r.msg \in Message /\ sent + 1 \in Nat
        BY <1>2 DEF ThreadState, Typed
      <3> QED
        BY <3>1 DEF Message
    <2>2. r.pc = "append" /\ sent' = sent + 1 /\ queue' = Append(queue, m)
      BY <1>3 DEF AppendMessage, At
    <2>3. UNCHANGED <<pending, approvedFlag, convo, cancel, files, disk, plans, crashes, history>>
      BY <1>3 DEF AppendMessage
    <2>4. thread' = [thread EXCEPT ![t] = q]
      BY <1>3 DEF AppendMessage
    <2>5. q \in ThreadState /\ q.pc = "tail" /\ q.op = "enqueue" /\ q.plan = r.plan
      BY <1>2, <2>1 DEF ThreadState, pcs, ops
    <2> HIDE DEF m, q
    <2>6. Sound(thread[t])'
      BY <1>2, <2>2, <2>3, <2>4, <2>5 DEF Sound, Holds, FlagMeans, OnDisk, LeftUp, LastRan,
         Cleared, LetThrough, history
    <2>7. OneCall'
      BY <1>2, <2>3, <2>4, <2>5, <2>6, Moves
    <2>8. Typed' /\ Books'
      BY <1>2, <2>1, <2>2, <2>3 DEF Typed, Books, LastRan, LetThrough, OneLeakPerException, history
    <2> QED
      BY <2>7, <2>8 DEF IInv, OneAtATime
  <1>4. CASE Reject(t)
    <2> DEFINE q == [r EXCEPT !.pc = "tail", !.op = "reject"]
    <2>1. /\ r.pc = "reject" /\ files' = files \ {r.plan} /\ pending' = 0
          /\ thread' = [thread EXCEPT ![t] = q]
          /\ UNCHANGED <<approvedFlag, queue, convo, cancel, disk, counters, history>>
      BY <1>4 DEF Reject, At
    <2>2. q \in ThreadState /\ q.pc = "tail" /\ q.op = "reject" /\ q.plan = r.plan
      BY <1>2 DEF ThreadState, pcs, ops
    <2> HIDE DEF q
    <2>3. Sound(thread[t])'
      BY <1>2, <2>1, <2>2 DEF Sound, Holds, FlagMeans, OnDisk, LeftUp, LastRan, Cleared,
         LetThrough, history, counters
    <2>4. OneCall'
      BY <1>2, <2>1, <2>2, <2>3, Moves
    <2>5. Typed'
      BY <1>2, <2>1 DEF Typed, history, counters
    <2>6. UNCHANGED <<disk, plans, approved, rejected, ran, escaped>> /\ 0 <= plans
      BY <1>2, <2>1 DEF Typed, history, counters
    <2>7. files' \subseteq files
      BY <2>1
    <2>8. Books'
      BY <1>2, <2>1, <2>6, <2>7 DEF Books, LastRan, LetThrough, OneLeakPerException
    <2> QED
      BY <2>4, <2>5, <2>8 DEF IInv, OneAtATime
  <1>5. CASE Prompt(t)
    <2>1. PICK q \in ThreadState : /\ thread' = [thread EXCEPT ![t] = q]
                                  /\ q.pc = "loop" /\ q.plan = 0 /\ q.op = "loop"
      BY <1>5, LoopEntered DEF Prompt
    <2>2. /\ r.pc = "prompt" /\ ~cancel'
          /\ UNCHANGED <<state, files, disk, counters, history>>
      BY <1>5 DEF Prompt, At
    <2>3. Sound(thread[t])'
      BY <1>2, <2>1, <2>2 DEF Sound, Holds, FlagMeans, OnDisk, LeftUp, LastRan, Cleared,
         LetThrough, Typed, state, history, counters
    <2>4. OneCall'
      BY <1>2, <2>1, <2>2, <2>3, Moves DEF state
    <2>5. Typed' /\ Books'
      BY <1>2, <1>5, <2>2 DEF Prompt, Typed, Books, LastRan, LetThrough, OneLeakPerException,
         state, history, counters
    <2> QED
      BY <2>4, <2>5 DEF IInv, OneAtATime
  <1>6. CASE Continue(t)
    <2>1. /\ r.pc = "continue" /\ cancel' = FALSE
          /\ UNCHANGED <<pending, approvedFlag, convo, files, disk, counters, history>>
      BY <1>6 DEF Continue, At
    <2>2. queue' \in Seq(Message) /\
          \E q \in ThreadState : /\ thread' = [thread EXCEPT ![t] = q]
                                /\ \/ q.pc = "inject" /\ q.plan = r.plan /\ q.op = r.op /\ pending = 0
                                   \/ q.pc = "loop" /\ q.plan = 0 /\ q.op = "loop"
      <3>1. CASE pending = 0 /\ queue # <<>>
        BY <1>2, <1>6, <3>1, IndexIsOne, MessageTaken DEF Continue, Typed
      <3>2. CASE ~(pending = 0 /\ queue # <<>>)
        BY <1>2, <1>6, <3>2, LoopEntered DEF Continue, Typed
      <3> QED
        BY <3>1, <3>2
    <2>3. PICK q \in ThreadState : /\ thread' = [thread EXCEPT ![t] = q]
                                  /\ \/ q.pc = "inject" /\ q.plan = r.plan /\ q.op = r.op /\ pending = 0
                                     \/ q.pc = "loop" /\ q.plan = 0 /\ q.op = "loop"
      BY <2>2
    <2>4. Sound(thread[t])'
      BY <1>2, <2>1, <2>3 DEF Sound, Holds, FlagMeans, OnDisk, LeftUp, LastRan, Cleared,
         LetThrough, Typed, history, counters
    <2>5. OneCall'
      BY <1>2, <2>1, <2>3, <2>4, Moves
    <2>6. Typed' /\ Books'
      BY <1>2, <2>1, <2>2 DEF Typed, Books, LastRan, LetThrough, OneLeakPerException, history,
         counters
    <2> QED
      BY <2>5, <2>6 DEF IInv, OneAtATime
  <1>7. CASE Approve(t)
    <2>1. /\ r.pc = "approve" /\ cancel' = FALSE
          /\ UNCHANGED <<state, files, disk, counters, history>>
      BY <1>7 DEF Approve, At
    <2>2. PICK q \in ThreadState : /\ thread' = [thread EXCEPT ![t] = q]
                                  /\ \/ /\ q.pc = "grant" /\ q.plan = r.plan /\ q.op = r.op
                                        /\ r.plan = pending /\ pending \in files
                                     \/ q.pc = "idle"
      <3>1. CASE r.plan = pending /\ pending \in files
        <4>1. "grant" \in pcs /\ Goto(t, "grant")
          BY <1>7, <3>1 DEF Approve, pcs
        <4> QED
          BY <1>2, <3>1, <4>1, PcSet
      <3>2. CASE ~(r.plan = pending /\ pending \in files)
        BY <1>7, <3>2, IdleType, IdleFields DEF Approve, Finish
      <3> QED
        BY <3>1, <3>2
    <2>3. q.pc # "idle" => Sound(thread[t])'
      BY <1>2, <2>1, <2>2 DEF Sound, Holds, FlagMeans, OnDisk, LeftUp, LastRan, Cleared,
         LetThrough, Typed, state, history, counters
    <2>4. (FlagMeans /\ OnDisk)'
      BY <1>2, <2>1 DEF Sound, Holds, FlagMeans, OnDisk, LeftUp, LastRan, Cleared, LetThrough,
         state, history
    <2>5. OneCall'
      BY <1>2, <2>1, <2>2, <2>3, <2>4, Moves
    <2>6. Typed' /\ Books'
      BY <1>2, <2>1, <1>7 DEF Typed, Books, LastRan, LetThrough, OneLeakPerException, state,
         history, counters
    <2> QED
      BY <2>5, <2>6 DEF IInv, OneAtATime
  <1>8. CASE Grant(t)
    <2>1. PICK q \in ThreadState : /\ thread' = [thread EXCEPT ![t] = q]
                                  /\ q.pc = "loop" /\ q.plan = 0 /\ q.op = "loop"
      BY <1>8, LoopEntered DEF Grant
    <2>2. /\ r.pc = "grant" /\ files' = files \ {r.plan} /\ approvedFlag' = TRUE
          /\ approved' = approved \union {r.plan}
          /\ UNCHANGED <<pending, queue, convo, cancel, disk, counters, acked, rejected, ran, escaped>>
      BY <1>8 DEF Grant, At
    <2>3. /\ r.plan = pending /\ r.plan \in 1 .. plans /\ plans \in Nat
          /\ r.plan \in files /\ OnDisk
      BY <1>2, <2>2 DEF Sound, Books, Typed
    <2>4. Cleared(pending)'
      \* a plan that has run and whose file is there was let through
      <3>1. ASSUME NEW c \in ran, c[1] = pending
            PROVE  LetThrough(pending)
        BY <1>2, <2>3, <3>1 DEF Books, OneLeakPerException
      <3>2. LetThrough(pending)' <=> LetThrough(pending)
        BY <2>2 DEF LetThrough
      <3> QED
        BY <2>2, <2>3, <3>1, <3>2 DEF Cleared
    <2>7. Sound(thread[t])'
      BY <1>2, <2>1, <2>2, <2>3, <2>4 DEF Sound, Holds, OnDisk, counters
    <2>5. OneCall'
      BY <1>2, <2>1, <2>2, <2>7, Moves
    <2>6. Typed'
      BY <1>2, <2>2, <2>3 DEF Typed, counters
    <2>8. Books'
      BY <1>2, <2>2, <2>3 DEF Books, LastRan, LetThrough, OneLeakPerException, counters
    <2> QED
      BY <2>5, <2>6, <2>8 DEF IInv, OneAtATime
  <1> QED
    BY <1>3, <1>4, <1>5, <1>6, <1>7, <1>8

\* The steps of _run_loop that change the flag, the plan, the queue or the history
\* keep IInv.
LEMMA LoopSteps ==
    ASSUME IInv, setting' = setting, NEW t \in Threads,
           \/ Take(t) \/ ModelPlans(t) \/ Stage(t) \/ Pause(t) \/ AfterAssistant(t)
           \/ RunTool(t) \/ HookRaises(t) \/ EndRound(t) \/ AfterToolRound(t) \/ Inject(t)
    PROVE  IInv'
  <1> DEFINE r == thread[t]
  <1>1. ~At(t, "idle")
    BY DEF At, Take, ModelPlans, Stage, Pause, AfterAssistant, RunTool, HookRaises,
           EndRound, AfterToolRound, Inject
  <1>2. /\ \A u \in Threads \ {t} : At(u, "idle")
        /\ Sound(r) /\ r \in ThreadState /\ ~cancel /\ Typed /\ Books
        /\ thread \in [Threads -> ThreadState]
        /\ r.plan \in Nat /\ plans \in Nat
    BY <1>1, Alone DEF IInv, OneCall, ThreadState, Typed
  <1>3. CASE Take(t)
    <2> DEFINE q == [r EXCEPT !.pc = "tools", !.plan = r.plan, !.call = MaxCalls,
                              !.failed = FALSE, !.carryOn = FALSE, !.stopped = FALSE]
    <2>1. /\ r.pc = "take" /\ pending' = 0
          /\ UNCHANGED <<approvedFlag, queue, convo, cancel, files, disk, counters, history>>
          /\ thread' = [thread EXCEPT ![t] = q]
      BY <1>3 DEF Take, At, StartTools
    <2>2. q.pc = "tools" /\ q.plan = r.plan /\ q.op = r.op
      BY <1>2 DEF ThreadState
    <2>3. q \in ThreadState
      BY <1>2, BoundsAssumption DEF ThreadState, pcs
    <2> HIDE DEF q
    <2>7. /\ r.plan = pending /\ pending # 0 /\ approvedFlag /\ pending = disk.pending
          /\ pending \notin rejected /\ Cleared(pending)
      <3>1. /\ r.plan = pending /\ pending # 0 /\ approvedFlag /\ pending = disk.pending
            /\ pending \notin rejected /\ (LeftUp \/ Cleared(pending))
        BY <1>2, <2>1 DEF Sound, Holds, FlagMeans, OnDisk, Books
      <3>2. LeftUp => LetThrough(pending)
        <4> SUFFICES ASSUME NEW e \in escaped, LastRan(e), e < pending
                     PROVE  LetThrough(pending)
          BY <3>1 DEF LeftUp
        <4> QED
          BY <1>2 DEF LastRan, LetThrough, Typed
      <3> QED
        BY <3>1, <3>2 DEF Cleared
    <2>8. UNCHANGED <<approved, rejected, ran, escaped, disk, plans, files>>
      BY <2>1 DEF history, counters
    <2>4. Sound(thread[t])'
      BY <1>2, <2>1, <2>2, <2>7, <2>8 DEF Sound, Holds, OnDisk, Cleared, LetThrough
    <2>5. OneCall'
      BY <1>2, <2>1, <2>2, <2>3, <2>4, Moves
    <2>6. Typed' /\ Books'
      BY <1>2, <2>1 DEF Typed, Books, LastRan, LetThrough, OneLeakPerException, history, counters
    <2> QED
      BY <2>5, <2>6 DEF IInv, OneAtATime
  <1>4. CASE ModelPlans(t)
    <2> DEFINE q == [r EXCEPT !.pc = "stage", !.plan = plans + 1]
    <2>1. r.pc = "model" /\ pending = 0
      BY <1>2, <1>4 DEF ModelPlans, At, Sound
    <2>2. /\ plans' = plans + 1 /\ thread' = [thread EXCEPT ![t] = q]
          /\ UNCHANGED <<state, cancel, files, disk, sent, crashes, history>>
      BY <1>4, <2>1 DEF ModelPlans
    <2>3. q \in ThreadState /\ q.pc = "stage" /\ q.plan = plans + 1 /\ q.op = r.op
      <3>1. plans + 1 \in Nat
        BY <1>2
      <3>2. q.pc = "stage" /\ q.plan = plans + 1 /\ q.op = r.op
        BY <1>2 DEF ThreadState
      <3>3. q \in ThreadState
        BY <1>2, <3>1 DEF ThreadState, pcs
      <3> QED
        BY <3>2, <3>3
    <2> HIDE DEF q
    <2>8. UNCHANGED <<pending, approvedFlag, disk, files, approved, rejected, ran, escaped>>
      BY <2>2 DEF state, history
    <2>9. /\ FlagMeans /\ OnDisk
          /\ plans + 1 \notin approved \union rejected
          /\ \A c \in ran : c[1] < plans + 1
          /\ \A e \in escaped : e < plans + 1
      BY <1>2, <2>1 DEF Sound, Holds, Books
    <2>10. FlagMeans' /\ OnDisk'
      BY <2>8, <2>9 DEF FlagMeans, OnDisk, LeftUp, LastRan
    <2>4. Sound(thread[t])'
      BY <1>2, <2>1, <2>2, <2>3, <2>8, <2>9, <2>10 DEF Sound, Holds
    <2>5. OneCall'
      BY <1>2, <2>1, <2>2, <2>3, <2>4, Moves
    <2>6. Typed'
      BY <1>2, <2>2 DEF Typed, state, history
    <2>7. Books'
      <3>1. UNCHANGED <<files, approved, rejected, pending, disk, ran, escaped>>
        BY <2>2 DEF state, history
      <3>2. pending \in Nat /\ disk.pending \in Nat
        BY <1>2 DEF Typed, Snapshot
      <3> QED
        BY <1>2, <2>2, <3>1, <3>2 DEF Books, LastRan, LetThrough, OneLeakPerException
    <2> QED
      BY <2>5, <2>6, <2>7 DEF IInv, OneAtATime
  <1>5. CASE Stage(t)
    <2>1. /\ r.pc = "stage" /\ files' = files \union {r.plan} /\ Goto(t, "pause")
          /\ UNCHANGED <<state, cancel, disk, counters, history>>
      BY <1>5 DEF Stage, At
    <2>2. PICK q \in ThreadState :
              /\ thread' = [thread EXCEPT ![t] = q] /\ q.pc = "pause" /\ q.op = r.op
              /\ q.plan = r.plan
      BY <1>2, <2>1, PcSet DEF pcs
    <2>3. Sound(thread[t])'
      BY <1>2, <2>1, <2>2 DEF Sound, Holds, FlagMeans, OnDisk, LeftUp, LastRan, Cleared,
         LetThrough, state, history, counters
    <2>4. OneCall'
      BY <1>2, <2>1, <2>2, <2>3, Moves
    <2>5. Typed'
      BY <1>2, <2>1 DEF Typed, state, history, counters
    <2>6. r.plan \in 1 .. plans /\ r.plan \notin approved \union rejected
      BY <1>2, <2>1 DEF Sound, Holds, FlagMeans, OnDisk, LeftUp, LastRan, Cleared, LetThrough
    <2>7. Books'
      BY <1>2, <2>1, <2>6 DEF Books, LastRan, LetThrough, OneLeakPerException, state, history,
         counters
    <2> QED
      BY <2>4, <2>5, <2>7 DEF IInv, OneAtATime
  <1>6. CASE Pause(t)
    <2>1. /\ r.pc = "pause" /\ pending' = r.plan /\ Goto(t, "tail")
          /\ UNCHANGED <<approvedFlag, queue, convo, cancel, files, disk, counters, history>>
      BY <1>6 DEF Pause, At
    <2>2. PICK q \in ThreadState :
              /\ thread' = [thread EXCEPT ![t] = q] /\ q.pc = "tail" /\ q.op = r.op
              /\ q.plan = r.plan
      BY <1>2, <2>1, PcSet DEF pcs
    <2>3. Sound(thread[t])'
      BY <1>2, <2>1, <2>2 DEF Sound, Holds, FlagMeans, OnDisk, LeftUp, LastRan, Cleared,
         LetThrough, history, counters
    <2>4. OneCall'
      BY <1>2, <2>1, <2>2, <2>3, Moves
    <2>5. Typed' /\ Books'
      BY <1>2, <2>1 DEF Sound, Holds, FlagMeans, OnDisk, LeftUp, LastRan, Cleared, LetThrough,
         Typed, Books, LastRan, LetThrough, OneLeakPerException, history, counters
    <2> QED
      BY <2>4, <2>5 DEF IInv, OneAtATime
  <1>7. CASE AfterAssistant(t) \/ AfterToolRound(t)
    <2>1. /\ r.pc \in {"said", "round"}
          /\ UNCHANGED <<pending, approvedFlag, convo, cancel, files, disk, counters, history>>
      BY <1>7 DEF AfterAssistant, AfterToolRound, At
    <2>2. queue' \in Seq(Message) /\
          \E q \in ThreadState : /\ thread' = [thread EXCEPT ![t] = q]
                                /\ q.pc \in {"inject", "tail", "loop"}
                                /\ q.plan = r.plan /\ q.op = r.op
      <3>1. ASSUME NEW i \in 1 .. Len(queue), Dequeue(t, i)
            PROVE  <2>2!:
        BY <1>2, <3>1, MessageTaken DEF Typed
      <3>2. ASSUME NEW pc \in {"tail", "loop"}, Goto(t, pc), queue' = queue
            PROVE  <2>2!:
        BY <1>2, <3>2, PcSet DEF Typed, pcs
      <3>3. queue \in Seq(Message)
        BY <1>2 DEF Typed
      <3>4. CASE AfterAssistant(t)
        BY <3>1, <3>2, <3>3, <3>4, IndexIsOne DEF AfterAssistant
      <3>5. CASE AfterToolRound(t)
        BY <3>1, <3>2, <3>3, <3>5, IndexIsOne DEF AfterToolRound
      <3> QED
        BY <1>7, <3>4, <3>5
    <2>3. PICK q \in ThreadState : /\ thread' = [thread EXCEPT ![t] = q]
                                  /\ q.pc \in {"inject", "tail", "loop"}
                                  /\ q.plan = r.plan /\ q.op = r.op
      BY <2>2
    <2>4. Sound(thread[t])'
      BY <1>2, <2>1, <2>3 DEF Sound, Holds, FlagMeans, OnDisk, LeftUp, LastRan, Cleared,
         LetThrough, history, counters
    <2>5. OneCall'
      BY <1>2, <2>1, <2>3, <2>4, Moves
    <2>6. Typed' /\ Books'
      BY <1>2, <2>1, <2>2 DEF Typed, Books, LastRan, LetThrough, OneLeakPerException, history,
         counters
    <2> QED
      BY <2>5, <2>6 DEF IInv, OneAtATime
  <1>8. CASE RunTool(t)
    <2>1. /\ r.pc = "tools" /\ r.call # 0 /\ Goto(t, "ran")
          /\ ran' = IF r.plan = 0 THEN ran ELSE ran \union {<<r.plan, r.call>>}
          /\ UNCHANGED <<state, cancel, files, disk, counters, approved, rejected, escaped>>
      BY <1>8 DEF RunTool, At, LastCall
    <2>2. PICK q \in ThreadState :
              /\ thread' = [thread EXCEPT ![t] = q] /\ q.pc = "ran" /\ q.op = r.op
              /\ q.plan = r.plan /\ q.call = r.call
      BY <1>2, <2>1, PcSet DEF pcs
    <2>3. r.call \in Nat /\ \A c \in ran : c[1] \in Nat /\ c[2] \in Nat
      BY <1>2 DEF ThreadState, Typed
    <2>4. /\ r.plan # 0 => /\ r.plan = disk.pending /\ r.plan \notin rejected
                           /\ r.plan \in approved \/ LetThrough(r.plan)
                           /\ LetThrough(r.plan) \/ \A c \in ran : c[1] = r.plan => c[2] > r.call
                           /\ \A c \in ran : c[1] <= r.plan
          /\ r.plan = 0 => FlagMeans
          /\ pending = 0 /\ escaped \subseteq Nat
      BY <1>2, <2>1 DEF Sound, Holds, Books, Typed, LastRan
    <2>5. \A p \in Nat : (LetThrough(p) /\ (r.plan # 0 => p <= r.plan)) => LetThrough(p)'
      <3> SUFFICES ASSUME NEW p \in Nat, LetThrough(p), r.plan # 0 => p <= r.plan
                   PROVE  \E e \in escaped' : e < p /\ \A c \in ran' : ~(e < c[1] /\ c[1] < p)
        BY DEF LetThrough
      <3> QED
        BY <1>2, <2>1, <2>4 DEF LetThrough
    <2>6. Sound(thread[t])'
      <3>1. UNCHANGED <<pending, approvedFlag, disk, plans, files, approved, rejected, escaped>>
        BY <2>1 DEF state, counters
      <3>2. Holds(thread[t])' \/ FlagMeans'
        BY <1>2, <2>1, <2>2, <2>4, <3>1 DEF Holds, FlagMeans, LeftUp, LastRan
      <3>3. r.plan # 0 => (r.plan \in approved \/ \E e \in escaped : e < r.plan /\ \A c \in ran' : ~(e < c[1] /\ c[1] < r.plan))
        BY <1>2, <2>4, <2>1 DEF LetThrough
      <3>4. r.plan # 0 => \/ \E e \in escaped : e < r.plan /\ \A c \in ran' : ~(e < c[1] /\ c[1] < r.plan)
                         \/ \A c \in ran' : c[1] = r.plan => c[2] >= r.call
        BY <1>2, <2>1, <2>3, <2>4 DEF LetThrough
      <3>5. thread'[t].plan = r.plan /\ thread'[t].pc = "ran" /\ thread'[t].call = r.call
            /\ thread'[t].op = r.op
        BY <1>2, <2>2
      <3>6. LetThrough(thread[t].plan)' <=>
              \E e \in escaped : e < r.plan /\ \A c \in ran' : ~(e < c[1] /\ c[1] < r.plan)
        BY <3>1, <3>5 DEF LetThrough
      <3> QED
        BY <1>2, <2>1, <2>4, <3>1, <3>2, <3>3, <3>4, <3>5, <3>6 DEF Sound, Holds, OnDisk
    <2>7. OneCall'
      BY <1>2, <2>1, <2>2, <2>6, Moves
    <2>8. Typed'
      BY <1>2, <2>1, <2>3 DEF Typed, state, counters
    <2>9. Books'
      <3>1. UNCHANGED <<pending, disk, plans, files, approved, rejected, escaped>>
        BY <2>1 DEF state, counters
      <3>2. \A c \in ran' : c[1] \in 1 .. plans
        BY <1>2, <2>1 DEF Sound, Books
      <3>3. disk.pending # 0 => \A c \in ran' : c[1] <= disk.pending
        BY <1>2, <2>1, <2>3, <2>4 DEF Books, LastRan
      <3>4. ASSUME NEW c \in ran'
            PROVE  c[1] \in approved \/ LetThrough(c[1])'
        <4>1. CASE r.plan = 0
          BY <1>2, <2>1, <2>3, <2>5, <4>1 DEF Books, OneLeakPerException
        <4>2. CASE r.plan # 0
          <5>1. c[1] \in Nat /\ c[1] <= r.plan /\ (c[1] \in approved \/ LetThrough(c[1]))
            BY <1>2, <2>1, <2>3, <2>4, <4>2 DEF Books, OneLeakPerException
          <5> QED
            BY <2>5, <5>1
        <4> QED
          BY <4>1, <4>2
      <3>5. OneLeakPerException'
        BY <3>1, <3>4 DEF OneLeakPerException
      <3> QED
        BY <1>2, <2>4, <3>1, <3>2, <3>3, <3>5 DEF Books, LastRan
    <2> QED
      BY <2>7, <2>8, <2>9 DEF IInv, OneAtATime
  <1>9. CASE EndRound(t)
    <2>1. /\ r.pc = "tools" /\ approvedFlag' = FALSE /\ Goto(t, "round")
          /\ UNCHANGED <<pending, queue, convo, cancel, files, disk, counters, history>>
      BY <1>9 DEF EndRound, At
    <2>2. PICK q \in ThreadState :
              /\ thread' = [thread EXCEPT ![t] = q] /\ q.pc = "round" /\ q.op = r.op
              /\ q.plan = r.plan
      BY <1>2, <2>1, PcSet DEF pcs
    <2>3. Sound(thread[t])'
      BY <1>2, <2>1, <2>2 DEF Sound, Holds, FlagMeans, OnDisk, LeftUp, LastRan, Cleared,
         LetThrough, history, counters
    <2>4. OneCall'
      BY <1>2, <2>1, <2>2, <2>3, Moves
    <2>5. Typed' /\ Books'
      BY <1>2, <2>1 DEF Typed, Books, LastRan, LetThrough, OneLeakPerException, history, counters
    <2> QED
      BY <2>4, <2>5 DEF IInv, OneAtATime
  <1>10. CASE Inject(t)
    <2>1. /\ r.pc = "inject" /\ convo' = Append(convo, r.msg)
          /\ UNCHANGED <<pending, approvedFlag, queue, cancel, files, disk, counters, history>>
          /\ EnterLoop(t, IF r.op = "continue" THEN 0 ELSE r.depth + 1)
      BY <1>10 DEF Inject, At
    <2>2. r.depth \in Nat /\ r.msg \in Message
      BY <1>2 DEF ThreadState
    <2>3. PICK q \in ThreadState : /\ thread' = [thread EXCEPT ![t] = q]
                                  /\ q.pc = "loop" /\ q.plan = 0 /\ q.op = "loop"
      BY <2>1, <2>2, LoopEntered
    <2>4. Sound(thread[t])'
      BY <1>2, <2>1, <2>3 DEF Sound, Holds, FlagMeans, OnDisk, LeftUp, LastRan, Cleared,
         LetThrough, history, counters
    <2>5. OneCall'
      BY <1>2, <2>1, <2>3, <2>4, Moves
    <2>6. Typed' /\ Books'
      BY <1>2, <2>1, <2>2 DEF Typed, Books, LastRan, LetThrough, OneLeakPerException, history,
         counters
    <2> QED
      BY <2>5, <2>6 DEF IInv, OneAtATime
  <1>11. CASE HookRaises(t)
    <2>1. /\ r.pc = "tools" /\ Finish(t)
          /\ escaped' = IF r.plan = 0 THEN escaped ELSE escaped \union {r.plan}
          /\ UNCHANGED <<state, cancel, files, disk, counters, approved, rejected, ran>>
      BY <1>11 DEF HookRaises, At
    <2>2. /\ pending = 0 /\ (Holds(r) \/ FlagMeans)
          /\ r.plan # 0 => r.plan = disk.pending /\ LastRan(r.plan) /\ r.plan \in 1 .. plans
      BY <1>2, <2>1 DEF Sound, Holds, Books
    <2>3. UNCHANGED <<pending, approvedFlag, disk, plans, files, approved, rejected, ran>>
      BY <2>1 DEF state, counters
    <2>4. FlagMeans' /\ OnDisk'
      <3>1. CASE r.plan = 0
        BY <2>1, <2>2, <2>3, <3>1 DEF Holds, FlagMeans, LeftUp, LastRan, OnDisk
      <3>2. CASE r.plan # 0
        BY <2>1, <2>2, <2>3, <3>2 DEF FlagMeans, LeftUp, LastRan, OnDisk
      <3> QED
        BY <3>1, <3>2
    <2>5. OneCall'
      BY <1>2, <2>1, <2>4, Moves, IdleType, IdleFields DEF Finish
    <2>6. Typed'
      BY <1>2, <2>1 DEF Typed, state, counters
    <2>7. escaped \subseteq escaped' /\ escaped' \subseteq 1 .. plans
      BY <1>2, <2>1, <2>2 DEF Books
    <2>8. Books'
      BY <1>2, <2>3, <2>7 DEF Books, LastRan, LetThrough, OneLeakPerException
    <2> QED
      BY <2>5, <2>6, <2>8 DEF IInv, OneAtATime
  <1> QED
    BY <1>3, <1>4, <1>5, <1>6, <1>7, <1>8, <1>9, <1>10, <1>11

\* So does the end of a save, which unwinds the nested loops, and a restart.
LEMMA Saved ==
    ASSUME IInv, setting' = setting, NEW t \in Threads, PersistSave(t)
    PROVE  IInv'
  <1> DEFINE r == thread[t]
             up == [Idle EXCEPT !.pc = "tail", !.op = "loop", !.depth = r.depth - 1]
  <1>1. /\ r.pc = "save" /\ disk' = r.snap /\ UNCHANGED <<state, files, counters, approved, ran, escaped>>
        /\ cancel' = (cancel /\ ~(r.op = "loop" /\ r.stopped))
        /\ rejected' = IF r.op = "reject" THEN rejected \union {r.plan} ELSE rejected
        /\ IF r.depth > 0 THEN thread' = [thread EXCEPT ![t] = up] ELSE Finish(t)
    BY DEF PersistSave, At
  <1>2. ~At(t, "idle")
    BY <1>1 DEF At
  <1>3. /\ \A u \in Threads \ {t} : At(u, "idle")
        /\ Sound(r) /\ r \in ThreadState /\ ~cancel /\ Typed /\ Books
        /\ thread \in [Threads -> ThreadState]
        /\ r.plan \in Nat /\ r.depth \in Nat /\ r.snap \in Snapshot
    BY <1>2, Alone DEF IInv, OneCall, ThreadState
  <1>4. ~cancel'
    BY <1>1, <1>3
  <1>5. PICK q \in ThreadState : /\ thread' = [thread EXCEPT ![t] = q] /\ q.plan = 0
                                /\ \/ q.pc = "tail" /\ q.op = "loop"
                                   \/ q.pc = "idle"
    <2>1. CASE r.depth > 0
      <3>1. r.depth - 1 \in Nat
        BY <1>3, <2>1
      <3>2. up \in ThreadState /\ up.plan = 0 /\ up.pc = "tail" /\ up.op = "loop"
        BY <3>1, IdleType DEF ThreadState, pcs, ops, Idle
      <3> QED
        BY <1>1, <2>1, <3>2
    <2>2. CASE ~(r.depth > 0)
      BY <1>1, <2>2, IdleType, IdleFields DEF Finish
    <2> QED
      BY <2>1, <2>2
  <1>6. /\ FlagMeans' /\ OnDisk' /\ disk'.pending = pending
        /\ pending' = pending /\ plans' = plans /\ plans \in Nat
    BY <1>1, <1>3 DEF Sound, Holds, FlagMeans, OnDisk, LeftUp, LastRan, Typed, state, counters
  <1>7. q.pc # "idle" => Sound(thread[t])'
    BY <1>3, <1>5, <1>6 DEF Sound, Holds
  <1>8. OneCall'
    BY <1>3, <1>4, <1>5, <1>6, <1>7, Moves
  <1>9. Typed'
    BY <1>1, <1>3, <1>4 DEF Typed, state, counters
  <1>10. Books'
    <2>1. UNCHANGED <<pending, files, plans, approved, ran, escaped>>
      BY <1>1 DEF state, counters
    <2>2. r.op = "reject" => pending = 0 /\ r.plan \notin files /\ r.plan \in 0 .. plans
      BY <1>3 DEF Sound, Typed
    <2> QED
      BY <1>1, <1>3, <1>6, <2>1, <2>2 DEF Books, LastRan, LetThrough, OneLeakPerException
  <1> QED
    BY <1>8, <1>9, <1>10 DEF IInv, OneAtATime

\* A restart leaves every thread idle, and keeps the invariant.
LEMMA Restarted ==
    ASSUME IInv, setting' = setting, Restart
    PROVE  IInv'
  <1>1. OneCall'
    BY IdleType, IdleFields DEF Restart, OneCall, At, AtRest, FlagMeans, OnDisk
  <1>2. Typed'
    BY DEF IInv, Restart, Typed, Snapshot, history
  <1>3. Books'
    BY DEF IInv, Restart, Books, LastRan, LetThrough, OneLeakPerException, history
  <1> QED
    BY <1>1, <1>2, <1>3 DEF IInv, OneAtATime

-----------------------------------------------------------------------------
\* From the start and at every step.

\* The invariant holds at the start.
LEMMA Starts == Init /\ OneAtATime => IInv
  <1> SUFFICES ASSUME Init, OneAtATime PROVE IInv
    OBVIOUS
  <1>1. Empty \in Snapshot /\ Empty.pending = 0
    BY DEF Empty, Snapshot
  <1>2. Typed
    <2>1. setting \in Setting /\ <<>> \in Seq(Message)
      BY BoundsAssumption DEF Init
    <2> QED
      BY <1>1, <2>1 DEF Init, Typed
  <1>3. OneCall
    BY <1>1, IdleType, IdleFields DEF Init, OneCall, At, AtRest, FlagMeans, OnDisk
  <1>4. Books
    BY <1>1 DEF Init, Books, LastRan, LetThrough, OneLeakPerException
  <1> QED
    BY <1>2, <1>3, <1>4 DEF IInv

\* Every step keeps the invariant.
LEMMA Stays == IInv /\ [Next]_vars => IInv'
  <1> SUFFICES ASSUME IInv, [Next]_vars PROVE IInv'
    OBVIOUS
  <1>1. CASE UNCHANGED vars
    BY <1>1 DEF vars, state, history, counters, IInv, OneAtATime, Typed, OneCall, Books, LastRan,
       LetThrough, OneLeakPerException,
                Sound, Holds, FlagMeans, OnDisk, LeftUp, Cleared, At, AtRest
  <1>2. CASE Next
    <2>1. setting' = setting /\ Hosts \subseteq Threads /\ ~Cancel
      BY <1>2 DEF Next, Threads, Cancel, IInv, OneAtATime
    <2>2. CASE StartPrompt \/ StartContinue \/ StartApprove
      BY <2>1, <2>2, CallsBegin
    <2>3. ASSUME NEW h \in Hosts, Call(h)
          PROVE  IInv'
      BY <2>1, <2>3, CallsBegin, Entries DEF Call
    <2>4. ASSUME NEW t \in Threads, Step(t)
          PROVE  IInv'
      BY <2>1, <2>4, StepsThatOnlyMove, Entries, LoopSteps, Saved DEF Step, Loop, Persist
    <2>5. CASE Restart
      BY <2>1, <2>5, Restarted
    <2> QED
      BY <1>2, <2>1, <2>2, <2>3, <2>4, <2>5 DEF Next
  <1> QED
    BY <1>1, <1>2

\* So it holds throughout, when one entry runs at a time.
LEMMA Inductive == Spec /\ OneAtATime => []IInv
  BY Starts, Stays, PTL DEF Spec

\* Where calls come one at a time and none is cancelled, every tool call of a risky
\* plan was made after approve_pending_plan accepted that plan, but for the one plan
\* that follows an exception out of an approved round: the flag that _run_loop then
\* leaves up carries over to that plan and to no other.
THEOREM ApprovedFirst == Spec /\ OneAtATime => []OneLeakPerException
  <1>1. IInv => OneLeakPerException
    BY DEF IInv, Books
  <1> QED
    BY <1>1, Inductive, PTL

\* And no such call is made twice, whatever restarts come between, unless the plan was
\* let through, nor after reject_pending_plan returned: the token file is gone by then.
THEOREM RunsOnce == Spec /\ OneAtATime => PlanRunsOnce
  <1>1. IInv /\ [Next]_vars =>
          [/\ \A t \in Threads :
                At(t, "tools") /\ thread'[t].pc = "ran" /\ thread[t].plan # 0
                   => <<thread[t].plan, thread[t].call>> \notin ran \/ LetThrough(thread[t].plan)
           /\ \A c \in ran' \ ran : c[1] \notin rejected]_vars
    <2> SUFFICES ASSUME IInv, Next
                 PROVE  /\ \A t \in Threads :
                              At(t, "tools") /\ thread'[t].pc = "ran" /\ thread[t].plan # 0
                                 => <<thread[t].plan, thread[t].call>> \notin ran \/ LetThrough(thread[t].plan)
                        /\ \A c \in ran' \ ran : c[1] \notin rejected
      OBVIOUS
    <2>1. ASSUME NEW t \in Threads, At(t, "tools"), thread[t].plan # 0
          PROVE  /\ <<thread[t].plan, thread[t].call>> \notin ran \/ LetThrough(thread[t].plan)
                 /\ thread[t].plan \notin rejected
      <3>1. Sound(thread[t]) /\ thread[t] \in ThreadState
        BY <2>1 DEF IInv, OneCall, At
      <3> QED
        BY <2>1, <3>1 DEF Sound, Holds, At, ThreadState
    <2>2. ran' = ran \/ \E t \in Threads : RunTool(t)
      <3>1. ASSUME NEW h \in Hosts, Call(h)
            PROVE  ran' = ran
        BY <3>1 DEF Call, StartEnqueue, AppendMessage, StartReject, Reject, history
      <3>2. ASSUME NEW t \in Threads, Step(t), ~RunTool(t)
            PROVE  ran' = ran
        <4>1. CASE Loop(t)
          BY <3>2, <4>1 DEF Loop, Turn, Take, ModelFails, ModelSpeaks, ModelCallsSafeTools,
             ModelPlans, Stage, Pause, Nudge, AfterAssistant, CancelTools, HookRaises, ToolRefused,
             ToolReturns, EndRound, AfterToolRound, Inject, history
        <4> QED
          BY <3>2, <4>1 DEF Step, Persist, Prompt, Continue, Approve, Grant, PersistMetadata,
             PersistMessages, PersistSave, history
      <3> QED
        BY <3>1, <3>2 DEF Next, StartPrompt, StartContinue, StartApprove, Begin, Cancel,
           Restart, history
    <2>3. ASSUME NEW t \in Threads, RunTool(t)
          PROVE  \A c \in ran' \ ran : c[1] \notin rejected
      BY <2>1, <2>3 DEF RunTool
    <2> QED
      BY <2>1, <2>2, <2>3
  <1> QED
    BY <1>1, Inductive, PTL DEF Spec, PlanRunsOnce

-----------------------------------------------------------------------------
(* The messages.  Nothing is assumed of the setting here: calls may overlap    *)
(* and cancels may come at any step.  Every step moves one thread, and for the *)
(* messages there are nine kinds of steps; only the worker takes and tells.     *)

Fits(q, n) ==
    /\ q.plan <= n /\ q.call <= MaxCalls /\ q.snap.pending <= n
    /\ q.pc = "ran" => q.call # 0
    /\ q.pc = "stage" => q.plan # 0

Roles ==
    /\ \A h \in Hosts : thread[h].pc \in {"idle", "append", "reject", "tail", "sync", "save"}
                        /\ thread[h].depth = 0
    /\ thread[Worker].pc # "append"

Shape ==
    /\ setting \in Settings
    /\ pending \in 0 .. MaxPlans /\ plans \in 0 .. MaxPlans /\ files \subseteq Plans
    /\ approvedFlag \in BOOLEAN /\ cancel \in BOOLEAN
    /\ crashes \in 0 .. MaxCrashes /\ sent \in Nat
    /\ queue \in Seq(Message) /\ convo \in Seq(Message)
    /\ disk \in Snapshot /\ disk.pending <= MaxPlans
    /\ thread \in [Threads -> ThreadState] /\ \A t \in Threads : Fits(thread[t], MaxPlans)
    /\ Roles

Entering == {"idle", "prompt", "continue", "approve", "append", "reject"}
Inside == {"grant", "loop", "take", "model", "stage", "pause", "said", "tools", "ran", "round", "tail"}
Working == {"prompt", "continue", "approve", "grant", "reject", "loop", "take", "model", "stage",
            "pause", "said", "tools", "ran", "round"}
Appending == {g \in Hosts : At(g, "append")}

Quiet == UNCHANGED <<queue, convo, sent, disk, acked>>
Kept ==
    /\ setting' = setting /\ crashes' = crashes
    /\ pending' \in 0 .. MaxPlans /\ plans' \in 0 .. MaxPlans /\ files' \subseteq Plans
    /\ approvedFlag' \in BOOLEAN /\ cancel' \in BOOLEAN

\* A call begins, works in the loop, or ends before it entered it or by an exception.
Opens(t, q) ==
    /\ Quiet /\ UNCHANGED <<pending, unsaved>> /\ At(t, "idle")
    /\ setting.overlap \/ AtRest
    /\ q.depth = 0 /\ q.op # "enqueue" /\ q.snap = Empty
    /\ \/ t = Worker /\ q.pc \in {"prompt", "continue", "approve"}
       \/ t \in Hosts /\ q.pc = "reject"
       \/ t \in Hosts /\ q.pc = "append" /\ sent + Cardinality(Appending) < MaxMessages
Works(t, q) ==
    /\ Quiet /\ thread[t].pc \in Working /\ q.pc \in Inside
    /\ thread[t].pc = "reject" => q.pc = "tail"
    /\ q.depth <= thread[t].depth /\ (q.op = "enqueue" => thread[t].op = "enqueue")
    /\ q.snap \in {Empty, thread[t].snap}
GivesUp(t, q) ==
    /\ Quiet /\ pending' = pending /\ q = Idle
    /\ \/ At(t, "approve") /\ unsaved' = unsaved
       \/ At(t, "tools") /\ unsaved' = TRUE

\* A message arrives, is taken from the queue, and is told.
Arrives(t, q) ==
    /\ t \in Hosts /\ At(t, "append") /\ q.pc = "tail" /\ q.op = "enqueue"
    /\ q.depth = thread[t].depth /\ q.snap = thread[t].snap
    /\ q.msg \in Message /\ q.msg.id = sent + 1
    /\ sent' = sent + 1 /\ queue' = Append(queue, q.msg)
    /\ UNCHANGED <<convo, disk, acked, pending>>
Chosen(i) ==
    /\ i # 1 => queue[i].delivery = "steering"
    /\ \A k \in 1 .. Len(queue) : k < i \/ queue[i].delivery # "steering" => queue[k].delivery # "steering"
Takes(t, q) ==
    /\ thread[t].pc \in {"continue", "said", "round"} /\ q.pc = "inject"
    /\ q.op = thread[t].op /\ q.depth = thread[t].depth /\ q.snap = thread[t].snap
    /\ \E i \in 1 .. Len(queue) : Chosen(i) /\ queue' = Without(queue, i) /\ q.msg = queue[i]
    /\ UNCHANGED <<convo, sent, disk, acked, pending>>
Tells(t, q) ==
    /\ At(t, "inject") /\ q.pc = "loop" /\ q.op = "loop" /\ q.depth <= thread[t].depth + 1
    /\ q.snap = Empty
    /\ convo' = Append(convo, thread[t].msg)
    /\ UNCHANGED <<queue, sent, disk, acked, pending>>

\* A snapshot is begun, completed and saved.
Carries(t, q) == q.op = thread[t].op /\ q.depth = thread[t].depth /\ q.msg = thread[t].msg
Notes(t, q) ==
    /\ Quiet /\ pending' = pending /\ At(t, "tail") /\ q.pc = "sync" /\ Carries(t, q)
    /\ q.snap.pending = pending /\ q.snap.queue = queue /\ q.snap.convo = <<>>
Copies(t, q) ==
    /\ Quiet /\ pending' = pending /\ At(t, "sync") /\ q.pc = "save" /\ Carries(t, q)
    /\ q.snap.pending = thread[t].snap.pending /\ q.snap.queue = thread[t].snap.queue
    /\ q.snap.convo = convo
Saves(t, q) ==
    /\ At(t, "save") /\ disk' = thread[t].snap
    /\ acked' = IF thread[t].op = "enqueue" THEN acked \union {thread[t].msg} ELSE acked
    /\ UNCHANGED <<queue, convo, sent, pending>>
    /\ \/ q = Idle
       \/ q.pc = "tail" /\ q.op = "loop" /\ thread[t].depth > 0 /\ q.depth = thread[t].depth - 1
          /\ q.snap = Empty

Kind(t, q) ==
    \/ Opens(t, q) \/ Works(t, q) \/ GivesUp(t, q)
    \/ Arrives(t, q) \/ Takes(t, q) \/ Tells(t, q)
    \/ Notes(t, q) \/ Copies(t, q) \/ Saves(t, q)
Becomes(t, q) == q \in ThreadState /\ Fits(q, MaxPlans) /\ thread' = [thread EXCEPT ![t] = q]
Moving(t) == \E q : Kept /\ Becomes(t, q) /\ Kind(t, q)

\* What the parameters of a setting are.
LEMMA SettingIs ==
    ASSUME setting \in Settings
    PROVE  /\ MaxPlans \in Nat /\ MaxMessages \in Nat /\ MaxCrashes \in Nat
           /\ setting.overlap \in BOOLEAN /\ MaxCalls \in Nat \ {0}
  <1>1. setting \in Setting
    BY BoundsAssumption
  <1>2. setting.overlap \in BOOLEAN
    BY <1>1, Zenon DEF Setting
  <1> QED
    BY <1>1, <1>2, BoundsAssumption DEF Setting, MaxPlans, MaxMessages, MaxCrashes

\* The fields of an idle thread.
LEMMA IdleIs ==
    /\ Idle \in ThreadState /\ Idle.pc = "idle" /\ Idle.op = "none" /\ Idle.depth = 0
    /\ Idle.plan = 0 /\ Idle.call = 0 /\ Idle.snap = Empty /\ Empty.pending = 0
    /\ Empty \in Snapshot /\ Empty.queue = <<>> /\ Empty.convo = <<>>
  BY IdleType DEF Idle, Snapshot, Empty

\* The message that is taken: the first that steers, or the oldest when none does.
LEMMA WhichIsChosen ==
    ASSUME queue \in Seq(Message)
    PROVE  /\ IndexesOf("steering") # {} =>
                 First(IndexesOf("steering")) \in 1 .. Len(queue) /\ Chosen(First(IndexesOf("steering")))
           /\ queue # <<>> => NextIndex \in 1 .. Len(queue) /\ Chosen(NextIndex)
  <1>1. IndexesOf("steering") \subseteq Nat /\ Len(queue) \in Nat
    BY DEF IndexesOf
  <1>2. ASSUME IndexesOf("steering") # {}
        PROVE  /\ First(IndexesOf("steering")) \in 1 .. Len(queue)
               /\ Chosen(First(IndexesOf("steering")))
    <2> DEFINE i == First(IndexesOf("steering"))
    <2>1. i \in IndexesOf("steering") /\ \A j \in IndexesOf("steering") : i <= j
      BY <1>1, <1>2, FirstIsOne
    <2> HIDE DEF i
    <2>2. i \in 1 .. Len(queue) /\ queue[i].delivery = "steering"
      BY <2>1 DEF IndexesOf
    <2>3. ASSUME NEW k \in 1 .. Len(queue), k < i
          PROVE  queue[k].delivery # "steering"
      BY <2>1, <2>2, <2>3 DEF IndexesOf
    <2>4. Chosen(i)
      BY <2>2, <2>3 DEF Chosen
    <2> QED
      BY <2>2, <2>4 DEF i
  <1>3. ASSUME IndexesOf("steering") = {}, queue # <<>>
        PROVE  1 \in 1 .. Len(queue) /\ Chosen(1)
    BY <1>3 DEF IndexesOf, Chosen
  <1> QED
    BY <1>2, <1>3 DEF NextIndex

\* A thread that only moves on in the loop, ...
LEMMA GoesOn ==
    ASSUME Shape, Kept, NEW t \in Threads, NEW pc \in Inside, Goto(t, pc), Quiet,
           thread[t].pc \in Working, thread[t].pc # "reject", pc = "ran" => thread[t].call # 0, pc # "stage"
    PROVE  Moving(t)
  <1> DEFINE q == [thread[t] EXCEPT !.pc = pc]
  <1>1. thread[t] \in ThreadState /\ Fits(thread[t], MaxPlans) /\ thread[t].depth \in Nat
    BY DEF Shape, ThreadState
  <1>2. /\ q \in ThreadState /\ q.pc = pc /\ q.op = thread[t].op /\ q.depth = thread[t].depth
        /\ q.plan = thread[t].plan /\ q.call = thread[t].call /\ q.snap = thread[t].snap
    BY <1>1 DEF ThreadState, pcs, Inside
  <1>3. thread' = [thread EXCEPT ![t] = q]
    BY DEF Goto
  <1> HIDE DEF q
  <1>4. Becomes(t, q)
    BY <1>1, <1>2, <1>3 DEF Becomes, Fits
  <1>5. Works(t, q)
    BY <1>1, <1>2 DEF Works
  <1> QED
    BY <1>4, <1>5 DEF Moving, Kind

\* ... enters it, ...
LEMMA GoesIn ==
    ASSUME Shape, Kept, NEW t \in Threads, EnterLoop(t, 0), Quiet,
           thread[t].pc \in Working, thread[t].pc # "reject"
    PROVE  Moving(t)
  <1> DEFINE q == [Idle EXCEPT !.pc = "loop", !.op = "loop", !.depth = 0]
  <1>1. thread[t] \in ThreadState /\ thread[t].depth \in Nat /\ MaxPlans \in Nat /\ MaxCalls \in Nat
    BY SettingIs DEF Shape, ThreadState
  <1>2. /\ q \in ThreadState /\ q.pc = "loop" /\ q.op = "loop" /\ q.depth = 0
        /\ q.plan = 0 /\ q.call = 0 /\ q.snap = Empty
    BY IdleIs DEF ThreadState, pcs, ops
  <1>3. thread' = [thread EXCEPT ![t] = q]
    BY DEF EnterLoop
  <1> HIDE DEF q
  <1>4. Becomes(t, q)
    BY <1>1, <1>2, <1>3, IdleIs DEF Becomes, Fits
  <1>5. Works(t, q)
    BY <1>1, <1>2 DEF Works, Inside
  <1> QED
    BY <1>4, <1>5 DEF Moving, Kind

\* ... begins a round of tools, ...
LEMMA BeginsRound ==
    ASSUME Shape, Kept, NEW t \in Threads, NEW p \in 0 .. MaxPlans, NEW n \in 0 .. MaxCalls,
           StartTools(t, p, n), Quiet, thread[t].pc \in Working, thread[t].pc # "reject"
    PROVE  Moving(t)
  <1> DEFINE q == [thread[t] EXCEPT !.pc = "tools", !.plan = p, !.call = n,
                                    !.failed = FALSE, !.carryOn = FALSE, !.stopped = FALSE]
  <1>1. /\ thread[t] \in ThreadState /\ Fits(thread[t], MaxPlans) /\ thread[t].depth \in Nat
        /\ p \in Nat /\ n \in Nat
    BY SettingIs DEF Shape, ThreadState
  <1>2. /\ q.pc = "tools" /\ q.op = thread[t].op /\ q.depth = thread[t].depth
        /\ q.plan = p /\ q.call = n /\ q.snap = thread[t].snap
    BY <1>1 DEF ThreadState
  <1>a. q \in ThreadState
    BY <1>1 DEF ThreadState, pcs
  <1>3. thread' = [thread EXCEPT ![t] = q]
    BY DEF StartTools
  <1> HIDE DEF q
  <1>4. Becomes(t, q)
    BY <1>a, <1>1, <1>2, <1>3 DEF Becomes, Fits
  <1>5. Works(t, q)
    BY <1>1, <1>2 DEF Works, Inside
  <1> QED
    BY <1>4, <1>5 DEF Moving, Kind

\* ... or takes a message.
LEMMA TakesOne ==
    ASSUME Shape, Kept, NEW t \in Threads, NEW i \in 1 .. Len(queue), Chosen(i), Dequeue(t, i),
           thread[t].pc \in {"continue", "said", "round"},
           UNCHANGED <<convo, sent, disk, acked, pending>>
    PROVE  Moving(t)
  <1> DEFINE q == [thread[t] EXCEPT !.pc = "inject", !.msg = queue[i]]
  <1>1. /\ thread[t] \in ThreadState /\ Fits(thread[t], MaxPlans) /\ queue[i] \in Message
    BY DEF Shape
  <1>2. /\ q \in ThreadState /\ q.pc = "inject" /\ q.op = thread[t].op /\ q.depth = thread[t].depth
        /\ q.plan = thread[t].plan /\ q.call = thread[t].call /\ q.snap = thread[t].snap
        /\ q.msg = queue[i]
    BY <1>1 DEF ThreadState, pcs
  <1>3. thread' = [thread EXCEPT ![t] = q] /\ queue' = Without(queue, i)
    BY DEF Dequeue
  <1> HIDE DEF q
  <1>4. Becomes(t, q)
    BY <1>1, <1>2, <1>3 DEF Becomes, Fits
  <1>5. Takes(t, q)
    BY <1>2, <1>3 DEF Takes
  <1> QED
    BY <1>4, <1>5 DEF Moving, Kind

-----------------------------------------------------------------------------
\* Every step of a thread is of one of these kinds: a call that begins, ...
LEMMA CallMoves ==
    ASSUME Shape, setting' = setting,
           \/ StartPrompt \/ StartContinue \/ StartApprove
           \/ \E h \in Hosts : StartReject(h) \/ \E d \in Steers : StartEnqueue(h, d)
    PROVE  \E t \in Threads : Moving(t)
  <1>0. /\ pending \in Nat /\ MaxPlans \in Nat /\ MaxCalls \in Nat /\ pending <= MaxPlans
        /\ Worker \in Threads /\ Hosts \subseteq Threads /\ Worker \notin Hosts
    BY SettingIs, ThreadsAssumption DEF Shape, Threads
  <1>1. CASE StartPrompt \/ StartContinue \/ StartApprove
    <2>1. PICK pc \in {"prompt", "continue", "approve"} : Begin(Worker, pc, pc)
      BY <1>1 DEF StartPrompt, StartContinue, StartApprove
    <2> DEFINE q == [Idle EXCEPT !.pc = pc, !.op = pc, !.plan = pending]
    <2>2. /\ q.pc = pc /\ q.plan = pending /\ q.op = pc /\ q.depth = 0 /\ q.call = 0 /\ q.snap = Empty
      BY IdleIs DEF ThreadState
    <2>3. q \in ThreadState
      BY <1>0, IdleIs DEF ThreadState, pcs, ops
    <2>4. /\ thread' = [thread EXCEPT ![Worker] = q] /\ At(Worker, "idle") /\ (setting.overlap \/ AtRest)
          /\ UNCHANGED <<state, cancel, files, disk, counters, history>>
      BY <2>1 DEF Begin, Free
    <2> HIDE DEF q
    <2>5. Kept
      BY <2>4 DEF Kept, Shape, state, counters, MaxPlans, Plans
    <2>6. Becomes(Worker, q)
      BY <1>0, <2>2, <2>3, <2>4, IdleIs DEF Becomes, Fits
    <2>7. Opens(Worker, q)
      BY <2>2, <2>4 DEF Opens, Quiet, state, counters, history
    <2> QED
      BY <1>0, <2>5, <2>6, <2>7 DEF Moving, Kind
  <1>2. ASSUME NEW h \in Hosts, StartReject(h)
        PROVE  Moving(h)
    <2> DEFINE q == [Idle EXCEPT !.pc = "reject", !.plan = pending]
    <2>2. /\ q.pc = "reject" /\ q.plan = pending /\ q.op = "none" /\ q.depth = 0 /\ q.call = 0 /\ q.snap = Empty
      BY IdleIs DEF ThreadState
    <2>3. q \in ThreadState
      BY <1>0, IdleIs DEF ThreadState, pcs, ops
    <2>4. /\ thread' = [thread EXCEPT ![h] = q] /\ At(h, "idle") /\ (setting.overlap \/ AtRest)
          /\ UNCHANGED <<state, cancel, files, disk, counters, history>>
      BY <1>2 DEF StartReject, Free
    <2> HIDE DEF q
    <2>5. Kept
      BY <2>4 DEF Kept, Shape, state, counters, MaxPlans, Plans
    <2>6. Becomes(h, q)
      BY <1>0, <2>2, <2>3, <2>4, IdleIs DEF Becomes, Fits
    <2>7. Opens(h, q)
      BY <2>2, <2>4 DEF Opens, Quiet, state, counters, history
    <2> QED
      BY <1>0, <2>5, <2>6, <2>7 DEF Moving, Kind
  <1>3. ASSUME NEW h \in Hosts, NEW d \in Steers, StartEnqueue(h, d)
        PROVE  Moving(h)
    <2> DEFINE q == [Idle EXCEPT !.pc = "append", !.msg.delivery = d]
    <2>1. d \in {"steering", "follow_up"}
      BY BoundsAssumption
    <2>2. /\ q.pc = "append" /\ q.plan = 0 /\ q.op = "none" /\ q.depth = 0 /\ q.call = 0 /\ q.snap = Empty
      BY IdleIs DEF ThreadState
    <2>3. q \in ThreadState
      BY <2>1, IdleIs DEF ThreadState, pcs, ops, Message
    <2>4. /\ thread' = [thread EXCEPT ![h] = q] /\ At(h, "idle") /\ (setting.overlap \/ AtRest)
          /\ sent + Cardinality(Appending) < MaxMessages
          /\ UNCHANGED <<state, cancel, files, disk, counters, history>>
      BY <1>3 DEF StartEnqueue, Free, Appending
    <2> HIDE DEF q
    <2>5. Kept
      BY <2>4 DEF Kept, Shape, state, counters, MaxPlans, Plans
    <2>6. Becomes(h, q)
      BY <1>0, <2>2, <2>3, <2>4, IdleIs DEF Becomes, Fits
    <2>7. Opens(h, q)
      BY <2>2, <2>4 DEF Opens, Quiet, state, counters, history
    <2> QED
      BY <1>0, <2>5, <2>6, <2>7 DEF Moving, Kind
  <1> QED
    BY <1>0, <1>1, <1>2, <1>3

\* ... an entry of the runtime, ...
LEMMA EntryMoves ==
    ASSUME Shape, setting' = setting, NEW t \in Threads,
           \/ (t \in Hosts /\ (AppendMessage(t) \/ Reject(t)))
           \/ Prompt(t) \/ Continue(t) \/ Approve(t) \/ Grant(t)
    PROVE  Moving(t)
  <1> DEFINE r == thread[t]
  <1>0. /\ pending \in 0 .. MaxPlans /\ MaxPlans \in Nat /\ MaxCalls \in Nat /\ plans \in 0 .. MaxPlans
        /\ files \subseteq Plans /\ approvedFlag \in BOOLEAN /\ cancel \in BOOLEAN
        /\ r \in ThreadState /\ Fits(r, MaxPlans) /\ r.depth \in Nat /\ queue \in Seq(Message) /\ sent \in Nat
    BY SettingIs DEF Shape, ThreadState
  <1>1. CASE t \in Hosts /\ AppendMessage(t)
    <2> DEFINE m == [r.msg EXCEPT !.id = sent + 1]
               q == [r EXCEPT !.pc = "tail", !.op = "enqueue", !.msg = m]
    <2>1. m \in Message /\ m.id = sent + 1
      <3>1. r.msg \in Message /\ sent + 1 \in Nat
        BY <1>0 DEF ThreadState
      <3> QED
        BY <3>1 DEF Message
    <2>2. /\ At(t, "append") /\ sent' = sent + 1 /\ queue' = Append(queue, m)
          /\ thread' = [thread EXCEPT ![t] = q]
          /\ UNCHANGED <<pending, approvedFlag, convo, cancel, files, disk, plans, crashes, history>>
      BY <1>1 DEF AppendMessage
    <2> HIDE DEF m
    <2>3. /\ q \in ThreadState /\ q.pc = "tail" /\ q.op = "enqueue" /\ q.depth = r.depth /\ q.msg = m
          /\ q.plan = r.plan /\ q.call = r.call /\ q.snap = r.snap
      BY <1>0, <2>1 DEF ThreadState, pcs, ops
    <2> HIDE DEF q
    <2>4. Kept
      BY <1>0, <2>2 DEF Kept, MaxPlans, Plans
    <2>5. Becomes(t, q)
      BY <1>0, <2>2, <2>3 DEF Becomes, Fits
    <2>6. Arrives(t, q)
      BY <1>1, <2>1, <2>2, <2>3 DEF Arrives, history
    <2> QED
      BY <2>4, <2>5, <2>6 DEF Moving, Kind
  <1>2. CASE Reject(t)
    <2> DEFINE q == [r EXCEPT !.pc = "tail", !.op = "reject"]
    <2>1. /\ At(t, "reject") /\ files' = files \ {r.plan} /\ pending' = 0
          /\ thread' = [thread EXCEPT ![t] = q]
          /\ UNCHANGED <<approvedFlag, queue, convo, cancel, disk, counters, history>>
      BY <1>2 DEF Reject
    <2>2. /\ q \in ThreadState /\ q.pc = "tail" /\ q.op = "reject" /\ q.depth = r.depth
          /\ q.plan = r.plan /\ q.call = r.call /\ q.snap = r.snap
      BY <1>0 DEF ThreadState, pcs, ops
    <2> HIDE DEF q
    <2>3. Kept
      <3>1. 0 \in 0 .. MaxPlans /\ files' \subseteq Plans
        BY <1>0, <2>1
      <3> QED
        BY <1>0, <2>1, <3>1 DEF Kept, MaxPlans, Plans, counters
    <2>4. Becomes(t, q)
      BY <1>0, <2>1, <2>2 DEF Becomes, Fits
    <2>5. Works(t, q)
      BY <1>0, <2>1, <2>2 DEF Works, Quiet, Working, Inside, At, counters, history
    <2> QED
      BY <2>3, <2>4, <2>5 DEF Moving, Kind
  <1>3. CASE Prompt(t)
    <2>1. Kept /\ Quiet /\ r.pc = "prompt" /\ EnterLoop(t, 0)
      BY <1>0, <1>3 DEF Prompt, Kept, Quiet, At, state, counters, history, MaxPlans, Plans
    <2> QED
      BY <2>1, GoesIn DEF Working
  <1>4. CASE Continue(t)
    <2>1. /\ Kept /\ r.pc = "continue" /\ UNCHANGED <<pending, convo, sent, disk, acked>>
      BY <1>0, <1>4 DEF Continue, Kept, At, counters, history, MaxPlans, Plans
    <2>2. CASE pending = 0 /\ queue # <<>>
      <3>1. Dequeue(t, NextIndex)
        BY <1>4, <2>2 DEF Continue
      <3> QED
        BY <1>0, <2>1, <2>2, <3>1, WhichIsChosen, TakesOne
    <2>3. CASE ~(pending = 0 /\ queue # <<>>)
      <3>1. EnterLoop(t, 0) /\ Quiet
        BY <1>4, <2>1, <2>3 DEF Continue, Quiet
      <3> QED
        BY <2>1, <3>1, GoesIn DEF Working
    <2> QED
      BY <2>2, <2>3
  <1>5. CASE Approve(t)
    <2>1. Kept /\ r.pc = "approve" /\ Quiet /\ UNCHANGED <<pending, unsaved>>
      BY <1>0, <1>5 DEF Approve, Kept, Quiet, At, state, counters, history, MaxPlans, Plans
    <2>2. CASE r.plan = pending /\ pending \in files
      <3>1. Goto(t, "grant")
        BY <1>5, <2>2 DEF Approve
      <3> QED
        BY <2>1, <3>1, GoesOn DEF Working, Inside
    <2>3. CASE ~(r.plan = pending /\ pending \in files)
      <3>1. thread' = [thread EXCEPT ![t] = Idle]
        BY <1>5, <2>3 DEF Approve, Finish
      <3>2. Becomes(t, Idle) /\ GivesUp(t, Idle)
        BY <1>0, <2>1, <3>1, IdleIs DEF Becomes, Fits, GivesUp, At
      <3> QED
        BY <2>1, <3>2 DEF Moving, Kind
    <2> QED
      BY <2>2, <2>3
  <1>6. CASE Grant(t)
    <2>1. Kept /\ Quiet /\ r.pc = "grant" /\ EnterLoop(t, 0)
      BY <1>0, <1>6 DEF Grant, Kept, Quiet, At, counters, MaxPlans, Plans
    <2> QED
      BY <2>1, GoesIn DEF Working
  <1> QED
    BY <1>1, <1>2, <1>3, <1>4, <1>5, <1>6

\* ... a step of the loop, ...
LEMMA LoopMoves ==
    ASSUME Shape, setting' = setting, NEW t \in Threads, Loop(t)
    PROVE  Moving(t)
  <1> DEFINE r == thread[t]
  <1>0. /\ pending \in 0 .. MaxPlans /\ MaxPlans \in Nat /\ MaxCalls \in Nat /\ plans \in 0 .. MaxPlans
        /\ files \subseteq Plans /\ approvedFlag \in BOOLEAN /\ cancel \in BOOLEAN
        /\ r \in ThreadState /\ Fits(r, MaxPlans) /\ r.depth \in Nat /\ r.call \in Nat /\ r.plan \in Nat
        /\ pending \in Nat
        /\ queue \in Seq(Message)
    BY SettingIs DEF Shape, ThreadState
  <1>still. ASSUME UNCHANGED <<state, cancel, files, disk, counters>>, acked' = acked
            PROVE  Kept /\ Quiet
    BY <1>0, <1>still DEF Kept, Quiet, state, counters, MaxPlans, Plans
  <1>1. CASE Turn(t)
    <2>1. Kept /\ Quiet /\ r.pc = "loop"
      BY <1>1, <1>still DEF Turn, At, history
    <2>2. ASSUME NEW pc \in {"tail", "model"}, Goto(t, pc)
          PROVE  Moving(t)
      BY <2>1, <2>2, GoesOn DEF Working, Inside
    <2>3. CASE thread' = [thread EXCEPT ![t] = [@ EXCEPT !.pc = "take", !.plan = pending]]
      <3> DEFINE q == [r EXCEPT !.pc = "take", !.plan = pending]
      <3>1. /\ q \in ThreadState /\ q.pc = "take" /\ q.op = r.op /\ q.depth = r.depth
            /\ q.plan = pending /\ q.call = r.call /\ q.snap = r.snap
        BY <1>0 DEF ThreadState, pcs
      <3>2. thread' = [thread EXCEPT ![t] = q]
        BY <2>3
      <3> HIDE DEF q
      <3>3. Becomes(t, q)
        BY <1>0, <3>1, <3>2 DEF Becomes, Fits
      <3>4. Works(t, q)
        BY <1>0, <2>1, <3>1 DEF Works, Working, Inside
      <3> QED
        BY <2>1, <3>3, <3>4 DEF Moving, Kind
    <2> QED
      BY <1>1, <2>2, <2>3 DEF Turn
  <1>2. CASE Take(t)
    <2>1. Kept /\ Quiet /\ r.pc = "take" /\ StartTools(t, r.plan, MaxCalls)
      <3>1. 0 \in 0 .. MaxPlans
        BY <1>0
      <3> QED
        BY <1>0, <1>2, <3>1 DEF Take, Kept, Quiet, At, counters, history, MaxPlans, Plans
    <2>2. r.plan \in 0 .. MaxPlans /\ MaxCalls \in 0 .. MaxCalls
      BY <1>0 DEF Fits
    <2> QED
      BY <2>1, <2>2, BeginsRound DEF Working
  <1>3. CASE ModelFails(t) \/ ModelSpeaks(t)
    <2>1. /\ Kept /\ Quiet /\ r.pc = "model"
          /\ Goto(t, "tail") \/ Goto(t, "said")
      BY <1>3, <1>still DEF ModelFails, ModelSpeaks, At, history
    <2> QED
      BY <2>1, GoesOn DEF Working, Inside
  <1>4. CASE ModelCallsSafeTools(t)
    <2>1. Kept /\ Quiet /\ r.pc = "model"
      BY <1>4, <1>still DEF ModelCallsSafeTools, At, history
    <2>2. PICK n \in 1 .. MaxCalls : StartTools(t, 0, n)
      BY <1>4 DEF ModelCallsSafeTools
    <2>3. 0 \in 0 .. MaxPlans /\ n \in 0 .. MaxCalls
      BY <1>0
    <2> QED
      BY <2>1, <2>2, <2>3, BeginsRound DEF Working
  <1>5. CASE ModelPlans(t)
    <2>1. /\ Quiet /\ r.pc = "model" /\ plans < MaxPlans /\ plans' = plans + 1
          /\ UNCHANGED <<pending, approvedFlag, cancel, files, crashes>>
      BY <1>5 DEF ModelPlans, At, Quiet, state, history
    <2>2. plans + 1 \in 0 .. MaxPlans /\ plans + 1 \in Nat /\ MaxCalls \in 0 .. MaxCalls
      BY <1>0, <2>1
    <2>3. Kept
      BY <1>0, <2>1, <2>2 DEF Kept, MaxPlans, Plans
    <2>4. CASE pending = 0
      <3> DEFINE q == [r EXCEPT !.pc = "stage", !.plan = plans + 1]
      <3>1. /\ q \in ThreadState /\ q.pc = "stage" /\ q.op = r.op /\ q.depth = r.depth
            /\ q.plan = plans + 1 /\ q.call = r.call /\ q.snap = r.snap
        BY <1>0, <2>2 DEF ThreadState, pcs
      <3>2. thread' = [thread EXCEPT ![t] = q]
        BY <1>5, <2>4 DEF ModelPlans
      <3> HIDE DEF q
      <3>3. Becomes(t, q)
        BY <1>0, <2>2, <3>1, <3>2 DEF Becomes, Fits
      <3>4. Works(t, q)
        BY <1>0, <2>1, <3>1 DEF Works, Working, Inside
      <3> QED
        BY <2>3, <3>3, <3>4 DEF Moving, Kind
    <2>5. CASE pending # 0
      <3>1. StartTools(t, plans + 1, MaxCalls)
        BY <1>5, <2>5 DEF ModelPlans
      <3> QED
        BY <2>1, <2>2, <2>3, <3>1, BeginsRound DEF Working
    <2> QED
      BY <2>4, <2>5
  <1>6. CASE Stage(t) \/ Pause(t)
    <2>1. r.plan \in 0 .. MaxPlans
      BY <1>0 DEF Fits
    <2>2. CASE Pause(t)
      <3>1. Kept /\ Quiet /\ r.pc = "pause" /\ Goto(t, "tail")
        BY <1>0, <2>1, <2>2 DEF Pause, Kept, Quiet, At, counters, history, MaxPlans, Plans
      <3> QED
        BY <3>1, GoesOn DEF Working, Inside
    <2>3. CASE Stage(t)
      <3>1. /\ Quiet /\ r.pc = "stage" /\ Goto(t, "pause") /\ files' = files \union {r.plan}
            /\ UNCHANGED <<pending, approvedFlag, cancel, plans, crashes>>
        BY <2>3 DEF Stage, Quiet, At, state, counters, history
      <3>2. r.plan # 0
        BY <1>0, <3>1 DEF Fits
      <3>3. files' \subseteq Plans
        <4>1. r.plan \in 1 .. MaxPlans
          BY <1>0, <2>1, <3>2
        <4> QED
          BY <1>0, <3>1, <4>1 DEF Plans
      <3>4. Kept
        BY <1>0, <3>1, <3>3 DEF Kept, MaxPlans
      <3> QED
        BY <3>1, <3>4, GoesOn DEF Working, Inside
    <2> QED
      BY <1>6, <2>2, <2>3
  <1>7. CASE Nudge(t)
    <2> DEFINE q == [r EXCEPT !.pc = "loop", !.nudged = TRUE]
    <2>1. Kept /\ Quiet /\ r.pc = "said" /\ thread' = [thread EXCEPT ![t] = q]
      BY <1>7, <1>still DEF Nudge, At, history
    <2>2. /\ q \in ThreadState /\ q.pc = "loop" /\ q.op = r.op /\ q.depth = r.depth
          /\ q.plan = r.plan /\ q.call = r.call /\ q.snap = r.snap
      BY <1>0 DEF ThreadState, pcs
    <2> HIDE DEF q
    <2>3. Becomes(t, q)
      BY <1>0, <2>1, <2>2 DEF Becomes, Fits
    <2>4. Works(t, q)
      BY <1>0, <2>1, <2>2 DEF Works, Working, Inside
    <2> QED
      BY <2>1, <2>3, <2>4 DEF Moving, Kind
  <1>8. CASE CancelTools(t)
    <2> DEFINE q == [r EXCEPT !.stopped = TRUE, !.failed = TRUE, !.keep = FALSE]
    <2>1. Kept /\ Quiet /\ r.pc = "tools" /\ thread' = [thread EXCEPT ![t] = q]
      BY <1>8, <1>still DEF CancelTools, At, history
    <2>2. /\ q \in ThreadState /\ q.pc = "tools" /\ q.op = r.op /\ q.depth = r.depth
          /\ q.plan = r.plan /\ q.call = r.call /\ q.snap = r.snap
      BY <1>0, <2>1 DEF ThreadState
    <2> HIDE DEF q
    <2>3. Becomes(t, q)
      BY <1>0, <2>1, <2>2 DEF Becomes, Fits
    <2>4. Works(t, q)
      BY <1>0, <2>1, <2>2 DEF Works, Working, Inside
    <2> QED
      BY <2>1, <2>3, <2>4 DEF Moving, Kind
  <1>9. CASE RunTool(t)
    <2>1. Kept /\ Quiet /\ r.pc = "tools" /\ Goto(t, "ran") /\ r.call # 0
      BY <1>9, <1>still DEF RunTool, At, LastCall
    <2> QED
      BY <2>1, GoesOn DEF Working, Inside
  <1>back. ASSUME NEW q \in ThreadState, q.pc = "tools", q.op = r.op, q.depth = r.depth, q.plan = r.plan,
                  q.call <= r.call, q.call \in Nat, q.snap = r.snap, thread' = [thread EXCEPT ![t] = q],
                  r.pc \in {"tools", "ran"}, Kept, Quiet
           PROVE  Moving(t)
    <2>1. Becomes(t, q)
      BY <1>0, <1>back DEF Becomes, Fits
    <2>2. Works(t, q)
      BY <1>0, <1>back DEF Works, Working, Inside
    <2> QED
      BY <1>back, <2>1, <2>2 DEF Moving, Kind
  <1>10. CASE ToolRefused(t)
    <2>1. Kept /\ Quiet /\ r.pc = "tools" /\ r.call # 0
      BY <1>10, <1>still DEF ToolRefused, At, history, LastCall
    <2>2. PICK c \in BOOLEAN :
             thread' = [thread EXCEPT ![t] = [@ EXCEPT !.call = r.call - 1, !.failed = TRUE,
                                                      !.carryOn = c]]
      BY <1>10 DEF ToolRefused
    <2> DEFINE n == r.call - 1
               q == [r EXCEPT !.call = n, !.failed = TRUE, !.carryOn = c]
    <2>3. n \in Nat /\ n <= r.call
      BY <1>0, <2>1
    <2>4. thread' = [thread EXCEPT ![t] = q]
      BY <2>2
    <2> HIDE DEF n
    <2>5. /\ q \in ThreadState /\ q.pc = "tools" /\ q.op = r.op /\ q.depth = r.depth
          /\ q.plan = r.plan /\ q.call = n /\ q.snap = r.snap
      BY <1>0, <2>1, <2>3 DEF ThreadState
    <2> HIDE DEF q
    <2> QED
      BY <1>back, <2>1, <2>3, <2>4, <2>5
  <1>11. CASE ToolReturns(t)
    <2>1. Kept /\ Quiet /\ r.pc = "ran" /\ r.call # 0
      BY <1>0, <1>11, <1>still DEF ToolReturns, At, history, Fits
    <2> DEFINE n == r.call - 1
    <2>2. n \in Nat /\ n <= r.call
      BY <1>0, <2>1
    <2>3. CASE thread' = [thread EXCEPT ![t] = [@ EXCEPT !.pc = "tools", !.stopped = TRUE,
                                                       !.failed = TRUE, !.keep = FALSE]]
      <3> DEFINE q == [r EXCEPT !.pc = "tools", !.stopped = TRUE, !.failed = TRUE, !.keep = FALSE]
      <3>1. /\ q \in ThreadState /\ q.pc = "tools" /\ q.op = r.op /\ q.depth = r.depth
            /\ q.plan = r.plan /\ q.call = r.call /\ q.snap = r.snap
        BY <1>0 DEF ThreadState, pcs
      <3>2. thread' = [thread EXCEPT ![t] = q]
        BY <2>3
      <3> HIDE DEF q
      <3>3. q.call \in Nat /\ q.call <= r.call
        BY <1>0, <3>1
      <3> QED
        BY <1>back, <2>1, <3>1, <3>2, <3>3
    <2>4. ASSUME NEW go \in BOOLEAN,
                 thread' = [thread EXCEPT ![t] = [@ EXCEPT !.pc = "tools", !.call = r.call - 1,
                                                           !.keep = go]]
          PROVE  Moving(t)
      <3> DEFINE q == [r EXCEPT !.pc = "tools", !.call = n, !.keep = go]
      <3>1. thread' = [thread EXCEPT ![t] = q]
        BY <2>4
      <3> HIDE DEF n
      <3>2. /\ q \in ThreadState /\ q.pc = "tools" /\ q.op = r.op /\ q.depth = r.depth
            /\ q.plan = r.plan /\ q.call = n /\ q.snap = r.snap
        BY <1>0, <2>2 DEF ThreadState, pcs
      <3> HIDE DEF q
      <3> QED
        BY <1>back, <2>1, <2>2, <3>1, <3>2
    <2>5. ASSUME NEW c \in BOOLEAN,
                 thread' = [thread EXCEPT ![t] = [@ EXCEPT !.pc = "tools", !.call = r.call - 1,
                                                           !.failed = TRUE, !.carryOn = c]]
          PROVE  Moving(t)
      <3> DEFINE q == [r EXCEPT !.pc = "tools", !.call = n, !.failed = TRUE, !.carryOn = c]
      <3>1. thread' = [thread EXCEPT ![t] = q]
        BY <2>5
      <3> HIDE DEF n
      <3>2. /\ q \in ThreadState /\ q.pc = "tools" /\ q.op = r.op /\ q.depth = r.depth
            /\ q.plan = r.plan /\ q.call = n /\ q.snap = r.snap
        BY <1>0, <2>2 DEF ThreadState, pcs
      <3> HIDE DEF q
      <3> QED
        BY <1>back, <2>1, <2>2, <3>1, <3>2
    <2> QED
      BY <1>11, <2>3, <2>4, <2>5 DEF ToolReturns
  <1>12. CASE EndRound(t)
    <2>1. Kept /\ Quiet /\ r.pc = "tools" /\ Goto(t, "round")
      BY <1>0, <1>12 DEF EndRound, Kept, Quiet, At, counters, history, MaxPlans, Plans
    <2> QED
      BY <2>1, GoesOn DEF Working, Inside
  <1>13. CASE AfterAssistant(t) \/ AfterToolRound(t)
    <2>1. /\ Kept /\ r.pc \in {"said", "round"} /\ UNCHANGED <<pending, convo, sent, disk, acked>>
      BY <1>0, <1>13 DEF AfterAssistant, AfterToolRound, Kept, At, counters, history, MaxPlans,
         Plans
    <2>2. \/ \E i \in 1 .. Len(queue) : Chosen(i) /\ Dequeue(t, i)
          \/ \E pc \in {"tail", "loop"} : Goto(t, pc) /\ Quiet
      <3>1. CASE AfterAssistant(t)
        BY <1>0, <2>1, <3>1, WhichIsChosen DEF AfterAssistant, Quiet
      <3>2. CASE AfterToolRound(t)
        BY <1>0, <2>1, <3>2, WhichIsChosen DEF AfterToolRound, Quiet
      <3> QED
        BY <1>13, <3>1, <3>2
    <2>3. ASSUME NEW i \in 1 .. Len(queue), Chosen(i), Dequeue(t, i)
          PROVE  Moving(t)
      BY <2>1, <2>3, TakesOne
    <2>4. ASSUME NEW pc \in {"tail", "loop"}, Goto(t, pc), Quiet
          PROVE  Moving(t)
      BY <2>1, <2>4, GoesOn DEF Working, Inside
    <2> QED
      BY <2>2, <2>3, <2>4
  <1>14. CASE Inject(t)
    <2> DEFINE d == IF r.op = "continue" THEN 0 ELSE r.depth + 1
               q == [Idle EXCEPT !.pc = "loop", !.op = "loop", !.depth = d]
    <2>1. /\ Kept /\ At(t, "inject") /\ convo' = Append(convo, r.msg)
          /\ UNCHANGED <<queue, sent, disk, acked, pending>> /\ thread' = [thread EXCEPT ![t] = q]
      BY <1>0, <1>14 DEF Inject, Kept, EnterLoop, counters, history, MaxPlans, Plans
    <2>2. d \in Nat /\ d <= r.depth + 1
      BY <1>0
    <2> HIDE DEF d
    <2>3. /\ q \in ThreadState /\ q.pc = "loop" /\ q.op = "loop" /\ q.depth = d
          /\ q.plan = 0 /\ q.call = 0 /\ q.snap = Empty
      BY <2>2, IdleIs DEF ThreadState, pcs, ops
    <2> HIDE DEF q
    <2>4. Becomes(t, q)
      BY <1>0, <2>1, <2>3, IdleIs DEF Becomes, Fits
    <2>5. Tells(t, q)
      BY <2>1, <2>2, <2>3 DEF Tells
    <2> QED
      BY <2>1, <2>4, <2>5 DEF Moving, Kind
  <1>15. CASE HookRaises(t)
    <2>1. /\ Kept /\ Quiet /\ pending' = pending /\ At(t, "tools") /\ unsaved' = TRUE
          /\ thread' = [thread EXCEPT ![t] = Idle]
      BY <1>0, <1>15 DEF HookRaises, Finish, Kept, Quiet, state, counters, MaxPlans, Plans
    <2>2. Becomes(t, Idle)
      BY <1>0, <2>1, IdleIs DEF Becomes, Fits
    <2>3. GivesUp(t, Idle)
      BY <2>1, Zenon DEF GivesUp
    <2> QED
      BY <2>1, <2>2, <2>3 DEF Moving, Kind
  <1> QED
    BY <1>1, <1>2, <1>3, <1>4, <1>5, <1>6, <1>7, <1>8, <1>9, <1>10, <1>11, <1>12, <1>13, <1>14,
       <1>15 DEF Loop

\* ... or a step of a snapshot.
LEMMA PersistMoves ==
    ASSUME Shape, setting' = setting, NEW t \in Threads, Persist(t)
    PROVE  Moving(t)
  <1> DEFINE r == thread[t]
  <1>0. /\ pending \in 0 .. MaxPlans /\ MaxPlans \in Nat /\ MaxCalls \in Nat /\ plans \in 0 .. MaxPlans
        /\ files \subseteq Plans /\ approvedFlag \in BOOLEAN /\ cancel \in BOOLEAN
        /\ r \in ThreadState /\ Fits(r, MaxPlans) /\ r.depth \in Nat /\ r.snap \in Snapshot
        /\ queue \in Seq(Message) /\ convo \in Seq(Message) /\ pending \in Nat
    BY SettingIs DEF Shape, ThreadState
  <1>1. CASE PersistMetadata(t)
    <2> DEFINE s == [pending |-> pending, queue |-> queue, convo |-> <<>>]
               q == [r EXCEPT !.pc = "sync", !.stopped = cancel, !.snap = s]
    <2>1. /\ Kept /\ Quiet /\ pending' = pending /\ At(t, "tail") /\ thread' = [thread EXCEPT ![t] = q]
      BY <1>0, <1>1 DEF PersistMetadata, Kept, Quiet, state, counters, history, MaxPlans, Plans
    <2>2. s \in Snapshot /\ s.pending = pending /\ s.queue = queue /\ s.convo = <<>>
      BY <1>0 DEF Snapshot
    <2> HIDE DEF s
    <2>3. /\ q \in ThreadState /\ q.pc = "sync" /\ q.op = r.op /\ q.depth = r.depth /\ q.msg = r.msg
          /\ q.plan = r.plan /\ q.call = r.call /\ q.snap = s
      BY <1>0, <2>2 DEF ThreadState, pcs
    <2> HIDE DEF q
    <2>4. Becomes(t, q)
      BY <1>0, <2>1, <2>2, <2>3 DEF Becomes, Fits
    <2>5. Notes(t, q)
      BY <2>1, <2>2, <2>3 DEF Notes, Carries
    <2> QED
      BY <2>1, <2>4, <2>5 DEF Moving, Kind
  <1>2. CASE PersistMessages(t)
    <2> DEFINE s == [r.snap EXCEPT !.convo = convo]
               q == [r EXCEPT !.pc = "save", !.snap = s]
    <2>1. /\ Kept /\ Quiet /\ pending' = pending /\ At(t, "sync") /\ thread' = [thread EXCEPT ![t] = q]
      BY <1>0, <1>2 DEF PersistMessages, Kept, Quiet, state, counters, history, MaxPlans, Plans
    <2>2. /\ s \in Snapshot /\ s.pending = r.snap.pending /\ s.queue = r.snap.queue /\ s.convo = convo
      BY <1>0 DEF Snapshot
    <2> HIDE DEF s
    <2>3. /\ q \in ThreadState /\ q.pc = "save" /\ q.op = r.op /\ q.depth = r.depth /\ q.msg = r.msg
          /\ q.plan = r.plan /\ q.call = r.call /\ q.snap = s
      BY <1>0, <2>2 DEF ThreadState, pcs
    <2> HIDE DEF q
    <2>4. Becomes(t, q)
      BY <1>0, <2>1, <2>2, <2>3 DEF Becomes, Fits
    <2>5. Copies(t, q)
      BY <2>1, <2>2, <2>3 DEF Copies, Carries
    <2> QED
      BY <2>1, <2>4, <2>5 DEF Moving, Kind
  <1>3. CASE PersistSave(t)
    <2> DEFINE n == r.depth - 1
               up == [Idle EXCEPT !.pc = "tail", !.op = "loop", !.depth = n]
    <2>1. /\ At(t, "save") /\ disk' = r.snap /\ UNCHANGED <<pending, approvedFlag, queue, convo>>
          /\ acked' = (IF r.op = "enqueue" THEN acked \union {r.msg} ELSE acked)
          /\ UNCHANGED <<files, plans, sent, crashes>>
          /\ cancel' = (cancel /\ ~(r.op = "loop" /\ r.stopped))
      BY <1>3 DEF PersistSave, state, counters
    <2>2. cancel' \in BOOLEAN
      BY <2>1, Zenon
    <2>3. Kept
      BY <1>0, <2>1, <2>2 DEF Kept, MaxPlans, Plans
    <2>4. CASE r.depth > 0
      <3>1. n \in Nat /\ thread' = [thread EXCEPT ![t] = up]
        BY <1>0, <1>3, <2>4 DEF PersistSave
      <3> HIDE DEF n
      <3>2. /\ up \in ThreadState /\ up.pc = "tail" /\ up.op = "loop" /\ up.depth = n
            /\ up.plan = 0 /\ up.call = 0 /\ up.snap = Empty
        BY <3>1, IdleIs DEF ThreadState, pcs, ops
      <3> HIDE DEF up
      <3>3. Becomes(t, up)
        BY <1>0, <3>1, <3>2, IdleIs DEF Becomes, Fits
      <3>4. Saves(t, up)
        BY <2>1, <2>4, <3>2 DEF Saves, n
      <3> QED
        BY <2>3, <3>3, <3>4 DEF Moving, Kind
    <2>5. CASE ~(r.depth > 0)
      <3>1. thread' = [thread EXCEPT ![t] = Idle]
        BY <1>3, <2>5 DEF PersistSave, Finish
      <3>2. Becomes(t, Idle)
        BY <1>0, <3>1, IdleIs DEF Becomes, Fits
      <3>3. Saves(t, Idle)
        BY <2>1 DEF Saves
      <3> QED
        BY <2>3, <3>2, <3>3 DEF Moving, Kind
    <2> QED
      BY <2>4, <2>5
  <1> QED
    BY <1>1, <1>2, <1>3 DEF Persist

\* So a step moves a thread, or is a cancel, or a restart.
LEMMA EveryStep ==
    ASSUME Shape, Next
    PROVE  \/ \E t \in Threads : Moving(t)
           \/ Kept /\ Quiet /\ UNCHANGED <<pending, unsaved, thread>>
           \/ Restart /\ setting' = setting
  <1>1. setting' = setting /\ Hosts \subseteq Threads
    BY DEF Next, Threads
  <1>2. CASE StartPrompt \/ StartContinue \/ StartApprove
    BY <1>1, <1>2, CallMoves
  <1>3. ASSUME NEW h \in Hosts, Call(h)
        PROVE  \E t \in Threads : Moving(t)
    <2>1. CASE StartReject(h) \/ \E d \in Steers : StartEnqueue(h, d)
      BY <1>1, <2>1, CallMoves
    <2>2. CASE AppendMessage(h) \/ Reject(h)
      BY <1>1, <2>2, EntryMoves
    <2> QED
      BY <1>3, <2>1, <2>2 DEF Call
  <1>4. ASSUME NEW t \in Threads, Step(t)
        PROVE  Moving(t)
    BY <1>1, <1>4, EntryMoves, LoopMoves, PersistMoves DEF Step
  <1>5. CASE Cancel
    BY <1>1, <1>5, SettingIs DEF Cancel, Kept, Quiet, Shape, state, counters, history, MaxPlans,
       Plans
  <1> QED
    BY <1>1, <1>2, <1>3, <1>4, <1>5 DEF Next

-----------------------------------------------------------------------------
\* What the steps keep of the threads and of the snapshot's record.

\* A thread that is not the one that moves stays where it is.
LEMMA OneMover ==
    ASSUME Shape, NEW t \in Threads, NEW q, Becomes(t, q)
    PROVE  thread'[t] = q /\ \A u \in Threads : u # t => thread'[u] = thread[u]
  BY DEF Shape, Becomes

\* Where the worker alone may be.
LEMMA WhoTakes ==
    ASSUME Shape, NEW t \in Threads, NEW q, Takes(t, q) \/ Tells(t, q)
    PROVE  t = Worker
  BY ThreadsAssumption DEF Shape, Roles, Takes, Tells, At, Threads

\* A thread keeps to what it is for.
LEMMA RolesKept ==
    ASSUME Shape, NEW t \in Threads, NEW q, Becomes(t, q), Kind(t, q)
    PROVE  Roles'
  <1>1. thread'[t] = q /\ \A u \in Threads : u # t => thread'[u] = thread[u]
    BY OneMover
  <1>2. q.depth \in Nat /\ Hosts \subseteq Threads /\ Worker \in Threads /\ Worker \notin Hosts
    BY ThreadsAssumption DEF Becomes, ThreadState, Threads
  <1>3. ASSUME t \in Hosts
        PROVE  q.pc \in {"idle", "append", "reject", "tail", "sync", "save"} /\ q.depth = 0
    <2>1. thread[t].pc \in {"idle", "append", "reject", "tail", "sync", "save"} /\ thread[t].depth = 0
      BY <1>3 DEF Shape, Roles
    <2>2. ~Takes(t, q) /\ ~Tells(t, q) /\ t # Worker
      BY <1>2, <1>3, WhoTakes
    <2>3. CASE Opens(t, q)
      BY <2>2, <2>3 DEF Opens
    <2>4. CASE Works(t, q)
      BY <1>2, <2>1, <2>4 DEF Works, Working
    <2>5. CASE GivesUp(t, q) \/ Saves(t, q)
      BY <2>1, <2>5, IdleIs DEF GivesUp, Saves
    <2>6. CASE Arrives(t, q) \/ Notes(t, q) \/ Copies(t, q)
      BY <2>1, <2>6 DEF Arrives, Notes, Copies, Carries
    <2> QED
      BY <2>2, <2>3, <2>4, <2>5, <2>6 DEF Kind
  <1>4. t = Worker => q.pc # "append"
    BY <1>2, IdleIs DEF Kind, Opens, Works, Inside, GivesUp, Arrives, Takes, Tells, Notes,
       Copies, Saves
  <1> QED
    BY <1>1, <1>2, <1>3, <1>4 DEF Roles, Shape

\* The queue and the conversation stay sequences of messages.
LEMMA SequencesKept ==
    ASSUME Shape, NEW t \in Threads, NEW q, Becomes(t, q), Kind(t, q)
    PROVE  /\ queue' \in Seq(Message) /\ convo' \in Seq(Message) /\ sent' \in Nat
           /\ disk' \in Snapshot /\ disk'.pending <= MaxPlans
  <1>1. /\ queue \in Seq(Message) /\ convo \in Seq(Message) /\ sent \in Nat /\ disk \in Snapshot
        /\ disk.pending <= MaxPlans /\ thread[t] \in ThreadState /\ Fits(thread[t], MaxPlans)
    BY DEF Shape
  <1>2. thread[t].msg \in Message /\ thread[t].snap \in Snapshot /\ thread[t].snap.pending <= MaxPlans
    BY <1>1 DEF ThreadState, Fits
  <1>3. CASE Opens(t, q) \/ Works(t, q) \/ GivesUp(t, q) \/ Notes(t, q) \/ Copies(t, q)
    BY <1>1, <1>3 DEF Opens, Works, GivesUp, Notes, Copies, Quiet
  <1>4. CASE Arrives(t, q)
    BY <1>1, <1>4 DEF Arrives
  <1>5. CASE Takes(t, q)
    BY <1>1, <1>5, WithoutType DEF Takes
  <1>6. CASE Tells(t, q)
    BY <1>1, <1>2, <1>6 DEF Tells
  <1>7. CASE Saves(t, q)
    BY <1>1, <1>2, <1>7 DEF Saves
  <1> QED
    BY <1>3, <1>4, <1>5, <1>6, <1>7 DEF Kind

\* A restart reads the snapshot, and every thread is idle.
LEMMA Reread ==
    ASSUME Shape, Restart, setting' = setting
    PROVE  /\ Shape' /\ \A t \in Threads : thread'[t] = Idle
           /\ pending' = disk.pending /\ queue' = disk.queue /\ convo' = disk.convo
           /\ disk' = disk /\ sent' = sent /\ acked' = acked /\ MaxCrashes > 0
  <1>1. /\ MaxPlans \in Nat /\ MaxCrashes \in Nat /\ MaxCalls \in Nat /\ setting \in Settings
        /\ crashes \in 0 .. MaxCrashes /\ disk \in Snapshot /\ disk.pending <= MaxPlans
        /\ plans \in 0 .. MaxPlans /\ files \subseteq Plans /\ sent \in Nat
    BY SettingIs DEF Shape
  <1>2. /\ crashes < MaxCrashes /\ crashes' = crashes + 1
        /\ pending' = disk.pending /\ queue' = disk.queue /\ convo' = disk.convo
        /\ approvedFlag' = FALSE /\ cancel' = FALSE /\ thread' = [t \in Threads |-> Idle]
        /\ UNCHANGED <<files, disk, plans, sent, acked>>
    BY DEF Restart, history
  <1>3. disk.pending \in 0 .. MaxPlans /\ disk.queue \in Seq(Message) /\ disk.convo \in Seq(Message)
    BY <1>1 DEF Snapshot
  <1>4. crashes' \in 0 .. MaxCrashes /\ MaxCrashes > 0
    BY <1>1, <1>2
  <1>5. approvedFlag' \in BOOLEAN /\ cancel' \in BOOLEAN
    BY <1>2, Zenon
  <1>6. /\ thread' \in [Threads -> ThreadState] /\ Fits(Idle, MaxPlans)
        /\ \A t \in Threads : thread'[t] = Idle
    BY <1>1, <1>2, IdleIs DEF Fits
  <1>7. Roles'
    BY <1>6, IdleIs DEF Roles, Threads
  <1>8. MaxPlans' = MaxPlans /\ MaxCrashes' = MaxCrashes /\ Plans' = Plans
    BY DEF MaxPlans, MaxCrashes, Plans
  <1>9. Shape'
    BY <1>1, <1>2, <1>3, <1>4, <1>5, <1>6, <1>7, <1>8 DEF Shape
  <1> QED
    BY <1>2, <1>4, <1>6, <1>9

\* Everything keeps its shape.
LEMMA ShapeStep ==
    ASSUME Shape, [Next]_vars
    PROVE  Shape'
  <1>1. ASSUME NEW t \in Threads, Moving(t)
        PROVE  Shape'
    <2>1. PICK q : Kept /\ Becomes(t, q) /\ Kind(t, q)
      BY <1>1 DEF Moving
    <2>2. Roles' /\ queue' \in Seq(Message) /\ convo' \in Seq(Message) /\ sent' \in Nat
          /\ disk' \in Snapshot /\ disk'.pending <= MaxPlans
      BY <2>1, RolesKept, SequencesKept
    <2>3. thread' \in [Threads -> ThreadState] /\ \A u \in Threads : Fits(thread'[u], MaxPlans)
      BY <2>1 DEF Becomes, Shape
    <2>4. MaxPlans' = MaxPlans /\ MaxCrashes' = MaxCrashes /\ Plans' = Plans
      BY <2>1 DEF MaxPlans, MaxCrashes, Plans, Kept
    <2> QED
      BY <2>1, <2>2, <2>3, <2>4 DEF Shape, Kept
  <1>2. CASE Kept /\ Quiet /\ thread' = thread
    <2>1. MaxPlans' = MaxPlans /\ MaxCrashes' = MaxCrashes /\ Plans' = Plans
      BY <1>2 DEF MaxPlans, MaxCrashes, Plans, Kept
    <2>2. Roles'
      BY <1>2 DEF Roles, Shape
    <2> QED
      BY <1>2, <2>1, <2>2 DEF Shape, Kept, Quiet
  <1>3. CASE UNCHANGED vars
    BY <1>3 DEF Shape, Roles, vars, state, counters, history, MaxPlans, MaxCrashes, Plans
  <1>4. CASE Restart /\ setting' = setting
    BY <1>4, Reread
  <1> QED
    BY <1>1, <1>2, <1>3, <1>4, EveryStep

\* At the start there is nothing but the setting.
LEMMA ShapeInit == Init => Shape
  <1> SUFFICES ASSUME Init PROVE Shape
    OBVIOUS
  <1>1. MaxPlans \in Nat /\ MaxCrashes \in Nat /\ MaxCalls \in Nat /\ setting \in Settings
    BY SettingIs DEF Init
  <1>2. /\ thread \in [Threads -> ThreadState] /\ \A t \in Threads : thread[t] = Idle
        /\ Fits(Idle, MaxPlans)
    BY <1>1, IdleIs DEF Init, Fits
  <1>3. Roles
    BY <1>2, IdleIs DEF Roles, Threads
  <1>4. approvedFlag \in BOOLEAN /\ cancel \in BOOLEAN
    BY Zenon DEF Init
  <1>5. /\ queue \in Seq(Message) /\ convo \in Seq(Message) /\ disk \in Snapshot /\ disk.pending = 0
        /\ files \subseteq Plans /\ pending = 0 /\ plans = 0 /\ crashes = 0 /\ sent = 0
    BY IdleIs DEF Init
  <1> QED
    BY <1>1, <1>2, <1>3, <1>4, <1>5 DEF Shape

\* A follow-up leaves the queue only when no steering message waits, at each of the three
\* places where the loop takes one (_dequeue_next_message, _after_tool_round), in any setting.
THEOREM SteersFirst == Spec => SteeringFirst
  <1>1. Shape /\ [Next]_vars =>
          [\A t \in Threads :
             ~At(t, "inject") /\ thread'[t].pc = "inject" /\ thread'[t].msg.delivery = "follow_up"
                => \A q \in Elements(queue) : q.delivery # "steering"]_vars
    <2> SUFFICES ASSUME Shape, Next, NEW u \in Threads, ~At(u, "inject"),
                        thread'[u].pc = "inject", thread'[u].msg.delivery = "follow_up"
                 PROVE  \A q \in Elements(queue) : q.delivery # "steering"
      OBVIOUS
    <2>1. CASE thread' = thread
      BY <2>1 DEF At
    <2>2. CASE Restart /\ setting' = setting
      BY <2>2, Reread, IdleIs
    <2>3. ASSUME NEW t \in Threads, Moving(t)
          PROVE  \A q \in Elements(queue) : q.delivery # "steering"
      <3>1. PICK q : Becomes(t, q) /\ Kind(t, q)
        BY <2>3 DEF Moving
      <3>2. u = t /\ thread'[u] = q
        BY <3>1, OneMover DEF At
      <3>3. Takes(t, q)
        BY <3>1, <3>2, IdleIs DEF Kind, Opens, Works, Inside, GivesUp, Arrives, Tells, Notes,
           Copies, Saves
      <3>4. PICK i \in 1 .. Len(queue) : Chosen(i) /\ q.msg = queue[i]
        BY <3>3 DEF Takes
      <3> QED
        BY <3>2, <3>4 DEF Chosen, Elements
    <2> QED
      BY <2>1, <2>2, <2>3, EveryStep
  <1> QED
    BY <1>1, ShapeInit, ShapeStep, PTL DEF Spec, SteeringFirst

-----------------------------------------------------------------------------
(* The order of the messages.  Told is what was heard with the message that is *)
(* being injected; a step either moves one message from the queue to the end   *)
(* of it, or leaves both, or adds a message to the queue.                      *)

Told == IF At(Worker, "inject") THEN Append(convo, thread[Worker].msg) ELSE convo
Memory == [pending |-> pending, queue |-> queue, convo |-> convo]
Recovers == setting.overlap => setting.crashes = 0

\* m may be heard after x: it came later, or it has to wait for x.
Yields(m, x) == m.id < x.id => m.delivery \notin {"steering", x.delivery}

Ordered(q, c, n) ==
    /\ \A i, j \in 1 .. Len(q) : i < j => q[i].id < q[j].id
    /\ \A i, j \in 1 .. Len(c) : i < j => c[i].id # c[j].id /\ Yields(c[j], c[i])
    /\ \A i \in 1 .. Len(q), j \in 1 .. Len(c) : q[i].id # c[j].id /\ Yields(q[i], c[j])
    /\ Len(q) + Len(c) <= n

Arrived(n) == [id : 1 .. n, delivery : {"steering", "follow_up"}]
Numbered ==
    /\ queue \in Seq(Arrived(sent)) /\ convo \in Seq(Arrived(sent))
    /\ disk.queue \in Seq(Arrived(sent)) /\ disk.convo \in Seq(Arrived(sent))
    /\ \A t \in Threads : /\ thread[t].snap.queue \in Seq(Arrived(sent))
                          /\ thread[t].snap.convo \in Seq(Arrived(sent))
                          /\ At(t, "inject") => thread[t].msg \in Arrived(sent)

Room == sent + Cardinality(Appending) <= MaxMessages

Story == Ordered(queue, Told, sent) /\ thread[Worker].depth <= Len(convo)

\* The snapshot holds the messages that memory holds.
SameMessages ==
    Elements(disk.queue) \union Elements(disk.convo) = Elements(queue) \union Elements(Told)

Durable ==
    /\ \A t, u \in Threads : ~At(t, "idle") /\ ~At(u, "idle") => t = u
    /\ Ordered(disk.queue, disk.convo, sent)
    /\ acked \subseteq Elements(queue) \union Elements(Told)
    /\ acked \subseteq Elements(disk.queue) \union Elements(disk.convo)
    /\ (\A t \in Threads : thread[t].op # "enqueue") => SameMessages
    /\ (\A t \in Threads : thread[t].pc \in Entering) => unsaved \/ disk = Memory
    /\ \A t \in Threads :
          /\ At(t, "sync") => thread[t].snap.pending = pending /\ thread[t].snap.queue = queue
          /\ At(t, "save") => thread[t].snap = Memory
          /\ thread[t].op = "enqueue" =>
                thread[t].pc \in {"tail", "sync", "save"} /\ thread[t].msg \in Elements(queue)

MInv ==
    /\ Shape /\ Numbered /\ Room
    /\ Recovers => Story
    /\ ~setting.overlap => Durable

-----------------------------------------------------------------------------
\* Sequences of messages.

\* More messages: a sequence of some is one of all.
LEMMA MoreArrived ==
    ASSUME NEW n \in Nat, NEW m \in Nat, n <= m
    PROVE  /\ Arrived(n) \subseteq Arrived(m) /\ \A s \in Seq(Arrived(n)) : s \in Seq(Arrived(m))
           /\ Arrived(n) \subseteq Message /\ \A s \in Seq(Arrived(n)) : s \in Seq(Message)
           /\ <<>> \in Seq(Arrived(n))
  <1>1. 1 .. n \subseteq 1 .. m /\ 1 .. n \subseteq Nat
    OBVIOUS
  <1>2. Arrived(n) \subseteq Arrived(m) /\ Arrived(n) \subseteq Message
    BY <1>1 DEF Arrived, Message
  <1> HIDE DEF Arrived
  <1> QED
    BY <1>2

\* What is left when one is taken.
LEMMA WithoutIs ==
    ASSUME NEW S, NEW s \in Seq(S), NEW i \in 1 .. Len(s)
    PROVE  /\ Without(s, i) \in Seq(S) /\ Len(Without(s, i)) = Len(s) - 1
           /\ \A k \in 1 .. Len(s) - 1 : Without(s, i)[k] = IF k < i THEN s[k] ELSE s[k + 1]
  <1> DEFINE a == SubSeq(s, 1, i - 1)
             b == SubSeq(s, i + 1, Len(s))
  <1>1. Len(s) \in Nat /\ i \in Nat /\ 1 <= i /\ i <= Len(s)
    OBVIOUS
  <1>2. a \in Seq(S) /\ Len(a) = i - 1 /\ \A k \in 1 .. i - 1 : a[k] = s[k]
    OBVIOUS
  <1>3. b \in Seq(S) /\ Len(b) = Len(s) - i /\ \A k \in 1 .. Len(s) - i : b[k] = s[i + k]
    OBVIOUS
  <1> HIDE DEF a, b
  <1>4. /\ a \o b \in Seq(S) /\ Len(a \o b) = Len(a) + Len(b)
        /\ \A k \in 1 .. Len(a) + Len(b) : (a \o b)[k] = IF k <= Len(a) THEN a[k] ELSE b[k - Len(a)]
    <2> SUFFICES ASSUME a \in Seq(S), b \in Seq(S)
                 PROVE  <1>4!:
      BY <1>2, <1>3
    <2> QED
      OBVIOUS
  <1>5. Without(s, i) = a \o b
    BY DEF Without, a, b
  <1>6. ASSUME NEW k \in 1 .. Len(s) - 1
        PROVE  Without(s, i)[k] = IF k < i THEN s[k] ELSE s[k + 1]
    <2>1. CASE k < i
      BY <1>1, <1>2, <1>3, <1>4, <1>5, <2>1
    <2>2. CASE ~(k < i)
      <3>1. k - (i - 1) \in 1 .. Len(s) - i /\ i + (k - (i - 1)) = k + 1 /\ ~(k <= i - 1)
        BY <1>1, <2>2
      <3>2. b[k - (i - 1)] = s[k + 1]
        BY <1>3, <3>1
      <3> QED
        BY <1>1, <1>2, <1>3, <1>4, <1>5, <2>2, <3>1, <3>2
    <2> QED
      BY <2>1, <2>2
  <1>7. Len(a) + Len(b) = Len(s) - 1
    BY <1>1, <1>2, <1>3
  <1> QED
    BY <1>4, <1>5, <1>6, <1>7

\* What a sequence holds after one is added, and after one is taken.
LEMMA ElementsOf ==
    ASSUME NEW S, NEW s \in Seq(S), NEW x \in S
    PROVE  /\ Elements(Append(s, x)) = Elements(s) \union {x}
           /\ \A i \in 1 .. Len(s) : Elements(s) = Elements(Without(s, i)) \union {s[i]}
  <1>1. Elements(Append(s, x)) = Elements(s) \union {x}
    <2>1. Len(Append(s, x)) = Len(s) + 1 /\ Len(s) \in Nat
      OBVIOUS
    <2>2. \A k \in 1 .. Len(s) : Append(s, x)[k] = s[k]
      OBVIOUS
    <2>3. Append(s, x)[Len(s) + 1] = x
      OBVIOUS
    <2> QED
      BY <2>1, <2>2, <2>3 DEF Elements
  <1>2. ASSUME NEW i \in 1 .. Len(s)
        PROVE  Elements(s) = Elements(Without(s, i)) \union {s[i]}
    <2>1. /\ Len(Without(s, i)) = Len(s) - 1 /\ Len(s) \in Nat
          /\ \A k \in 1 .. Len(s) - 1 : Without(s, i)[k] = IF k < i THEN s[k] ELSE s[k + 1]
      BY WithoutIs
    <2> DEFINE w == Without(s, i)
    <2> HIDE DEF w
    <2>2. ASSUME NEW k \in 1 .. Len(s), k # i
          PROVE  s[k] \in Elements(w)
      <3>1. CASE k < i
        BY <2>1, <3>1 DEF Elements, w
      <3>2. CASE k > i
        <4>1. k - 1 \in 1 .. Len(s) - 1 /\ w[k - 1] = s[k]
          BY <2>1, <3>2 DEF w
        <4> QED
          BY <2>1, <4>1 DEF Elements, w
      <3> QED
        BY <2>2, <3>1, <3>2
    <2>3. \A k \in 1 .. Len(w) : w[k] \in Elements(s)
      BY <2>1 DEF Elements, w
    <2> QED
      BY <2>2, <2>3 DEF Elements, w
  <1> QED
    BY <1>1, <1>2

\* The numbers of the messages of a sequence.
LEMMA NumbersOf ==
    ASSUME NEW n \in Nat, NEW s \in Seq(Arrived(n))
    PROVE  \A k \in 1 .. Len(s) : s[k].id \in 1 .. n /\ s[k].delivery \in {"steering", "follow_up"}
  <1>1. \A k \in 1 .. Len(s) : s[k] \in Arrived(n)
    OBVIOUS
  <1> QED
    BY <1>1 DEF Arrived

\* A message that arrives is the latest, and is queued last.
LEMMA OrderedArrives ==
    ASSUME NEW n \in Nat, NEW q \in Seq(Arrived(n)), NEW c \in Seq(Arrived(n)), Ordered(q, c, n),
           NEW m \in Message, m.id = n + 1
    PROVE  Ordered(Append(q, m), c, n + 1)
  <1> DEFINE p == Append(q, m)
  <1>1. /\ Len(p) = Len(q) + 1 /\ Len(q) \in Nat /\ Len(c) \in Nat /\ p[Len(q) + 1] = m
        /\ \A k \in 1 .. Len(q) : p[k] = q[k]
    OBVIOUS
  <1>a. /\ \A k \in 1 .. Len(q) : q[k].id \in 1 .. n
        /\ \A k \in 1 .. Len(c) : c[k].id \in 1 .. n
    BY NumbersOf
  <1> HIDE DEF p
  <1>b. \A k \in 1 .. Len(p) : k \in 1 .. Len(q) \/ k = Len(q) + 1
    BY <1>1
  <1>2. ASSUME NEW i \in 1 .. Len(p), NEW j \in 1 .. Len(p), i < j
        PROVE  p[i].id < p[j].id
    <2>1. i \in 1 .. Len(q) /\ p[i] = q[i]
      BY <1>1, <1>2
    <2>2. CASE j \in 1 .. Len(q)
      BY <1>1, <1>2, <2>1, <2>2 DEF Ordered
    <2>3. CASE j = Len(q) + 1
      BY <1>1, <1>a, <2>1, <2>3
    <2> QED
      BY <1>b, <2>2, <2>3
  <1>3. ASSUME NEW i \in 1 .. Len(p), NEW j \in 1 .. Len(c)
        PROVE  p[i].id # c[j].id /\ Yields(p[i], c[j])
    <2>1. CASE i \in 1 .. Len(q)
      BY <1>1, <2>1 DEF Ordered
    <2>2. CASE i = Len(q) + 1
      <3>1. p[i].id = n + 1 /\ c[j].id \in 1 .. n
        BY <1>1, <1>a, <2>2
      <3> QED
        BY <3>1 DEF Yields
    <2> QED
      BY <1>b, <2>1, <2>2
  <1>4. Ordered(p, c, n + 1)
    <2>1. Len(p) + Len(c) <= n + 1
      BY <1>1 DEF Ordered
    <2> QED
      BY <1>2, <1>3, <2>1 DEF Ordered
  <1> QED
    BY <1>4 DEF p

\* A message that is taken is told next: those that stay wait for it.
LEMMA OrderedTaken ==
    ASSUME NEW n \in Nat, queue \in Seq(Arrived(n)), NEW c \in Seq(Arrived(n)), Ordered(queue, c, n),
           NEW i \in 1 .. Len(queue), Chosen(i)
    PROVE  Ordered(Without(queue, i), Append(c, queue[i]), n)
  <1> DEFINE q == Without(queue, i)
             d == Append(c, queue[i])
  <1>w. /\ Len(Without(queue, i)) = Len(queue) - 1
        /\ \A k \in 1 .. Len(queue) - 1 :
              Without(queue, i)[k] = IF k < i THEN queue[k] ELSE queue[k + 1]
    BY WithoutIs
  <1>1. /\ Len(q) = Len(queue) - 1 /\ Len(queue) \in Nat /\ Len(c) \in Nat
        /\ \A k \in 1 .. Len(queue) - 1 : q[k] = IF k < i THEN queue[k] ELSE queue[k + 1]
    BY <1>w
  <1>a. /\ \A k \in 1 .. Len(queue) : queue[k].id \in 1 .. n
        /\ \A k \in 1 .. Len(c) : c[k].id \in 1 .. n
    BY NumbersOf
  <1>2. /\ Len(d) = Len(c) + 1 /\ d[Len(c) + 1] = queue[i]
        /\ \A k \in 1 .. Len(c) : d[k] = c[k]
    OBVIOUS
  <1> HIDE DEF q, d
  <1>b. \A l \in 1 .. Len(d) : l \in 1 .. Len(c) \/ l = Len(c) + 1
    BY <1>1, <1>2
  <1>3. \A k \in 1 .. Len(q) : \E j \in 1 .. Len(queue) : /\ q[k] = queue[j] /\ j # i
                                                         /\ j = IF k < i THEN k ELSE k + 1
    BY <1>1
  <1>4. ASSUME NEW k \in 1 .. Len(q), NEW l \in 1 .. Len(q), k < l
        PROVE  q[k].id < q[l].id
    <2> DEFINE j == IF k < i THEN k ELSE k + 1
               m == IF l < i THEN l ELSE l + 1
    <2>1. j \in 1 .. Len(queue) /\ m \in 1 .. Len(queue) /\ j < m
      BY <1>1, <1>4
    <2>2. q[k] = queue[j] /\ q[l] = queue[m]
      BY <1>1
    <2> HIDE DEF j, m
    <2> QED
      BY <2>1, <2>2 DEF Ordered
  <1>5. \A k, l \in 1 .. Len(d) : k < l => d[k].id # d[l].id /\ Yields(d[l], d[k])
    <2> SUFFICES ASSUME NEW k \in 1 .. Len(d), NEW l \in 1 .. Len(d), k < l
                 PROVE  d[k].id # d[l].id /\ Yields(d[l], d[k])
      OBVIOUS
    <2>1. CASE l \in 1 .. Len(c)
      BY <1>2, <2>1 DEF Ordered
    <2>2. CASE l = Len(c) + 1
      <3>1. k \in 1 .. Len(c) /\ d[k] = c[k] /\ d[l] = queue[i]
        BY <1>1, <1>2, <2>2
      <3> QED
        BY <3>1 DEF Ordered
    <2> QED
      BY <1>b, <2>1, <2>2
  <1>6. ASSUME NEW j \in 1 .. Len(queue), j # i
        PROVE  queue[j].id # queue[i].id /\ Yields(queue[j], queue[i])
    <2>1. CASE j < i
      <3>1. queue[j].id < queue[i].id /\ queue[j].delivery # "steering"
        BY <2>1 DEF Ordered, Chosen
      <3>2. queue[i].delivery = "steering"
        BY <2>1 DEF Chosen
      <3>3. queue[j].id \in Nat /\ queue[i].id \in Nat
        BY <1>a
      <3> QED
        BY <3>1, <3>2, <3>3 DEF Yields
    <2>2. CASE i < j
      <3>1. queue[i].id < queue[j].id /\ queue[j].id \in Nat /\ queue[i].id \in Nat
        BY <1>a, <2>2 DEF Ordered
      <3> QED
        BY <3>1 DEF Yields
    <2> QED
      BY <1>6, <2>1, <2>2
  <1>7. ASSUME NEW k \in 1 .. Len(q), NEW l \in 1 .. Len(d)
        PROVE  q[k].id # d[l].id /\ Yields(q[k], d[l])
    <2>1. PICK j \in 1 .. Len(queue) : q[k] = queue[j] /\ j # i
      BY <1>3
    <2>2. CASE l \in 1 .. Len(c)
      BY <1>2, <2>1, <2>2 DEF Ordered
    <2>3. CASE l = Len(c) + 1
      BY <1>2, <1>6, <2>1, <2>3
    <2> QED
      BY <1>b, <2>2, <2>3
  <1>8. Len(q) + Len(d) <= n
    BY <1>1, <1>2 DEF Ordered
  <1>9. Ordered(q, d, n)
    BY <1>4, <1>5, <1>7, <1>8 DEF Ordered
  <1> QED
    BY <1>9 DEF q, d

-----------------------------------------------------------------------------
\* What the kinds of steps do to the messages.

\* Told grows by the message that is taken, and otherwise stays.
LEMMA ToldIs ==
    ASSUME Shape, NEW t \in Threads, NEW q, Becomes(t, q), Kind(t, q)
    PROVE  /\ Takes(t, q) => Told = convo /\ Told' = Append(Told, q.msg)
           /\ ~Takes(t, q) => Told' = Told
           /\ ~Tells(t, q) => convo' = convo
           /\ Tells(t, q) => convo' = Append(convo, thread[t].msg)
           /\ ~Takes(t, q) /\ ~Arrives(t, q) => queue' = queue /\ sent' = sent
  <1>1. thread'[t] = q /\ \A u \in Threads : u # t => thread'[u] = thread[u]
    BY OneMover
  <1>2. Worker \in Threads
    BY DEF Threads
  <1>3. /\ ~Tells(t, q) => convo' = convo
        /\ ~Takes(t, q) /\ ~Arrives(t, q) => queue' = queue /\ sent' = sent
    BY DEF Kind, Opens, Works, GivesUp, Arrives, Takes, Tells, Notes, Copies, Saves, Quiet
  <1>4. CASE Takes(t, q)
    <2>1. t = Worker /\ ~At(Worker, "inject") /\ q.pc = "inject" /\ convo' = convo
      BY <1>4, WhoTakes DEF Takes, At
    <2>2. Told = convo /\ Told' = Append(convo, q.msg)
      BY <1>1, <2>1 DEF Told, At
    <2> QED
      BY <1>3, <1>4, <2>1, <2>2 DEF Takes, Tells, At
  <1>5. CASE Tells(t, q)
    <2>1. t = Worker /\ At(Worker, "inject") /\ q.pc = "loop" /\ convo' = Append(convo, thread[Worker].msg)
      BY <1>5, WhoTakes DEF Tells
    <2>2. Told = Append(convo, thread[Worker].msg) /\ Told' = convo'
      BY <1>1, <2>1 DEF Told, At
    <2> QED
      BY <1>3, <1>5, <2>1, <2>2 DEF Takes, Tells, At
  <1>6. CASE ~Takes(t, q) /\ ~Tells(t, q)
    <2>1. t = Worker => ~At(Worker, "inject") /\ q.pc # "inject"
      BY <1>6, IdleIs DEF Kind, Opens, Works, Working, Inside, GivesUp, Arrives, Notes, Copies,
         Saves, At
    <2>2. Told' = Told
      BY <1>1, <1>2, <1>3, <1>6, <2>1 DEF Told, At
    <2> QED
      BY <1>3, <1>6, <2>2
  <1> QED
    BY <1>4, <1>5, <1>6

\* Every message anywhere has arrived.
LEMMA NumberedKept ==
    ASSUME Shape, Numbered, NEW t \in Threads, NEW q, Becomes(t, q), Kind(t, q)
    PROVE  Numbered'
  <1>1. thread'[t] = q /\ \A u \in Threads : u # t => thread'[u] = thread[u]
    BY OneMover
  <1>2. sent \in Nat /\ sent' \in Nat /\ sent <= sent'
    <2>1. sent \in Nat
      BY DEF Shape
    <2>2. CASE Arrives(t, q)
      BY <2>1, <2>2 DEF Arrives
    <2>3. CASE Takes(t, q)
      BY <2>1, <2>3 DEF Takes
    <2>4. CASE ~Arrives(t, q) /\ ~Takes(t, q)
      BY <2>1, <2>4, ToldIs
    <2> QED
      BY <2>2, <2>3, <2>4
  <1>3. /\ Arrived(sent) \subseteq Arrived(sent') /\ \A s \in Seq(Arrived(sent)) : s \in Seq(Arrived(sent'))
        /\ <<>> \in Seq(Arrived(sent'))
    BY <1>2, MoreArrived
  <1>4. queue' \in Seq(Arrived(sent'))
    <2>1. CASE Arrives(t, q)
      <3>1. q.msg \in Arrived(sent')
        <4>1. q.msg \in Message /\ q.msg.id = sent + 1 /\ sent' = sent + 1
          BY <2>1 DEF Arrives
        <4>2. q.msg.id \in 1 .. sent'
          BY <1>2, <4>1
        <4> QED
          BY <4>1, <4>2 DEF Arrived, Message
      <3>2. queue \in Seq(Arrived(sent')) /\ queue' = Append(queue, q.msg)
        BY <1>3, <2>1 DEF Numbered, Arrives
      <3> QED
        BY <3>1, <3>2
    <2>2. CASE Takes(t, q)
      <3>1. PICK i \in 1 .. Len(queue) : queue' = Without(queue, i)
        BY <2>2 DEF Takes
      <3>2. queue \in Seq(Arrived(sent'))
        BY <1>3 DEF Numbered
      <3> QED
        BY <3>1, <3>2, WithoutIs
    <2>3. CASE ~Arrives(t, q) /\ ~Takes(t, q)
      BY <1>3, <2>3, ToldIs DEF Numbered
    <2> QED
      BY <2>1, <2>2, <2>3
  <1>5. convo' \in Seq(Arrived(sent'))
    <2>1. CASE Tells(t, q)
      <3>1. thread[t].msg \in Arrived(sent') /\ convo \in Seq(Arrived(sent'))
        BY <1>3, <2>1 DEF Numbered, Tells
      <3> QED
        BY <2>1, <3>1 DEF Tells
    <2>2. CASE ~Tells(t, q)
      BY <1>3, <2>2, ToldIs DEF Numbered
    <2> QED
      BY <2>1, <2>2
  <1>6. disk'.queue \in Seq(Arrived(sent')) /\ disk'.convo \in Seq(Arrived(sent'))
    <2>1. CASE Saves(t, q)
      BY <1>3, <2>1 DEF Numbered, Saves
    <2>2. CASE ~Saves(t, q)
      <3>1. disk' = disk
        BY <2>2 DEF Kind, Opens, Works, GivesUp, Arrives, Takes, Tells, Notes, Copies, Quiet
      <3> QED
        BY <1>3, <3>1 DEF Numbered
    <2> QED
      BY <2>1, <2>2
  <1>7. q.snap.queue \in Seq(Arrived(sent')) /\ q.snap.convo \in Seq(Arrived(sent'))
    <2>0. /\ Empty.queue = <<>> /\ Empty.convo = <<>> /\ queue \in Seq(Arrived(sent))
          /\ convo \in Seq(Arrived(sent)) /\ thread[t].snap.queue \in Seq(Arrived(sent))
          /\ thread[t].snap.convo \in Seq(Arrived(sent))
      BY IdleIs DEF Numbered
    <2>1. CASE q.snap \in {Empty, thread[t].snap}
      BY <1>3, <2>0, <2>1
    <2>2. CASE Notes(t, q) \/ Copies(t, q)
      BY <1>3, <2>0, <2>2 DEF Notes, Copies
    <2>3. q.snap \in {Empty, thread[t].snap} \/ Notes(t, q) \/ Copies(t, q)
      BY IdleIs DEF Kind, Opens, Works, GivesUp, Arrives, Takes, Tells, Saves
    <2> QED
      BY <2>1, <2>2, <2>3
  <1>8. q.pc = "inject" => q.msg \in Arrived(sent')
    <2>1. ASSUME q.pc = "inject"
          PROVE  Takes(t, q)
      BY <2>1, IdleIs DEF Kind, Opens, Works, Inside, GivesUp, Arrives, Tells, Notes, Copies, Saves
    <2>2. ASSUME Takes(t, q)
          PROVE  q.msg \in Arrived(sent')
      <3>1. PICK i \in 1 .. Len(queue) : q.msg = queue[i]
        BY <2>2 DEF Takes
      <3>2. queue[i] \in Arrived(sent)
        BY DEF Numbered
      <3> QED
        BY <1>3, <3>1, <3>2
    <2> QED
      BY <2>1, <2>2
  <1>9. ASSUME NEW u \in Threads
        PROVE  /\ thread'[u].snap.queue \in Seq(Arrived(sent')) /\ thread'[u].snap.convo \in Seq(Arrived(sent'))
               /\ thread'[u].pc = "inject" => thread'[u].msg \in Arrived(sent')
    <2>1. CASE u = t
      BY <1>1, <1>7, <1>8, <2>1
    <2>2. CASE u # t
      BY <1>1, <1>3, <2>2 DEF Numbered, At
    <2> QED
      BY <2>1, <2>2
  <1> QED
    BY <1>4, <1>5, <1>6, <1>9 DEF Numbered, At

\* An arriving message finds room for it.
LEMMA RoomKept ==
    ASSUME Shape, Room, NEW t \in Threads, NEW q, Kept, Becomes(t, q), Kind(t, q)
    PROVE  Room'
  <1>1. thread'[t] = q /\ \A u \in Threads : u # t => thread'[u] = thread[u]
    BY OneMover
  <1>2. /\ IsFiniteSet(Hosts) /\ Worker \notin Hosts /\ Hosts \subseteq Threads /\ MaxMessages \in Nat
        /\ MaxMessages' = MaxMessages /\ sent \in Nat
    BY SettingIs, ThreadsAssumption DEF Shape, Kept, MaxMessages, Threads
  <1>3. Appending \subseteq Hosts
    BY DEF Appending
  <1>4. IsFiniteSet(Appending) /\ Cardinality(Appending) \in Nat
    BY <1>2, <1>3, FS_Subset, FS_CardinalityType
  <1>5. CASE t \in Hosts /\ q.pc = "append"
    <2>1. Opens(t, q)
      BY <1>5, IdleIs DEF Kind, Works, Inside, GivesUp, Arrives, Takes, Tells, Notes, Copies, Saves
    <2>2. sent + Cardinality(Appending) < MaxMessages /\ sent' = sent /\ t \notin Appending
      BY <1>2, <1>5, <2>1 DEF Opens, Quiet, Appending, At
    <2>3. Appending' = Appending \union {t}
      BY <1>1, <1>2, <1>5 DEF Appending, At
    <2>4. Cardinality(Appending') = Cardinality(Appending) + 1
      BY <1>4, <2>2, <2>3, FS_AddElement
    <2> QED
      BY <1>2, <1>4, <2>2, <2>4 DEF Room
  <1>6. CASE Arrives(t, q)
    <2>1. t \in Appending /\ sent' = sent + 1 /\ q.pc # "append"
      BY <1>6 DEF Arrives, Appending
    <2>2. Appending' = Appending \ {t}
      BY <1>1, <1>2, <2>1 DEF Appending, At
    <2>3. Cardinality(Appending') = Cardinality(Appending) - 1
      BY <1>4, <2>1, <2>2, FS_RemoveElement
    <2> QED
      BY <1>2, <1>4, <2>1, <2>3 DEF Room
  <1>7. CASE ~(t \in Hosts /\ q.pc = "append") /\ ~Arrives(t, q)
    <2>1. t \notin Appending /\ sent' = sent
      <3>1. thread[t].pc # "append" \/ t = Worker
        BY <1>7, IdleIs DEF Kind, Opens, Works, Working, GivesUp, Takes, Tells, Notes, Copies,
           Saves, At
      <3>2. sent' = sent
        BY <1>7, ToldIs DEF Takes
      <3> QED
        BY <1>2, <3>1, <3>2 DEF Appending, At
    <2>2. Appending' = Appending
      BY <1>1, <1>2, <1>7, <2>1 DEF Appending, At
    <2> QED
      BY <1>2, <2>1, <2>2 DEF Room
  <1> QED
    BY <1>5, <1>6, <1>7

\* The messages keep their order, and the nested loops are no more than the messages told.
LEMMA StoryKept ==
    ASSUME Shape, Numbered, Story, NEW t \in Threads, NEW q, Becomes(t, q), Kind(t, q)
    PROVE  Story'
  <1>1. thread'[t] = q /\ \A u \in Threads : u # t => thread'[u] = thread[u]
    BY OneMover
  <1>2. /\ sent \in Nat /\ queue \in Seq(Arrived(sent)) /\ convo \in Seq(Arrived(sent))
        /\ Ordered(queue, Told, sent) /\ Worker \in Threads
    BY DEF Shape, Numbered, Story, Threads
  <1>3. Told \in Seq(Arrived(sent))
    BY <1>2 DEF Told, Numbered
  <1>4. Ordered(queue', Told', sent')
    <2>1. CASE Arrives(t, q)
      <3>1. /\ queue' = Append(queue, q.msg) /\ sent' = sent + 1 /\ q.msg \in Message /\ q.msg.id = sent + 1
            /\ ~Takes(t, q)
        BY <2>1 DEF Arrives, Takes
      <3> QED
        BY <1>2, <1>3, <3>1, OrderedArrives, ToldIs
    <2>2. CASE Takes(t, q)
      <3>1. PICK i \in 1 .. Len(queue) : Chosen(i) /\ queue' = Without(queue, i) /\ q.msg = queue[i]
        BY <2>2 DEF Takes
      <3>2. sent' = sent /\ Told' = Append(Told, queue[i])
        BY <2>2, <3>1, ToldIs DEF Takes
      <3> QED
        BY <1>2, <1>3, <3>1, <3>2, OrderedTaken
    <2>3. CASE ~Arrives(t, q) /\ ~Takes(t, q)
      BY <1>2, <2>3, ToldIs
    <2> QED
      BY <2>1, <2>2, <2>3
  <1>5. thread'[Worker].depth <= Len(convo')
    <2>1. /\ Len(convo) \in Nat /\ thread[Worker].depth <= Len(convo)
          /\ \A u \in Threads : thread[u].depth \in Nat
      BY <1>2 DEF Story, Shape, ThreadState
    <2>2. CASE Tells(t, q)
      <3>1. t = Worker /\ q.depth <= thread[Worker].depth + 1 /\ q.depth \in Nat
        BY <2>2, WhoTakes DEF Tells, Becomes, ThreadState
      <3>2. Len(convo') = Len(convo) + 1
        BY <1>2, <2>2 DEF Tells
      <3> QED
        BY <1>1, <2>1, <3>1, <3>2
    <2>3. CASE ~Tells(t, q)
      <3>1. convo' = convo
        BY <2>3, ToldIs
      <3>2. q.depth <= thread[t].depth /\ q.depth \in Nat
        <4>1. q.depth \in Nat
          BY DEF Becomes, ThreadState
        <4> QED
          BY <2>1, <2>3, <4>1, IdleIs DEF Kind, Opens, Works, GivesUp, Arrives, Takes, Notes,
             Copies, Carries, Saves
      <3> QED
        BY <1>1, <1>2, <2>1, <3>1, <3>2
    <2> QED
      BY <2>2, <2>3
  <1> QED
    BY <1>4, <1>5 DEF Story

-----------------------------------------------------------------------------
\* Where calls come one at a time: what was acknowledged is queued or told, and saved.

\* One thread is active, and so an acknowledged message stays where it can be found.
LEMMA AckedKept ==
    ASSUME Shape, Numbered, Durable, NEW t \in Threads, NEW q, Becomes(t, q), Kind(t, q)
    PROVE  acked' \subseteq Elements(queue') \union Elements(Told')
  <1>1. acked \subseteq Elements(queue) \union Elements(Told)
    BY DEF Durable
  <1>2. /\ sent \in Nat /\ queue \in Seq(Message) /\ convo \in Seq(Message)
    BY DEF Shape
  <1>3. CASE Saves(t, q)
    <2>1. queue' = queue /\ Told' = Told
      BY <1>3, ToldIs DEF Saves, Takes, Arrives, At
    <2>2. thread[t].op = "enqueue" => thread[t].msg \in Elements(queue)
      BY DEF Durable
    <2> QED
      BY <1>1, <1>3, <2>1, <2>2 DEF Saves
  <1>4. CASE ~Saves(t, q)
    <2>1. acked' = acked
      BY <1>4 DEF Kind, Opens, Works, GivesUp, Arrives, Takes, Tells, Notes, Copies, Quiet
    <2>2. CASE Arrives(t, q)
      <3>1. queue' = Append(queue, q.msg) /\ q.msg \in Message /\ Told' = Told
        BY <2>2, ToldIs DEF Arrives, Takes
      <3>2. Elements(queue') = Elements(queue) \union {q.msg}
        BY <1>2, <3>1, ElementsOf
      <3> QED
        BY <1>1, <2>1, <3>1, <3>2
    <2>3. CASE Takes(t, q)
      <3>1. PICK i \in 1 .. Len(queue) : queue' = Without(queue, i) /\ q.msg = queue[i]
        BY <2>3 DEF Takes
      <3>2. queue[i] \in Message /\ Told = convo /\ Told' = Append(convo, queue[i])
        BY <1>2, <2>3, <3>1, ToldIs
      <3>3. Elements(queue) = Elements(queue') \union {queue[i]}
        BY <1>2, <3>1, <3>2, ElementsOf
      <3>4. Elements(Told') = Elements(Told) \union {queue[i]}
        BY <1>2, <3>2, ElementsOf
      <3> QED
        BY <1>1, <2>1, <3>3, <3>4
    <2>4. CASE ~Arrives(t, q) /\ ~Takes(t, q)
      BY <1>1, <2>1, <2>4, ToldIs
    <2> QED
      BY <2>2, <2>3, <2>4
  <1> QED
    BY <1>3, <1>4

\* The snapshot a thread saves is what memory holds, so nothing acknowledged is missing.
LEMMA SavedIsMemory ==
    ASSUME Shape, Durable, NEW t \in Threads, At(t, "save")
    PROVE  thread[t].snap = Memory /\ Told = convo
  <1>1. thread[t].snap = Memory
    BY DEF Durable
  <1>2. ~At(Worker, "inject")
    BY DEF Durable, At, Threads
  <1> QED
    BY <1>1, <1>2 DEF Told

\* The snapshot under way is what memory holds.
LEMMA SnapKept ==
    ASSUME Shape, Durable, NEW t \in Threads, NEW q, Becomes(t, q), Kind(t, q)
    PROVE  /\ q.pc = "sync" => q.snap.pending = pending' /\ q.snap.queue = queue'
           /\ q.pc = "save" => q.snap = Memory'
           /\ q.op = "enqueue" => q.pc \in {"tail", "sync", "save"} /\ q.msg \in Elements(queue')
  <1>1. q.pc = "sync" => q.snap.pending = pending' /\ q.snap.queue = queue'
    <2>1. q.pc = "sync" => Notes(t, q)
      BY IdleIs DEF Kind, Opens, Works, Inside, GivesUp, Arrives, Takes, Tells, Copies, Saves
    <2> QED
      BY <2>1 DEF Notes, Quiet
  <1>2. ASSUME q.pc = "save"
        PROVE  q.snap = Memory'
    <2>1. Copies(t, q)
      BY <1>2, IdleIs DEF Kind, Opens, Works, Inside, GivesUp, Arrives, Takes, Tells, Notes, Saves
    <2>2. q.snap.pending = pending' /\ q.snap.queue = queue' /\ q.snap.convo = convo'
      BY <2>1 DEF Copies, Quiet, Durable
    <2>3. q.snap \in Snapshot
      BY DEF Becomes, ThreadState
    <2>4. q.snap = [pending |-> q.snap.pending, queue |-> q.snap.queue, convo |-> q.snap.convo]
      BY <2>3 DEF Snapshot
    <2> QED
      BY <2>2, <2>4 DEF Memory
  <1>3. ASSUME q.op = "enqueue"
        PROVE  q.pc \in {"tail", "sync", "save"} /\ q.msg \in Elements(queue')
    <2>1. thread[t].op = "enqueue" => thread[t].pc \in {"tail", "sync", "save"} /\ thread[t].msg \in Elements(queue)
      BY DEF Durable
    <2>2. CASE Arrives(t, q)
      <3>1. queue \in Seq(Message) /\ q.msg \in Message /\ queue' = Append(queue, q.msg) /\ q.pc = "tail"
        BY <2>2 DEF Shape, Arrives
      <3>2. Elements(queue') = Elements(queue) \union {q.msg}
        BY <3>1, ElementsOf
      <3> QED
        BY <3>1, <3>2
    <2>3. CASE Notes(t, q) \/ Copies(t, q)
      BY <1>3, <2>1, <2>3 DEF Notes, Copies, Carries, Quiet
    <2>4. ~(Opens(t, q) \/ Works(t, q) \/ GivesUp(t, q) \/ Takes(t, q) \/ Tells(t, q) \/ Saves(t, q))
      BY <1>3, <2>1, IdleIs DEF Opens, Works, Working, GivesUp, Takes, Tells, Saves
    <2> QED
      BY <2>2, <2>3, <2>4 DEF Kind
  <1> QED
    BY <1>1, <1>2, <1>3

\* The snapshot on disk holds the acknowledged messages, in order; and it is what memory
\* holds whenever no call is past its first check, unless an exception left the last loop.
LEMMA DiskKept ==
    ASSUME Shape, Numbered, Story, ~setting.overlap, Durable,
           NEW t \in Threads, NEW q, Becomes(t, q), Kind(t, q)
    PROVE  /\ Ordered(disk'.queue, disk'.convo, sent')
           /\ acked' \subseteq Elements(disk'.queue) \union Elements(disk'.convo)
           /\ (\A u \in Threads : thread'[u].pc \in Entering) => unsaved' \/ disk' = Memory'
  <1>1. thread'[t] = q /\ \A u \in Threads : u # t => thread'[u] = thread[u]
    BY OneMover
  <1>2. /\ Ordered(disk.queue, disk.convo, sent) /\ Ordered(queue, Told, sent) /\ sent \in Nat
        /\ acked \subseteq Elements(queue) \union Elements(Told)
        /\ acked \subseteq Elements(disk.queue) \union Elements(disk.convo)
        /\ (\A u \in Threads : thread[u].pc \in Entering) => unsaved \/ disk = Memory
    BY DEF Durable, Story, Shape
  <1>3. CASE Saves(t, q)
    <2>1. /\ disk' = Memory /\ Told = convo /\ queue' = queue /\ convo' = convo /\ sent' = sent
          /\ pending' = pending
      BY <1>3, SavedIsMemory DEF Saves
    <2>2. disk' = Memory' /\ disk'.queue = queue /\ disk'.convo = Told
      BY <2>1 DEF Memory
    <2>3. acked' \subseteq Elements(queue) \union Elements(Told)
      <3>1. thread[t].op = "enqueue" => thread[t].msg \in Elements(queue)
        BY DEF Durable
      <3> QED
        BY <1>2, <1>3, <3>1 DEF Saves
    <2> QED
      BY <1>2, <2>1, <2>2, <2>3
  <1>4. CASE ~Saves(t, q)
    <2>1. disk' = disk /\ acked' = acked
      BY <1>4 DEF Kind, Opens, Works, GivesUp, Arrives, Takes, Tells, Notes, Copies, Quiet
    <2>2. Ordered(disk.queue, disk.convo, sent')
      <3>1. CASE sent' = sent
        BY <1>2, <3>1
      <3>2. CASE Arrives(t, q)
        <4>1. sent' = sent + 1 /\ Len(disk.queue) \in Nat /\ Len(disk.convo) \in Nat
          BY <3>2 DEF Arrives, Shape, Snapshot
        <4>3. Len(disk.queue) + Len(disk.convo) <= sent
          BY <1>2 DEF Ordered
        <4>2. Len(disk.queue) + Len(disk.convo) <= sent'
          <5> DEFINE a == Len(disk.queue)
                     b == Len(disk.convo)
          <5>1. sent \in Nat /\ a \in Nat /\ b \in Nat /\ a + b <= sent /\ sent' = sent + 1
            BY <1>2, <4>1, <4>3
          <5> HIDE DEF a, b
          <5>2. a + b <= sent'
            BY <5>1
          <5> QED
            BY <5>2 DEF a, b
        <4> QED
          BY <1>2, <4>2 DEF Ordered
      <3> QED
        BY <3>1, <3>2, ToldIs DEF Takes
    <2>3. ASSUME \A u \in Threads : thread'[u].pc \in Entering
          PROVE  unsaved' \/ disk' = Memory'
      <3>1. q.pc \in Entering
        BY <1>1, <2>3
      <3>2. Opens(t, q) \/ GivesUp(t, q)
        BY <1>4, <3>1 DEF Kind, Works, Inside, Arrives, Takes, Tells, Notes, Copies, Entering
      <3>3. CASE unsaved'
        BY <3>3
      <3>4. CASE ~unsaved'
        <4>1. \A u \in Threads : thread[u].pc \in Entering
          <5>1. CASE Opens(t, q)
            BY <5>1 DEF Opens, AtRest, Entering
          <5>2. CASE GivesUp(t, q)
            BY <1>1, <2>3, <3>4, <5>2 DEF GivesUp, At, Entering
          <5> QED
            BY <3>2, <5>1, <5>2
        <4>2. /\ pending' = pending /\ queue' = queue /\ convo' = convo /\ ~unsaved
          BY <3>2, <3>4 DEF Opens, GivesUp, Quiet
        <4> QED
          BY <1>2, <2>1, <4>1, <4>2 DEF Memory
      <3> QED
        BY <3>3, <3>4
    <2> QED
      BY <1>2, <2>1, <2>2, <2>3
  <1> QED
    BY <1>3, <1>4

\* A message leaves neither memory nor the snapshot, and comes to memory by an enqueue.
LEMMA SameKept ==
    ASSUME Shape, Durable, NEW t \in Threads, NEW q, Becomes(t, q), Kind(t, q),
           \A u \in Threads : thread'[u].op # "enqueue"
    PROVE  SameMessages'
  <1>1. thread'[t] = q /\ \A u \in Threads : u # t => thread'[u] = thread[u]
    BY OneMover
  <1>2. /\ sent \in Nat /\ queue \in Seq(Message) /\ convo \in Seq(Message)
        /\ q.op # "enqueue"
    BY <1>1 DEF Shape
  <1>3. CASE Saves(t, q)
    <2>1. disk' = Memory /\ Told = convo /\ queue' = queue /\ Told' = Told
      BY <1>3, SavedIsMemory, ToldIs DEF Saves, Takes, At
    <2> QED
      BY <2>1 DEF SameMessages, Memory
  <1>4. CASE ~Saves(t, q)
    <2>1. disk' = disk /\ ~Arrives(t, q)
      BY <1>2, <1>4 DEF Kind, Opens, Works, GivesUp, Arrives, Takes, Tells, Notes, Copies, Quiet
    <2>2. thread[t].op # "enqueue"
      <3>1. thread[t].op = "enqueue" => thread[t].pc \in {"tail", "sync", "save"}
        BY DEF Durable
      <3> QED
        BY <1>2, <1>4, <2>1, <3>1 DEF Kind, Opens, Works, Working, GivesUp, Takes, Tells, Notes,
           Copies,
                                      Carries, At
    <2>3. SameMessages
      BY <1>1, <2>2 DEF Durable
    <2>4. CASE Takes(t, q)
      <3>1. PICK i \in 1 .. Len(queue) : queue' = Without(queue, i) /\ q.msg = queue[i]
        BY <2>4 DEF Takes
      <3>2. queue[i] \in Message /\ Told = convo /\ Told' = Append(convo, queue[i])
        BY <1>2, <2>4, <3>1, ToldIs
      <3>3. Elements(queue) = Elements(queue') \union {queue[i]}
        BY <1>2, <3>1, <3>2, ElementsOf
      <3>4. Elements(Told') = Elements(Told) \union {queue[i]}
        BY <1>2, <3>2, ElementsOf
      <3> QED
        BY <2>1, <2>3, <3>3, <3>4 DEF SameMessages
    <2>5. CASE ~Takes(t, q)
      BY <2>1, <2>3, <2>5, ToldIs DEF SameMessages
    <2> QED
      BY <2>4, <2>5
  <1> QED
    BY <1>3, <1>4

\* So a step of a thread keeps all of it.
LEMMA DurableKept ==
    ASSUME Shape, Numbered, Story, ~setting.overlap, Durable,
           NEW t \in Threads, NEW q, Becomes(t, q), Kind(t, q)
    PROVE  Durable'
  <1>1. thread'[t] = q /\ \A u \in Threads : u # t => thread'[u] = thread[u]
    BY OneMover
  <1>2. \A u \in Threads : u # t /\ ~At(t, "idle") => At(u, "idle")
    BY DEF Durable
  <1>3. At(t, "idle") => Opens(t, q) /\ AtRest
    BY DEF Kind, Opens, Works, Working, GivesUp, Arrives, Takes, Tells, Notes, Copies, Saves, At
  <1>4. \A u \in Threads : u # t => thread[u].pc = "idle" /\ thread'[u].pc = "idle"
    BY <1>1, <1>2, <1>3 DEF AtRest, At
  <1>5. \A u \in Threads : u # t => thread'[u].op # "enqueue"
    BY <1>1, <1>4 DEF Durable
  <1>6. \A u, v \in Threads : thread'[u].pc # "idle" /\ thread'[v].pc # "idle" => u = v
    BY <1>4
  <1>7. ASSUME NEW u \in Threads
        PROVE  /\ thread'[u].pc = "sync" => thread'[u].snap.pending = pending' /\ thread'[u].snap.queue = queue'
               /\ thread'[u].pc = "save" => thread'[u].snap = Memory'
               /\ thread'[u].op = "enqueue" => /\ thread'[u].pc \in {"tail", "sync", "save"}
                                               /\ thread'[u].msg \in Elements(queue')
    <2>1. CASE u = t
      BY <1>1, <2>1, SnapKept
    <2>2. CASE u # t
      BY <1>4, <1>5, <2>2
    <2> QED
      BY <2>1, <2>2
  <1> QED
    BY <1>6, <1>7, AckedKept, DiskKept, SameKept DEF Durable, At

-----------------------------------------------------------------------------
\* A restart finds on the disk what the invariant needs.
LEMMA RestartKeeps ==
    ASSUME MInv, Restart, setting' = setting
    PROVE  MInv'
  <1>1. /\ Shape' /\ \A t \in Threads : thread'[t] = Idle
        /\ pending' = disk.pending /\ queue' = disk.queue /\ convo' = disk.convo
        /\ disk' = disk /\ sent' = sent /\ acked' = acked /\ MaxCrashes > 0
    BY Reread DEF MInv
  <1>2. /\ Idle.pc = "idle" /\ Idle.op = "none" /\ Idle.depth = 0 /\ Idle.snap = Empty
        /\ Empty.queue = <<>> /\ Empty.convo = <<>> /\ Worker \in Threads /\ Hosts \subseteq Threads
    BY IdleIs DEF Threads
  <1>3. Told' = convo'
    BY <1>1, <1>2 DEF Told, At
  <1>4. Numbered'
    <2>1. disk.queue \in Seq(Arrived(sent)) /\ disk.convo \in Seq(Arrived(sent)) /\ sent \in Nat
      BY DEF MInv, Numbered, Shape
    <2>2. <<>> \in Seq(Arrived(sent))
      BY <2>1, MoreArrived
    <2> QED
      BY <1>1, <1>2, <2>1, <2>2 DEF Numbered, At
  <1>5. Room'
    <2>1. Appending' = {}
      BY <1>1, <1>2 DEF Appending, At
    <2>2. IsFiniteSet(Appending) /\ Cardinality(Appending) \in Nat
      <3>1. IsFiniteSet(Hosts) /\ Appending \subseteq Hosts
        BY ThreadsAssumption DEF Appending
      <3> QED
        BY <3>1, FS_Subset, FS_CardinalityType
    <2>3. sent + Cardinality(Appending) <= MaxMessages /\ sent \in Nat /\ MaxMessages \in Nat
      BY SettingIs DEF MInv, Room, Shape
    <2>4. sent + 0 <= MaxMessages
      BY <2>2, <2>3
    <2>5. Cardinality(Appending') = 0
      BY <2>1, FS_EmptySet
    <2> QED
      BY <1>1, <2>4, <2>5 DEF Room, MaxMessages
  <1>6. ~setting.overlap => Story' /\ Durable'
    <2> SUFFICES ASSUME ~setting.overlap PROVE Story' /\ Durable'
      OBVIOUS
    <2>1. /\ Ordered(disk.queue, disk.convo, sent)
          /\ acked \subseteq Elements(disk.queue) \union Elements(disk.convo)
          /\ disk \in Snapshot
      BY DEF MInv, Durable, Shape
    <2>2. Len(disk.convo) \in Nat
      BY <2>1 DEF Snapshot
    <2>3. Story'
      BY <1>1, <1>2, <1>3, <2>1, <2>2 DEF Story
    <2>4. disk' = Memory'
      BY <1>1, <2>1 DEF Memory, Snapshot
    <2>5. SameMessages'
      BY <1>1, <1>3 DEF SameMessages
    <2> QED
      BY <1>1, <1>2, <1>3, <2>1, <2>3, <2>4, <2>5 DEF Durable, At
  <1>7. Recovers => ~setting.overlap
    BY <1>1, SettingIs DEF Recovers, MaxCrashes
  <1> QED
    BY <1>1, <1>4, <1>5, <1>6, <1>7 DEF MInv, Recovers

\* At the start nothing was sent.
LEMMA MInvInit == Init => MInv
  <1> SUFFICES ASSUME Init PROVE MInv
    OBVIOUS
  <1>1. Shape
    BY ShapeInit
  <1>2. /\ Idle.pc = "idle" /\ Idle.op = "none" /\ Idle.depth = 0 /\ Idle.snap = Empty
        /\ Empty.queue = <<>> /\ Empty.convo = <<>> /\ Worker \in Threads /\ Hosts \subseteq Threads
    BY IdleIs DEF Threads
  <1>3. /\ queue = <<>> /\ convo = <<>> /\ disk = Empty /\ sent = 0 /\ acked = {} /\ pending = 0
        /\ \A t \in Threads : thread[t] = Idle
    BY DEF Init
  <1>4. Told = <<>>
    BY <1>2, <1>3 DEF Told, At
  <1>5. Numbered
    <2>1. <<>> \in Seq(Arrived(0))
      BY MoreArrived
    <2> QED
      BY <1>2, <1>3, <2>1 DEF Numbered, At
  <1>6. Room
    <2>1. Appending = {}
      BY <1>2, <1>3 DEF Appending, At
    <2>2. Cardinality(Appending) = 0 /\ MaxMessages \in Nat
      BY <1>1, <2>1, FS_EmptySet, SettingIs DEF Shape
    <2> QED
      BY <1>3, <2>2 DEF Room
  <1>7. Ordered(<<>>, <<>>, 0)
    BY DEF Ordered
  <1>8. Story
    BY <1>2, <1>3, <1>4, <1>7 DEF Story
  <1>9. Durable
    <2>1. disk = Memory
      BY <1>3 DEF Memory, Empty
    <2>2. SameMessages
      BY <1>2, <1>3, <1>4 DEF SameMessages
    <2> QED
      BY <1>2, <1>3, <1>7, <2>1, <2>2 DEF Durable, At
  <1> QED
    BY <1>1, <1>5, <1>6, <1>8, <1>9 DEF MInv

\* Every step keeps it.
LEMMA MInvStep ==
    ASSUME MInv, [Next]_vars
    PROVE  MInv'
  <1>0. Shape'
    BY ShapeStep DEF MInv
  <1>1. ASSUME NEW t \in Threads, Moving(t)
        PROVE  MInv'
    <2>1. PICK q : Kept /\ Becomes(t, q) /\ Kind(t, q)
      BY <1>1 DEF Moving
    <2>2. setting' = setting
      BY <2>1 DEF Kept
    <2>3. Numbered' /\ Room'
      BY <2>1, NumberedKept, RoomKept DEF MInv
    <2>4. Recovers => Story'
      BY <2>1, StoryKept DEF MInv
    <2>5. ~setting.overlap => Durable'
      BY <2>1, DurableKept DEF MInv, Recovers
    <2> QED
      BY <1>0, <2>2, <2>3, <2>4, <2>5 DEF MInv, Recovers
  <1>2. CASE /\ setting' = setting /\ thread' = thread /\ pending' = pending
             /\ UNCHANGED <<unsaved, queue, convo, sent, disk, acked>>
    <2>1. Appending' = Appending /\ Told' = Told /\ Memory' = Memory /\ MaxMessages' = MaxMessages
      BY <1>2 DEF Appending, At, Told, Memory, MaxMessages
    <2>2. Numbered' /\ Room'
      BY <1>2, <2>1 DEF MInv, Numbered, Room, At
    <2>3. Story => Story'
      BY <1>2, <2>1 DEF Story
    <2>4. Durable => Durable'
      BY <1>2, <2>1 DEF Durable, At, SameMessages
    <2> QED
      BY <1>0, <1>2, <2>2, <2>3, <2>4 DEF MInv, Recovers
  <1>3. CASE Restart /\ setting' = setting
    BY <1>3, RestartKeeps
  <1>4. CASE UNCHANGED vars
    BY <1>2, <1>4 DEF vars, state, counters, history
  <1>5. CASE Next
    BY <1>1, <1>2, <1>3, <1>5, EveryStep DEF MInv, Kept, Quiet
  <1> QED
    BY <1>4, <1>5

\* It says where the acknowledged messages are, ...
LEMMA MInvIsDurable == MInv => AckedIsDurable
  <1> SUFFICES ASSUME MInv, ~setting.overlap PROVE
        /\ acked \subseteq Elements(disk.queue) \union Elements(disk.convo)
        /\ AtRest =>
             /\ Elements(disk.queue) \union Elements(disk.convo) =
                   Elements(queue) \union Elements(convo)
             /\ unsaved \/ disk = Memory
    BY DEF AckedIsDurable, Memory
  <1>1. Durable
    BY DEF MInv
  <1>2. ASSUME AtRest
        PROVE  /\ \A t \in Threads : thread[t].pc \in Entering /\ thread[t].op # "enqueue"
               /\ Told = convo
    BY <1>1, <1>2 DEF AtRest, Entering, Durable, Told, At, Threads
  <1> QED
    BY <1>1, <1>2 DEF Durable, SameMessages

\* ... that no message is in two places, ...
LEMMA OnePlace ==
    ASSUME Shape, Numbered, Story, NEW id
    PROVE  Cardinality(Places(id)) <= 1
  <1>1. /\ sent \in Nat /\ queue \in Seq(Arrived(sent)) /\ convo \in Seq(Arrived(sent))
        /\ Ordered(queue, Told, sent)
    BY DEF Shape, Numbered, Story
  <1>a. /\ \A k \in 1 .. Len(queue) : queue[k].id \in 1 .. sent
        /\ \A k \in 1 .. Len(convo) : convo[k].id \in 1 .. sent
    BY <1>1, NumbersOf
  <1>2. \A t \in Threads : At(t, "inject") => t = Worker
    BY DEF Shape, Roles, At, Threads
  <1>3. /\ Len(convo) \in Nat /\ Len(Told) \in Nat
        /\ \A k \in 1 .. Len(convo) : k \in 1 .. Len(Told) /\ Told[k] = convo[k]
        /\ At(Worker, "inject") => /\ Len(convo) + 1 \in 1 .. Len(Told)
                                   /\ Told[Len(convo) + 1] = thread[Worker].msg
    BY <1>1 DEF Told
  <1>4. \A i, j \in 1 .. Len(queue) : i # j => queue[i].id # queue[j].id
    <2> SUFFICES ASSUME NEW i \in 1 .. Len(queue), NEW j \in 1 .. Len(queue), i # j
                 PROVE  queue[i].id # queue[j].id
      OBVIOUS
    <2>1. i < j \/ j < i
      OBVIOUS
    <2>2. queue[i].id < queue[j].id \/ queue[j].id < queue[i].id
      BY <1>1, <2>1 DEF Ordered
    <2>3. queue[i].id \in Nat /\ queue[j].id \in Nat
      BY <1>a
    <2> QED
      BY <2>2, <2>3
  <1>5. \A i, j \in 1 .. Len(Told) : i # j => Told[i].id # Told[j].id
    <2> SUFFICES ASSUME NEW i \in 1 .. Len(Told), NEW j \in 1 .. Len(Told), i # j
                 PROVE  Told[i].id # Told[j].id
      OBVIOUS
    <2>1. i < j \/ j < i
      BY <1>3
    <2> QED
      BY <1>1, <2>1 DEF Ordered
  <1>6. \A i \in 1 .. Len(queue), j \in 1 .. Len(Told) : queue[i].id # Told[j].id
    BY <1>1 DEF Ordered
  <1>7. ASSUME NEW x \in Places(id), NEW y \in Places(id)
        PROVE  x = y
    <2> DEFINE Queued(z) == \E i \in 1 .. Len(queue) : z = <<"queue", i>> /\ queue[i].id = id
               Heard(z) == \E i \in 1 .. Len(convo) : z = <<"convo", i>> /\ Told[i].id = id
               Under(z) == /\ z = <<"inject", Worker>> /\ At(Worker, "inject")
                           /\ Told[Len(convo) + 1].id = id
    <2>1. \A z \in Places(id) : Queued(z) \/ Heard(z) \/ Under(z)
      BY <1>2, <1>3 DEF Places
    <2>2. CASE Queued(x) /\ Queued(y)
      BY <1>4, <2>2
    <2>3. CASE Heard(x) /\ Heard(y)
      BY <1>3, <1>5, <2>3
    <2>4. CASE Under(x) /\ Under(y)
      BY <2>4
    <2>5. \A z \in Places(id), w \in Places(id) : ~(Queued(z) /\ Heard(w)) /\ ~(Queued(z) /\ Under(w))
      BY <1>3, <1>6
    <2>6. \A z \in Places(id), w \in Places(id) : ~(Heard(z) /\ Under(w))
      <3> SUFFICES ASSUME NEW z, NEW w, Heard(z), Under(w) PROVE FALSE
        OBVIOUS
      <3>1. PICK i \in 1 .. Len(convo) : Told[i].id = id
        OBVIOUS
      <3>2. i # Len(convo) + 1 /\ i \in 1 .. Len(Told) /\ Len(convo) + 1 \in 1 .. Len(Told)
        BY <1>3
      <3> QED
        BY <1>5, <3>1, <3>2
    <2> QED
      BY <2>1, <2>2, <2>3, <2>4, <2>5, <2>6
  <1>8. CASE Places(id) = {}
    BY <1>8, FS_EmptySet
  <1>9. CASE Places(id) # {}
    <2>1. PICK x : Places(id) = {x}
      BY <1>7, <1>9
    <2>2. Cardinality({x}) = 1
      BY FS_Singleton
    <2> QED
      BY <2>1, <2>2
  <1> QED
    BY <1>8, <1>9

\* ... that what a message waits for was heard before it, ...
LEMMA HeardBefore ==
    ASSUME Shape, Numbered, Story, NEW i \in 1 .. Len(convo),
           NEW m \in Elements(convo) \union Elements(queue),
           m.id < convo[i].id, m.delivery \in {"steering", convo[i].delivery}
    PROVE  m \in Elements(SubSeq(convo, 1, i - 1))
  <1>1. /\ sent \in Nat /\ queue \in Seq(Arrived(sent)) /\ convo \in Seq(Arrived(sent))
        /\ Ordered(queue, Told, sent)
    BY DEF Shape, Numbered, Story
  <1>2. /\ Len(convo) \in Nat /\ Len(Told) \in Nat
        /\ \A k \in 1 .. Len(convo) : k \in 1 .. Len(Told) /\ Told[k] = convo[k]
    BY <1>1 DEF Told
  <1>3. convo[i].id \in Nat
    BY <1>1, NumbersOf
  <1>4. ~Yields(m, convo[i])
    BY DEF Yields
  <1>5. m \notin Elements(queue)
    BY <1>1, <1>2, <1>4 DEF Ordered, Elements
  <1>6. PICK k \in 1 .. Len(convo) : m = convo[k]
    BY <1>5 DEF Elements
  <1>7. ~(i < k)
    BY <1>1, <1>2, <1>4, <1>6 DEF Ordered
  <1>8. k # i
    BY <1>3, <1>6
  <1>9. k \in 1 .. i - 1
    BY <1>2, <1>7, <1>8
  <1>10. Len(SubSeq(convo, 1, i - 1)) = i - 1 /\ \A l \in 1 .. i - 1 : SubSeq(convo, 1, i - 1)[l] = convo[l]
    BY <1>1
  <1> QED
    BY <1>6, <1>9, <1>10 DEF Elements

\* ... and that everything keeps its type and its bounds.
LEMMA MInvTypes ==
    ASSUME Shape, Numbered, Room, Story
    PROVE  TypeOK
  <1>1. /\ MaxPlans \in Nat /\ MaxMessages \in Nat /\ MaxCalls \in Nat /\ MaxCrashes \in Nat
        /\ sent \in Nat
    BY SettingIs DEF Shape
  <1>2. sent <= MaxMessages
    <2>1. IsFiniteSet(Hosts) /\ Appending \subseteq Hosts
      BY ThreadsAssumption DEF Appending
    <2>2. Cardinality(Appending) \in Nat
      BY <2>1, FS_Subset, FS_CardinalityType
    <2> QED
      BY <1>1, <2>2 DEF Room
  <1>3. Arrived(sent) \subseteq Messages
    <2>1. 1 .. sent \subseteq 1 .. MaxMessages
      BY <1>1, <1>2
    <2> QED
      BY <2>1 DEF Arrived, Messages
  <1>4. \A s \in Seq(Arrived(sent)) : Elements(s) \subseteq Messages
    BY <1>3 DEF Elements
  <1>5. /\ Elements(queue) \union Elements(convo) \subseteq Messages
        /\ Elements(disk.queue) \union Elements(disk.convo) \subseteq Messages
    BY <1>4 DEF Numbered
  <1>6. disk.pending \in 0 .. MaxPlans
    BY <1>1 DEF Shape, Snapshot
  <1>7. thread[Worker].depth <= MaxMessages
    <2>1. Len(queue) \in Nat /\ Len(convo) \in Nat /\ Len(Told) \in Nat /\ Len(convo) <= Len(Told)
      BY DEF Shape, Told
    <2>2. Len(queue) + Len(Told) <= sent /\ thread[Worker].depth <= Len(convo)
      BY DEF Story, Ordered
    <2>3. thread[Worker].depth \in Nat
      BY DEF Shape, ThreadState, Threads
    <2> QED
      BY <1>1, <1>2, <2>1, <2>2, <2>3
  <1>8. ASSUME NEW t \in Threads
        PROVE  /\ thread[t].pc \in pcs /\ thread[t].plan \in 0 .. MaxPlans
               /\ thread[t].call \in 0 .. MaxCalls /\ thread[t].depth \in 0 .. MaxMessages
    <2>1. /\ thread[t].pc \in pcs /\ thread[t].plan \in Nat /\ thread[t].call \in Nat
          /\ thread[t].depth \in Nat /\ Fits(thread[t], MaxPlans)
      BY DEF Shape, ThreadState
    <2>2. thread[t].plan \in 0 .. MaxPlans /\ thread[t].call \in 0 .. MaxCalls
      BY <1>1, <2>1 DEF Fits
    <2>3. thread[t].depth <= MaxMessages
      BY <1>1, <1>7 DEF Shape, Roles, Threads
    <2> QED
      BY <1>1, <2>1, <2>2, <2>3
  <1>9. sent \in 0 .. MaxMessages
    BY <1>1, <1>2
  <1> QED
    BY <1>5, <1>6, <1>8, <1>9 DEF TypeOK, Shape

\* Where calls come one at a time, a message whose enqueue_message has returned is in the last
\* snapshot, queued or heard, across any crashes, cancels and exceptions; and between calls that
\* snapshot (_persist) holds the messages that memory holds, and is what memory holds unless
\* an exception of the before-tool hook left the last loop.
THEOREM AckedIsSafe == Spec => []AckedIsDurable
  <1>1. Init => MInv
    BY MInvInit
  <1>2. MInv /\ [Next]_vars => MInv'
    BY MInvStep
  <1> QED
    BY <1>1, <1>2, MInvIsDurable, PTL DEF Spec

\* No message is heard twice, and none is overtaken by one that has to wait for it, whatever
\* threads enqueue while the loop drains the queue and whatever is cancelled; a process that
\* crashes is one whose calls came one at a time, since the snapshot a second thread writes
\* between the reads of _persist may hold a message both queued and heard.
THEOREM HeardInOrder == Spec /\ Recovers => []HeardOnceInOrder
  <1>1. Init => MInv
    BY MInvInit
  <1>2. MInv /\ [Next]_vars => MInv'
    BY MInvStep
  <1>3. Recovers /\ [Next]_vars => Recovers'
    BY DEF Recovers, Next, vars
  <1>4. MInv /\ Recovers => HeardOnceInOrder
    <2> SUFFICES ASSUME MInv, Recovers PROVE HeardOnceInOrder
      OBVIOUS
    <2>1. Shape /\ Numbered /\ Room /\ Story
      BY DEF MInv
    <2> QED
      BY <2>1, MInvTypes, OnePlace, HeardBefore DEF HeardOnceInOrder
  <1> QED
    BY <1>1, <1>2, <1>3, <1>4, PTL DEF Spec

=============================================================================
