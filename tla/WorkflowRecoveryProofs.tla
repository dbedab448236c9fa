------------------------ MODULE WorkflowRecoveryProofs ------------------------
(***************************************************************************)
(* For any number of processes and calls: the model is continued at most   *)
(* once, the call that continued it owns the checkpoint until it answers,  *)
(* and the checkpoint only advances.                                       *)
(*                                                                         *)
(* None of these is inductive.  A call decides on a checkpoint it read     *)
(* long ago; what makes the decision still right when it writes is that a  *)
(* revision identifies a content (Sees), that nobody else writes between   *)
(* the comparison and the replacement (Holds, from the lock), and that an  *)
(* intent names the call that wrote it (Wants, Wins).  Counts ties the     *)
(* number of dispatched continuations to the intent in the file.           *)
(***************************************************************************)
EXTENDS WorkflowRecovery, TLAPS

Locals == [expect : Nat, seen : Checkpoints, want : Checkpoints, written : BOOLEAN]

Told == [result : BOOLEAN, proved : SUBSET (Cont \cup {Prior}), dispatched : Nat, rounds : Nat]

Types == /\ checkpoint \in Checkpoints
         /\ pc \in [Proc -> Points]
         /\ call \in [Proc -> Locals]
         /\ calls \in Nat
         /\ told \in Told /\ told.dispatched \in {0, 1}

Locks == /\ LockTypeOK
         /\ LockInvariant
         /\ \A p \in Proc : /\ pc[p] = "replace" => lk[p] = "held"
                            /\ pc[p] = "release" => lk[p] \in {"held", "unlinking"}

\* What was read is what is there, or has been replaced since.
Sees(p) == pc[p] \notin {"idle", "read"} =>
             /\ call[p].seen.rev <= checkpoint.rev
             /\ call[p].seen.rev = checkpoint.rev => call[p].seen = checkpoint

Holds(p) == /\ pc[p] = "replace" => /\ checkpoint = call[p].seen
                                    /\ checkpoint.phase # "completed"
            /\ call[p].written => pc[p] = "release" /\ checkpoint = call[p].want

Mine(p) == {p} \X Nat

IsIntent(p) == /\ call[p].want.intent = "committed"
               /\ call[p].want.rev = call[p].seen.rev + 1
               /\ call[p].want.cont \in Mine(p)

Wants(p) == pc[p] \in {"commit", "replace"} \/ call[p].written =>
              \/ call[p].seen.intent = "none" /\ IsIntent(p)
              \/ call[p].seen.intent # "none" /\ call[p].want = Completed(call[p].seen)

Wins(p) == /\ pc[p] \in Continuing => call[p].seen.intent # "none"
           /\ pc[p] \in {"call", "model", "turn", "persist"} => call[p].seen.intent = "committed"
           /\ Won(p) => checkpoint = call[p].seen /\ call[p].seen.cont \in Mine(p)

Mind(p) == Sees(p) /\ Holds(p) /\ Wants(p) /\ Wins(p)

\* p has written its intent and not yet called the runtime.
AboutToCall(p) == \/ pc[p] = "call"
                  \/ call[p].written /\ call[p].want.intent = "committed"

Counts == /\ told.dispatched = 1 => checkpoint.intent # "none"
          /\ \A p \in Proc : AboutToCall(p) => told.dispatched = 0

Inv == /\ Types /\ Locks /\ Counts
       /\ \A p \in Proc : Mind(p)

-----------------------------------------------------------------------------
(* The lock *)

\* Every step of the lock leaves the other processes' phases alone, and the
\* file names its owner.
LEMMA LockKept ==
    ASSUME LockTypeOK, LockInvariant, NEW p \in Proc,
           \/ StartPolling(p) \/ CreateLock(p) \/ GiveUp(p) \/ WriteToken(p)
           \/ WriteTokenFails(p) \/ ReadToken(p) \/ UnlinkLock(p)
           \/ ReleaseFails(p) \/ LoseHandle(p)
    PROVE  /\ LockTypeOK' /\ LockInvariant'
           /\ \A q \in Proc : q # p => lk'[q] = lk[q]
  <1> USE LockAssumption DEF LockTypeOK, LockInvariant, MoveLock, Owning, LockPhases
  <1>1. CASE StartPolling(p) \/ WriteToken(p) \/ ReadToken(p)
    BY <1>1 DEF StartPolling, WriteToken, ReadToken
  <1>2. CASE CreateLock(p)
    BY <1>2 DEF CreateLock
  <1>3. CASE GiveUp(p)
    BY <1>3 DEF GiveUp
  <1>4. CASE WriteTokenFails(p)
    BY <1>4 DEF WriteTokenFails
  <1>5. CASE UnlinkLock(p)
    BY <1>5 DEF UnlinkLock
  <1>6. CASE ReleaseFails(p)
    BY <1>6 DEF ReleaseFails
  <1>7. CASE LoseHandle(p)
    BY <1>7 DEF LoseHandle
  <1> QED
    BY <1>1, <1>2, <1>3, <1>4, <1>5, <1>6, <1>7

\* Between the comparison and the end of the release p owns the lock file,
\* so at most one process is there.
LEMMA OneCommitter ==
    ASSUME Locks, NEW p \in Proc, NEW q \in Proc,
           pc[p] \in {"replace", "release"}, pc[q] \in {"replace", "release"}
    PROVE  p = q
  <1>1. lk[p] \in Owning /\ lk[q] \in Owning
    BY DEF Locks, Owning
  <1> QED
    BY <1>1 DEF Locks, LockInvariant

-----------------------------------------------------------------------------
(* Steps that leave the checkpoint alone *)

Private(p) == \A q \in Proc : q # p => pc'[q] = pc[q] /\ call'[q] = call[q]

\* A step of one process leaves the others where they are.
LEMMA OthersUnmoved ==
    ASSUME Inv, NEW p \in Proc, Private(p), checkpoint' = checkpoint
    PROVE  \A q \in Proc : q # p => Mind(q)'
  <1> SUFFICES ASSUME NEW q \in Proc, q # p PROVE Mind(q)'
    OBVIOUS
  <1>1. pc'[q] = pc[q] /\ call'[q] = call[q] /\ Mind(q)
    BY DEF Inv, Private
  <1> QED
    BY <1>1 DEF Mind, Sees, Holds, Wants, Wins, Won, IsIntent

\* A step of p that neither writes the checkpoint nor dispatches.
LEMMA QuietStep ==
    ASSUME Inv, NEW p \in Proc, Private(p), checkpoint' = checkpoint,
           told'.dispatched = told.dispatched,
           Types', Locks', Mind(p)', AboutToCall(p)' => AboutToCall(p)
    PROVE  Inv'
  <1>1. \A q \in Proc : Mind(q)'
    BY OthersUnmoved
  <1>2. Counts'
    BY DEF Inv, Counts, AboutToCall, Private
  <1> QED
    BY <1>1, <1>2 DEF Inv

\* An answer forgets everything.
LEMMA Answered ==
    ASSUME Inv, NEW p \in Proc, Answer(p), checkpoint' = checkpoint,
           calls' = calls, told' = told, LockTypeOK', LockInvariant',
           \A q \in Proc : q # p => lk'[q] = lk[q]
    PROVE  Inv'
  <1> USE DEF Answer, Goto
  <1>1. Private(p) /\ pc'[p] = "idle" /\ call'[p] = NoCall
    BY DEF Private, Inv, Types
  <1>2. NoCall \in Locals
    BY DEF NoCall, Blank, Locals, Checkpoints, Valid
  <1>3. Types'
    BY <1>2 DEF Inv, Types, Points
  <1>4. Locks'
    BY <1>1 DEF Inv, Locks, Private
  <1>5. Mind(p)'
    BY <1>1 DEF Mind, Sees, Holds, Wants, Wins, Won, NoCall, Continuing
  <1>6. ~AboutToCall(p)'
    BY <1>1 DEF AboutToCall, NoCall
  <1> QED
    BY <1>1, <1>3, <1>4, <1>5, <1>6, QuietStep

\* A step of p to another point, with the locals c, away from the lock.
LEMMA Moved ==
    ASSUME Inv, NEW p \in Proc, NEW c \in Locals, NEW point \in Points,
           point \notin {"replace", "release", "call"}, c.written = FALSE,
           Goto(p, point), call' = [call EXCEPT ![p] = c],
           UNCHANGED <<lockVars, checkpoint>>, calls' \in Nat, Mind(p)',
           told' \in Told, told'.dispatched = told.dispatched
    PROVE  Inv'
  <1> USE DEF Goto
  <1>1. Private(p) /\ pc'[p] = point /\ call'[p] = c
    BY DEF Private, Inv, Types
  <1>2. Types'
    BY DEF Inv, Types
  <1>3. Locks'
    BY DEF Inv, Locks, Types, lockVars, LockTypeOK, LockInvariant
  <1>4. ~AboutToCall(p)'
    BY <1>1 DEF AboutToCall
  <1> QED
    BY <1>1, <1>2, <1>3, <1>4, QuietStep

\* The same without new locals.
LEMMA MovedOn ==
    ASSUME Inv, NEW p \in Proc, NEW point \in Points,
           point \notin {"replace", "release", "call"}, pc[p] # "release",
           Goto(p, point), UNCHANGED <<call, lockVars, checkpoint, calls>>, Mind(p)',
           told' \in Told, told'.dispatched = told.dispatched
    PROVE  Inv'
  <1>1. call[p] \in Locals /\ call[p].written = FALSE
    BY DEF Inv, Types, Mind, Holds, Locals
  <1>2. call' = [call EXCEPT ![p] = call[p]]
    BY DEF Inv, Types
  <1> QED
    BY <1>1, <1>2, Moved DEF Inv, Types

-----------------------------------------------------------------------------
(* Inspection *)

\* A call begins.
LEMMA BeginStep == ASSUME Inv, NEW p \in Proc, Begin(p) PROVE Inv'
  <1> USE DEF Begin, Goto
  <1>1. PICK e \in 0 .. checkpoint.rev : call' = [call EXCEPT ![p].expect = e]
    OBVIOUS
  <1> DEFINE c == [call[p] EXCEPT !.expect = e]
  <1>2. checkpoint.rev \in Nat /\ call[p] \in Locals /\ pc[p] = "idle" /\ Mind(p)
    BY DEF Inv, Types, Checkpoints
  <1>3. /\ c \in Locals /\ c.written = call[p].written
        /\ c.seen = call[p].seen /\ c.want = call[p].want
    BY <1>1, <1>2 DEF Locals
  <1>4. call' = [call EXCEPT ![p] = c] /\ call'[p] = c /\ pc'[p] = "read"
    BY <1>1 DEF Inv, Types
  <1>5. c.written = FALSE
    BY <1>2, <1>3 DEF Mind, Holds, Locals
  <1>6. Mind(p)'
    BY <1>2, <1>3, <1>4, <1>5 DEF Mind, Sees, Holds, Wants, Wins, Won, Continuing
  <1>7. "read" \in Points /\ calls' \in Nat /\ told' = told /\ told \in Told
    BY DEF Points, Inv, Types
  <1> HIDE DEF c
  <1> QED
    BY <1>3, <1>4, <1>5, <1>6, <1>7, Moved

\* Reading the checkpoint.
LEMMA SeeStep ==
    ASSUME Inv, NEW p \in Proc, NEW point \in {"judge", "rejudge", "confirm"},
           See(p, point), pc[p] # "release",
           point = "confirm" => checkpoint.intent = "session",
           UNCHANGED <<lockVars, checkpoint, calls, told>>
    PROVE  Inv'
  <1> USE DEF See, Goto
  <1> DEFINE c == [call[p] EXCEPT !.seen = checkpoint]
  <1>1. /\ call[p] \in Locals /\ call[p].written = FALSE
        /\ checkpoint \in Checkpoints /\ checkpoint.rev \in Nat
    BY DEF Inv, Types, Mind, Holds, Locals, Checkpoints
  <1>2. /\ c \in Locals /\ c.written = FALSE
        /\ c.seen = checkpoint /\ c.want = call[p].want
    BY <1>1 DEF Locals
  <1>3. call' = [call EXCEPT ![p] = c] /\ call'[p] = c /\ pc'[p] = point
    BY DEF Inv, Types
  <1> HIDE DEF c
  <1>4. Sees(p)' /\ Holds(p)' /\ Wants(p)'
    BY <1>1, <1>2, <1>3 DEF Sees, Holds, Wants
  <1>5. Wins(p)'
    BY <1>2, <1>3 DEF Wins, Won, Continuing
  <1>6. point \in Points /\ calls' \in Nat /\ told \in Told
    BY DEF Points, Continuing, Inv, Types
  <1> QED
    BY <1>2, <1>3, <1>4, <1>5, <1>6, Moved DEF Mind

\* An answer away from the lock.
LEMMA AnsweredAway ==
    ASSUME Inv, NEW p \in Proc, Answer(p), UNCHANGED <<lockVars, checkpoint, calls, told>>
    PROVE  Inv'
  <1>1. LockTypeOK' /\ LockInvariant' /\ lk' = lk
    BY DEF Inv, Locks, lockVars, LockTypeOK, LockInvariant
  <1> QED
    BY <1>1, Answered

\* The replacement is prepared: an intent over a checkpoint without one, or
\* the completion of the checkpoint seen.
LEMMA WantStep ==
    ASSUME Inv, NEW p \in Proc, NEW w \in Checkpoints, Want(p, w),
           pc[p] \in {"rejudge", "clear"},
           UNCHANGED <<lockVars, checkpoint, calls, told>>,
           \/ /\ call[p].seen.intent = "none"
              /\ w.intent = "committed" /\ w.cont \in Mine(p)
              /\ w.rev = call[p].seen.rev + 1
           \/ /\ call[p].seen.intent # "none" /\ pc[p] = "clear"
              /\ w = Completed(call[p].seen)
    PROVE  Inv'
  <1> USE DEF Want, Goto
  <1> DEFINE c == [call[p] EXCEPT !.want = w]
  <1>1. call[p] \in Locals /\ call[p].written = FALSE /\ Mind(p)
    BY DEF Inv, Types, Mind, Holds, Locals
  <1>2. c \in Locals /\ c.written = FALSE /\ c.seen = call[p].seen /\ c.want = w
    BY <1>1 DEF Locals
  <1>3. call' = [call EXCEPT ![p] = c] /\ call'[p] = c /\ pc'[p] = "commit"
    BY DEF Inv, Types
  <1>4. Sees(p)' /\ Holds(p)'
    BY <1>1, <1>2, <1>3 DEF Mind, Sees, Holds
  <1>5. Wants(p)'
    BY <1>1, <1>2, <1>3 DEF Wants, IsIntent
  <1>6. Wins(p)'
    BY <1>1, <1>2, <1>3 DEF Mind, Wins, Won, Continuing
  <1>7. "commit" \in Points /\ calls' \in Nat /\ told \in Told
    BY DEF Points, Committing, Inv, Types
  <1> HIDE DEF c
  <1> QED
    BY <1>2, <1>3, <1>4, <1>5, <1>6, <1>7, Moved DEF Mind

\* The inspection of the checkpoint and the workflow.
LEMMA InspectionStep ==
    ASSUME Inv, NEW p \in Proc,
           Read(p) \/ Judge(p) \/ Reread(p) \/ Rejudge(p) \/ Finalize(p)
    PROVE  Inv'
  <1>0. Mind(p) /\ call[p] \in Locals /\ told \in Told /\ calls \in Nat
    BY DEF Inv, Types
  <1>1. CASE Read(p)
    BY <1>1, SeeStep DEF Read
  <1>2. CASE Judge(p)
    <2>1. ASSUME NEW point \in {"reread", "finalize"}, Goto(p, point), UNCHANGED call PROVE Inv'
      <3>1. pc'[p] = point /\ pc[p] = "judge" /\ UNCHANGED <<lockVars, checkpoint, calls, told>>
        BY <1>2, <2>1 DEF Judge, Goto, Inv, Types
      <3>2. Mind(p)'
        BY <1>0, <2>1, <3>1 DEF Mind, Sees, Holds, Wants, Wins, Won, Continuing, IsIntent
      <3> QED
        BY <1>0, <2>1, <3>1, <3>2, MovedOn DEF Points
    <2>2. ASSUME Answer(p) PROVE Inv'
      BY <1>2, <2>2, AnsweredAway DEF Judge
    <2> QED
      BY <1>2, <2>1, <2>2 DEF Judge
  <1>3. CASE Reread(p)
    BY <1>3, SeeStep, AnsweredAway DEF Reread
  <1>4. CASE Rejudge(p)
    <2>1. CASE Ready(call[p].seen)
      <3> DEFINE w == Intent(p, call[p].seen)
      <3>1. call[p].seen.rev \in Nat /\ <<p, calls>> \in Cont /\ <<p, calls>> \in Mine(p)
        BY <1>0 DEF Locals, Checkpoints, Cont, Mine
      <3>2. w \in Checkpoints
        BY <3>1 DEF Intent, Checkpoints, Valid
      <3>3. /\ w.intent = "committed" /\ w.cont \in Mine(p) /\ w.rev = call[p].seen.rev + 1
            /\ call[p].seen.intent = "none"
        BY <2>1, <3>1 DEF Intent, Ready
      <3>4. Want(p, w)
        BY <1>4, <2>1 DEF Rejudge
      <3> HIDE DEF w
      <3> QED
        BY <1>4, <3>2, <3>3, <3>4, WantStep DEF Rejudge
    <2>2. CASE ~Ready(call[p].seen)
      BY <1>4, <2>2, AnsweredAway DEF Rejudge
    <2> QED
      BY <2>1, <2>2
  <1>5. CASE Finalize(p)
    BY <1>5, SeeStep, AnsweredAway DEF Finalize
  <1> QED
    BY <1>1, <1>2, <1>3, <1>4, <1>5

-----------------------------------------------------------------------------
(* The compare and swap *)

\* A step of p on the lock alone.
LEMMA LockOnlyStep ==
    ASSUME Inv, NEW p \in Proc, Poll(p) \/ Create(p) \/ Locked(p) \/ BeginRelease(p)
    PROVE  Inv'
  <1>1. /\ LockTypeOK' /\ LockInvariant'
        /\ \A q \in Proc : q # p => lk'[q] = lk[q]
    BY LockKept DEF Inv, Locks, Poll, Create, Locked, BeginRelease
  <1>2. UNCHANGED recoveryVars
    BY DEF Poll, Create, Locked, BeginRelease
  <1>3. pc[p] \notin {"replace", "release"} \/ (pc[p] = "release" /\ lk'[p] = "unlinking")
    BY DEF Inv, Locks, LockTypeOK, Poll, Create, Locked, BeginRelease, StartPolling, CreateLock,
           WriteToken, ReadToken, MoveLock
  <1>4. Locks'
    BY <1>1, <1>2, <1>3 DEF Locks, Inv, recoveryVars
  <1>5. Types' /\ Mind(p)' /\ Private(p)
    BY <1>2
    DEF Inv, Types, recoveryVars, Mind, Sees, Holds, Wants, Wins, Won, IsIntent, Private
  <1>6. AboutToCall(p)' => AboutToCall(p)
    BY <1>2 DEF AboutToCall, recoveryVars
  <1> QED
    BY <1>2, <1>4, <1>5, <1>6, QuietStep DEF recoveryVars

\* The lock is held by another.
LEMMA NotLockedStep ==
    ASSUME Inv, NEW p \in Proc, NotLocked(p) PROVE Inv'
  BY LockKept, Answered DEF NotLocked, Inv, Locks

\* The lock is left behind.
LEMMA NotReleasedStep ==
    ASSUME Inv, NEW p \in Proc, NotReleased(p) PROVE Inv'
  BY LockKept, Answered DEF NotReleased, Inv, Locks

\* A process dies.
LEMMA CrashStep ==
    ASSUME Inv, NEW p \in Proc, Crash(p) PROVE Inv'
  BY LockKept, Answered DEF Crash, Inv, Locks

\* The compare half of a swap.
LEMMA CompareStep ==
    ASSUME Inv, NEW p \in Proc, Compare(p) PROVE Inv'
  <1> USE DEF Compare, Goto
  <1>1. /\ Mind(p) /\ pc[p] = "commit" /\ lk[p] = "held"
        /\ pc'[p] \in {"replace", "release"}
        /\ pc'[p] = "replace" => checkpoint.phase # "completed" /\ checkpoint.rev = call[p].seen.rev
        /\ UNCHANGED <<lockVars, checkpoint, call, calls, told>>
        /\ Private(p)
    BY DEF Inv, Types, Private
  <1>2. Types'
    BY <1>1 DEF Inv, Types, Points, Committing
  <1>3. Locks'
    BY <1>1 DEF Inv, Locks, Types, lockVars, LockTypeOK, LockInvariant, Private
  <1>4. Mind(p)'
    BY <1>1 DEF Mind, Sees, Holds, Wants, Wins, Won, IsIntent, Continuing
  <1>5. ~AboutToCall(p)'
    BY <1>1 DEF AboutToCall, Mind, Holds
  <1> QED
    BY <1>1, <1>2, <1>3, <1>4, <1>5, QuietStep

\* The file is replaced: by p alone, from the content p saw.
LEMMA WriteStep ==
    ASSUME Inv, NEW p \in Proc, NEW b \in BOOLEAN, pc[p] = "replace",
           checkpoint' = call[p].want,
           call' = [call EXCEPT ![p].written = b], Goto(p, "release"),
           UNCHANGED <<lockVars, calls, told>>
    PROVE  Inv'
  <1> USE DEF Goto
  <1> DEFINE c == [call[p] EXCEPT !.written = b]
  <1>1. /\ Mind(p) /\ call[p] \in Locals /\ call[p].seen = checkpoint
        /\ checkpoint \in Checkpoints /\ checkpoint.rev \in Nat
        /\ lk[p] = "held"
    BY DEF Inv, Types, Mind, Holds, Locks, Checkpoints
  <1>2. /\ c \in Locals /\ c.written = b /\ c.seen = call[p].seen /\ c.want = call[p].want
        /\ call'[p] = c /\ call' = [call EXCEPT ![p] = c] /\ pc'[p] = "release"
        /\ Private(p)
    BY <1>1 DEF Locals, Inv, Types, Private
  <1> HIDE DEF c
  <1>3. /\ checkpoint' \in Checkpoints
        /\ checkpoint'.rev = checkpoint.rev + 1
        /\ checkpoint'.intent # "none"
    BY <1>1 DEF Mind, Wants, IsIntent, Completed, Locals
  <1>4. Types'
    BY <1>2, <1>3 DEF Inv, Types, Points, Committing
  <1>5. Locks'
    BY <1>1, <1>2 DEF Inv, Locks, lockVars, LockTypeOK, LockInvariant, Private
  <1>6. Mind(p)'
    <2>1. Sees(p)' /\ Holds(p)' /\ Wins(p)'
      BY <1>1, <1>2, <1>3 DEF Sees, Holds, Wins, Won, Continuing
    <2>2. Wants(p)'
      BY <1>1, <1>2 DEF Mind, Wants, IsIntent
    <2> QED
      BY <2>1, <2>2 DEF Mind
  <1>7. ASSUME NEW q \in Proc, q # p PROVE Mind(q)'
    <2>1. /\ Mind(q) /\ pc'[q] = pc[q] /\ call'[q] = call[q] /\ call[q] \in Locals
          /\ pc[q] \notin {"replace", "release"} /\ call[q].written = FALSE
          /\ call[q].seen.rev \in Nat
      <3>1. pc[q] \notin {"replace", "release"}
        BY <1>7, OneCommitter DEF Inv
      <3> QED
        BY <1>2, <1>7, <3>1 DEF Inv, Types, Private, Mind, Holds, Locals, Checkpoints
    <2>2. Sees(q)'
      BY <1>1, <1>3, <2>1 DEF Mind, Sees
    <2>3. Holds(q)' /\ Wants(q)'
      BY <2>1 DEF Mind, Holds, Wants, IsIntent
    <2>4. ~Won(q)
      <3> SUFFICES ASSUME Won(q) PROVE FALSE
        OBVIOUS
      <3>1. call[q].seen = checkpoint /\ checkpoint.cont \in Mine(q) /\ checkpoint.intent = "committed"
        BY <2>1 DEF Mind, Wins, Won
      <3>2. Won(p)
        BY <1>1, <3>1 DEF Won
      <3>3. checkpoint.cont \in Mine(p)
        BY <1>1, <3>2 DEF Mind, Wins
      <3> QED
        BY <1>7, <3>1, <3>3 DEF Mine
    <2>5. Wins(q)'
      BY <2>1, <2>4 DEF Mind, Wins, Won, Continuing
    <2> QED
      BY <2>2, <2>3, <2>5 DEF Mind
  <1>8. Counts'
    <2>1. ASSUME NEW q \in Proc, AboutToCall(q)' PROVE told.dispatched = 0
      <3>1. CASE q = p
        <4>1. call[p].want.intent = "committed"
          BY <1>2, <2>1, <3>1 DEF AboutToCall
        <4>2. checkpoint.intent = "none"
          BY <1>1, <4>1 DEF Mind, Wants, Completed
        <4> QED
          BY <4>2 DEF Inv, Counts, Types
      <3>2. CASE q # p
        BY <1>2, <2>1, <3>2 DEF Inv, Counts, AboutToCall, Private
      <3> QED
        BY <3>1, <3>2
    <2> QED
      BY <1>3, <2>1 DEF Counts
  <1> QED
    BY <1>4, <1>5, <1>6, <1>7, <1>8 DEF Inv

\* The replace half of a swap.
LEMMA ReplaceStep ==
    ASSUME Inv, NEW p \in Proc, Replace(p) \/ ReplaceFails(p) PROVE Inv'
  <1>1. CASE Replace(p)
    BY <1>1, WriteStep DEF Replace
  <1>2. CASE ReplaceFails(p)
    <2>1. call[p].written = FALSE /\ call[p] \in Locals /\ Mind(p) /\ lk[p] = "held"
      BY <1>2 DEF ReplaceFails, Inv, Types, Locks, Mind, Holds, Locals
    <2>2. call' = [call EXCEPT ![p].written = FALSE]
      <3>1. [call[p] EXCEPT !.written = FALSE] = call[p]
        BY <2>1 DEF Locals
      <3>2. call \in [Proc -> Locals] /\ call' = call
        BY <1>2 DEF ReplaceFails, Inv, Types
      <3> QED
        BY <3>1, <3>2
    <2>3. CASE checkpoint' = call[p].want
      BY <1>2, <2>2, <2>3, WriteStep DEF ReplaceFails
    <2>4. CASE checkpoint' = checkpoint
      <3>1. Private(p) /\ pc'[p] = "release" /\ call'[p] = call[p]
        BY <1>2 DEF ReplaceFails, Goto, Private, Inv, Types
      <3>2. Types'
        BY <1>2, <2>4 DEF ReplaceFails, Goto, Inv, Types, Points, Committing
      <3>3. Locks'
        BY <1>2, <2>1, <3>1
        DEF ReplaceFails, Inv, Locks, lockVars, LockTypeOK, LockInvariant, Private
      <3>4. Mind(p)'
        BY <1>2, <2>1, <2>4, <3>1
        DEF ReplaceFails, Mind, Sees, Holds, Wants, Wins, Won, IsIntent, Continuing
      <3>5. ~AboutToCall(p)'
        BY <2>1, <3>1 DEF AboutToCall
      <3> QED
        BY <1>2, <2>4, <3>1, <3>2, <3>3, <3>4, <3>5, QuietStep DEF ReplaceFails
    <2> QED
      BY <1>2, <2>3, <2>4 DEF ReplaceFails
  <1> QED
    BY <1>1, <1>2

\* The winner of the pre-call swap goes on to the runtime.
LEMMA ReleasedStep ==
    ASSUME Inv, NEW p \in Proc, Released(p) PROVE Inv'
  <1> USE DEF Released
  <1>0. /\ LockTypeOK' /\ LockInvariant'
        /\ \A q \in Proc : q # p => lk'[q] = lk[q]
    BY LockKept DEF Inv, Locks
  <1>1. CASE ~(call[p].written /\ call[p].want.intent = "committed")
    BY <1>0, <1>1, Answered
  <1>2. CASE call[p].written /\ call[p].want.intent = "committed"
    <2> DEFINE c == [call[p] EXCEPT !.seen = call[p].want, !.written = FALSE]
    <2>1. Mind(p) /\ call[p] \in Locals
      BY DEF Inv, Types
    <2>2. /\ c \in Locals /\ c.written = FALSE
          /\ c.seen = call[p].want /\ c.want = call[p].want
      BY <2>1 DEF Locals
    <2>3. call' = [call EXCEPT ![p] = c] /\ call'[p] = c /\ pc'[p] = "call" /\ Private(p)
      BY <1>2 DEF Goto, Inv, Types, Private
    <2> HIDE DEF c
    <2>4. /\ checkpoint = call[p].want /\ call[p].want.cont \in Mine(p)
          /\ checkpoint.rev \in Nat
      BY <1>2, <2>1 DEF Mind, Holds, Wants, IsIntent, Completed, Inv, Types, Checkpoints
    <2>5. Sees(p)' /\ Holds(p)' /\ Wants(p)'
      BY <2>2, <2>3, <2>4 DEF Sees, Holds, Wants
    <2>6. Wins(p)'
      BY <1>2, <2>2, <2>3, <2>4 DEF Wins, Won
    <2>7. Types'
      <3>1. "call" \in Points /\ Goto(p, "call") /\ UNCHANGED <<checkpoint, calls, told>>
        BY <1>2 DEF Points, Continuing
      <3>2. pc' \in [Proc -> Points] /\ call' \in [Proc -> Locals]
        BY <2>2, <2>3, <3>1 DEF Inv, Types, Goto
      <3> QED
        BY <3>1, <3>2 DEF Inv, Types
    <2>8. Locks'
      BY <1>0, <2>3 DEF Inv, Locks, Private
    <2>9. AboutToCall(p)
      BY <1>2 DEF AboutToCall
    <2> QED
      BY <2>3, <2>5, <2>6, <2>7, <2>8, <2>9, QuietStep DEF Mind
  <1> QED
    BY <1>1, <1>2

-----------------------------------------------------------------------------
(* The continuation *)

\* A checkpoint names the one call that may be about to continue it.
LEMMA OneCaller ==
    ASSUME Inv, NEW p \in Proc, NEW q \in Proc, AboutToCall(p), AboutToCall(q)
    PROVE  p = q
  <1>1. ASSUME NEW r \in Proc, AboutToCall(r) PROVE checkpoint.cont \in Mine(r)
    <2>1. CASE pc[r] = "call"
      BY <2>1 DEF Inv, Mind, Wins, Won, Continuing
    <2>2. CASE call[r].written /\ call[r].want.intent = "committed"
      <3>1. Holds(r) /\ Wants(r)
        BY DEF Inv, Mind
      <3>2. checkpoint = call[r].want /\ call[r].want # Completed(call[r].seen)
        BY <2>2, <3>1 DEF Holds, Completed
      <3> QED
        BY <2>2, <3>1, <3>2 DEF Wants, IsIntent
    <2> QED
      BY <1>1, <2>1, <2>2 DEF AboutToCall
  <1> QED
    BY <1>1 DEF Mine

\* The operation is dispatched.
LEMMA DispatchStep ==
    ASSUME Inv, NEW p \in Proc, Refuse(p) \/ Request(p) \/ Inject(p) PROVE Inv'
  <1>1. /\ pc[p] = "call" /\ UNCHANGED <<lockVars, checkpoint, call, calls>>
        /\ told' = [told EXCEPT !.dispatched = @ + 1]
        /\ \E point \in {"confirm", "model", "turn"} : Goto(p, point)
    BY DEF Refuse, Request, Inject, Sent
  <1>2. /\ pc'[p] \in {"confirm", "model", "turn"} /\ Private(p) /\ call'[p] = call[p]
        /\ Mind(p) /\ AboutToCall(p)
    BY <1>1 DEF Goto, Private, AboutToCall, Inv, Types
  <1>3. told' \in Told /\ told.dispatched = 0 /\ told'.dispatched = 1
    BY <1>1, <1>2 DEF Inv, Types, Counts, Told
  <1>4. Types'
    BY <1>1, <1>3 DEF Inv, Types, Goto, Points, Continuing
  <1>5. Locks'
    BY <1>1, <1>2 DEF Inv, Locks, lockVars, LockTypeOK, LockInvariant, Private
  <1>6. Mind(p)'
    BY <1>1, <1>2 DEF Mind, Sees, Holds, Wants, Wins, Won, IsIntent, Continuing
  <1>7. \A q \in Proc : Mind(q)'
    BY <1>1, <1>2, <1>6, OthersUnmoved
  <1>8. Counts'
    <2>1. checkpoint'.intent # "none"
      BY <1>1, <1>2 DEF Mind, Wins, Won, Continuing
    <2>2. ASSUME NEW q \in Proc, AboutToCall(q)' PROVE FALSE
      <3>1. CASE q = p
        BY <1>1, <1>2, <2>2, <3>1 DEF AboutToCall, Mind, Holds
      <3>2. CASE q # p
        BY <1>2, <2>2, <3>2, OneCaller DEF AboutToCall, Private
      <3> QED
        BY <3>1, <3>2
    <2> QED
      BY <2>1, <2>2 DEF Counts
  <1> QED
    BY <1>4, <1>5, <1>7, <1>8 DEF Inv

\* The continuation runs.
LEMMA ContinuationStep ==
    ASSUME Inv, NEW p \in Proc,
           Returns(p) \/ Speaks(p) \/ Stages(p) \/ Persist(p) PROVE Inv'
  <1> USE DEF Returns, Speaks, Stages, Persist, Record
  <1>1. /\ pc[p] \in {"model", "turn", "persist"}
        /\ UNCHANGED <<lockVars, checkpoint, call, calls>>
        /\ \E point \in {"confirm", "persist"} : Goto(p, point)
    OBVIOUS
  <1>2. PICK point \in {"confirm", "persist"} : Goto(p, point)
    BY <1>1
  <1>3. pc'[p] = point /\ Mind(p) /\ call[p] \in Locals /\ told \in Told
    BY <1>2 DEF Goto, Inv, Types
  <1>4. call[p].seen.intent = "committed" /\ Won(p)
    BY <1>1, <1>3 DEF Mind, Wins, Won, Continuing
  <1>5. Mind(p)'
    <2>1. Sees(p)' /\ Holds(p)' /\ Wants(p)'
      BY <1>1, <1>3 DEF Mind, Sees, Holds, Wants
    <2>2. Wins(p)'
      BY <1>1, <1>3, <1>4 DEF Mind, Wins, Won
    <2> QED
      BY <2>1, <2>2 DEF Mind
  <1>6. told' \in Told /\ told'.dispatched = told.dispatched
    BY <1>3 DEF Told, Locals, Checkpoints
  <1> QED
    BY <1>1, <1>2, <1>5, <1>6, MovedOn DEF Points, Continuing

\* The continuation's tools run.
LEMMA RunToolsStep ==
    ASSUME Inv, NEW p \in Proc, RunTools(p) PROVE Inv'
  <1> USE DEF RunTools
  <1>1. /\ UNCHANGED <<lockVars, checkpoint, pc, call, calls>>
        /\ told' \in Told /\ told'.dispatched = told.dispatched
    BY DEF Inv, Types, Told
  <1>2. Types' /\ Locks' /\ Counts'
    BY <1>1
    DEF Inv, Types, Locks, lockVars, LockTypeOK, LockInvariant, Counts, AboutToCall
  <1>3. ASSUME NEW q \in Proc PROVE Mind(q)'
    BY <1>1 DEF Inv, Mind, Sees, Holds, Wants, Wins, Won, IsIntent
  <1> QED
    BY <1>2, <1>3 DEF Inv

\* The dispatch is confirmed.
LEMMA ConfirmStep ==
    ASSUME Inv, NEW p \in Proc, Raises(p) \/ Confirm(p) \/ Clear(p) PROVE Inv'
  <1>0. Mind(p) /\ call[p] \in Locals /\ told \in Told /\ calls \in Nat
    BY DEF Inv, Types
  <1>1. CASE Raises(p)
    BY <1>1, AnsweredAway DEF Raises
  <1>2. CASE Confirm(p)
    <2>1. CASE call[p].seen.cont \in done
      <3>1. /\ pc[p] = "confirm" /\ pc'[p] = "clear" /\ Goto(p, "clear")
            /\ UNCHANGED <<lockVars, checkpoint, call, calls, told>>
        BY <1>2, <2>1 DEF Confirm, Goto, Inv, Types
      <3>2. Mind(p)'
        BY <1>0, <3>1 DEF Mind, Sees, Holds, Wants, Wins, Won, Continuing
      <3> QED
        BY <1>0, <3>1, <3>2, MovedOn DEF Points, Continuing
    <2>2. CASE call[p].seen.cont \notin done
      BY <1>2, <2>2, AnsweredAway DEF Confirm
    <2> QED
      BY <2>1, <2>2
  <1>3. CASE Clear(p)
    <2>1. CASE plan
      BY <1>3, <2>1, AnsweredAway DEF Clear
    <2>2. CASE ~plan
      <3>1. Completed(call[p].seen) \in Checkpoints
        BY <1>0 DEF Completed, Locals, Checkpoints, Valid
      <3>2. call[p].seen.intent # "none"
        BY <1>0, <1>3 DEF Clear, Mind, Wins, Continuing
      <3> QED
        BY <1>3, <2>2, <3>1, <3>2, WantStep DEF Clear
    <2> QED
      BY <2>1, <2>2
  <1> QED
    BY <1>1, <1>2, <1>3

\* The world moves: no call, no checkpoint, no lock in use is concerned.
LEMMA WorldStep ==
    ASSUME Inv, ActionMoves \/ RecordResult \/ SessionRewritten \/ HostTurn \/ ManualCleanUp
                \/ UNCHANGED vars
    PROVE  Inv'
  <1>1. /\ UNCHANGED <<checkpoint, pc, call, calls, lk>>
        /\ lockFile' = lockFile \/ (lockFile = Stale /\ lockFile' = Free)
    BY DEF ActionMoves, RecordResult, SessionRewritten, HostTurn, ManualCleanUp, CleanUp,
           vars, recoveryVars, lockVars
  <1>2. told' \in Told /\ told'.dispatched = told.dispatched
    BY DEF ActionMoves, RecordResult, SessionRewritten, HostTurn, ManualCleanUp, vars,
           recoveryVars, Inv, Types, Told
  <1>3. Types' /\ Counts'
    BY <1>1, <1>2 DEF Inv, Types, Counts, AboutToCall
  <1>4. Locks'
    BY <1>1, LockAssumption DEF Inv, Locks, LockTypeOK, LockInvariant
  <1>5. ASSUME NEW q \in Proc PROVE Mind(q)'
    BY <1>1 DEF Inv, Mind, Sees, Holds, Wants, Wins, Won, IsIntent
  <1> QED
    BY <1>3, <1>4, <1>5 DEF Inv

-----------------------------------------------------------------------------
(* The theorems *)

\* The invariant holds at the start.
LEMMA InvInit == Init => Inv
  <1> SUFFICES ASSUME Init PROVE Inv
    OBVIOUS
  <1> USE DEF Init
  <1>1. checkpoint \in Checkpoints /\ checkpoint.intent \in {"none", "session"}
    <2>1. ASSUME NEW ph \in {"awaiting", "tool_completed"}, checkpoint = [Blank EXCEPT !.phase = ph]
          PROVE  checkpoint = [rev |-> 0, phase |-> ph, intent |-> "none", cont |-> Prior]
      BY <2>1 DEF Blank
    <2>2. CASE checkpoint = [Blank EXCEPT !.phase = "tool_completed", !.intent = "session"]
      <3>1. checkpoint = [rev |-> 0, phase |-> "tool_completed", intent |-> "session", cont |-> Prior]
        BY <2>2, Zenon DEF Blank
      <3> QED
        BY <3>1 DEF Checkpoints, Valid
    <2>3. CASE \E ph \in {"awaiting", "tool_completed"} : checkpoint = [Blank EXCEPT !.phase = ph]
      BY <2>1, <2>3 DEF Checkpoints, Valid
    <2> QED
      BY <2>2, <2>3
  <1>2. NoCall \in Locals /\ NoCall.written = FALSE
    BY DEF NoCall, Blank, Locals, Checkpoints, Valid
  <1>3. told \in Told /\ told.dispatched = 0
    BY DEF Told
  <1>4. Types
    BY <1>1, <1>2, <1>3 DEF Types, Points
  <1>5. Locks
    BY LockAssumption DEF Locks, LockInit, LockTypeOK, LockInvariant, Owning, LockPhases
  <1>6. ASSUME NEW p \in Proc PROVE Mind(p)
    BY <1>2 DEF Mind, Sees, Holds, Wants, Wins, Won, Continuing
  <1>7. Counts
    BY <1>2, <1>3 DEF Counts, AboutToCall
  <1> QED
    BY <1>4, <1>5, <1>6, <1>7 DEF Inv

\* Every step keeps the invariant.
LEMMA InvNext == Inv /\ [Next]_vars => Inv'
  <1> SUFFICES ASSUME Inv, [Next]_vars PROVE Inv'
    OBVIOUS
  <1>1. ASSUME NEW p \in Proc, Begin(p) \/ Crash(p) PROVE Inv'
    BY <1>1, BeginStep, CrashStep
  <1>2. ASSUME NEW p \in Proc, Step(p) PROVE Inv'
    BY <1>2, InspectionStep, LockOnlyStep, NotLockedStep, CompareStep, ReplaceStep, ReleasedStep,
       NotReleasedStep, DispatchStep, RunToolsStep, ContinuationStep, ConfirmStep DEF Step
  <1> QED
    BY <1>1, <1>2, WorldStep DEF Next

\* So it holds throughout.
LEMMA Invariance == Spec => []Inv
  BY InvInit, InvNext, PTL DEF Spec

\* Any number of resume calls, with any revisions, overlapping, crashing and
\* repeated, make the runtime continue the workflow at most once.
THEOREM AtMostOnce == Spec => []AtMostOneContinuation
  <1>1. Inv => AtMostOneContinuation
    BY DEF Inv, Types, AtMostOneContinuation
  <1> QED
    BY <1>1, Invariance, PTL

\* The call that wrote the intent finds the file as it left it until it
\* answers: its completing swap can be refused by nothing but the lock.
THEOREM WinnerOwns == Spec => []WinnerKeepsCheckpoint
  <1>1. Inv => WinnerKeepsCheckpoint
    BY DEF Inv, Mind, Wins, WinnerKeepsCheckpoint
  <1> QED
    BY <1>1, Invariance, PTL

\* One call wins the workflow, and keeps it to its end (OneWinner of run
\* workflow_recovery).
THEOREM OneWins == Spec => []OneWinner
  <1>1. AtMostOneContinuation /\ WinnerKeepsCheckpoint => OneWinner
    BY DEF OneWinner
  <1> QED
    BY <1>1, AtMostOnce, WinnerOwns, PTL

\* Only the replacement of the file changes it.
LEMMA OnlyReplaceWrites ==
    ASSUME [Next]_vars, checkpoint' # checkpoint
    PROVE  \E p \in Proc : pc[p] = "replace" /\ checkpoint' = call[p].want
  <1>1. CASE \E p \in Proc : Replace(p) \/ ReplaceFails(p)
    BY <1>1 DEF Replace, ReplaceFails
  <1>2. CASE ~ \E p \in Proc : Replace(p) \/ ReplaceFails(p)
    BY <1>2 DEF Next, Step, vars, recoveryVars, Begin, Crash, Read, Judge, Reread, Rejudge, Finalize,
                Poll, Create, NotLocked, Locked, Compare, BeginRelease, Released, NotReleased,
                Refuse, Request, Inject, RunTools, Raises, Returns, Speaks, Stages, Persist,
                Confirm, Clear, ActionMoves, RecordResult, SessionRewritten, HostTurn, ManualCleanUp
  <1> QED
    BY <1>1, <1>2

\* The checkpoint file moves to the next revision with every write, is never
\* written after completion and never exchanges a committed continuation.
THEOREM OnlyAdvances == Spec => CheckpointOnlyAdvances
  <1>1. Inv /\ [Next]_vars => [checkpoint' # checkpoint =>
          /\ checkpoint.phase # "completed"
          /\ checkpoint'.rev = checkpoint.rev + 1
          /\ checkpoint.intent # "none" => checkpoint'.cont = checkpoint.cont]_checkpoint
    <2> SUFFICES ASSUME Inv, [Next]_vars, checkpoint' # checkpoint
                 PROVE  /\ checkpoint.phase # "completed"
                        /\ checkpoint'.rev = checkpoint.rev + 1
                        /\ checkpoint.intent # "none" => checkpoint'.cont = checkpoint.cont
      OBVIOUS
    <2>1. PICK p \in Proc : pc[p] = "replace" /\ checkpoint' = call[p].want
      BY OnlyReplaceWrites
    <2>2. Holds(p) /\ Wants(p)
      BY DEF Inv, Mind
    <2> QED
      BY <2>1, <2>2 DEF Holds, Wants, IsIntent, Completed
  <1> QED
    BY <1>1, Invariance, PTL DEF Spec, CheckpointOnlyAdvances

-----------------------------------------------------------------------------
(* Evidence: what a call acts upon was recorded in the transcript, though   *)
(* it may be gone from there by now.                                        *)

Shown(p) == /\ pc[p] \in Continuing \cup {"commit", "replace"} \/ call[p].written => told.result
            /\ pc[p] = "clear" => call[p].seen.cont \in told.proved
            /\ pc[p] \in {"commit", "replace"} => (call[p].want.phase = "completed" =>
                                                     call[p].want.cont \in told.proved)

Evidence == /\ results # 0 => told.result
            /\ done \subseteq told.proved
            /\ IntentFollowsResult
            /\ CompletedHasEvidence
            /\ \A p \in Proc : Shown(p)

\* Without checkpoints there is nothing to show evidence for.
LEMMA EvidenceInit == Init => Evidence
  <1> SUFFICES ASSUME Init PROVE Evidence
    OBVIOUS
  <1>1. checkpoint.phase # "completed" /\ (checkpoint.intent # "none" => results = 1)
    BY DEF Init, Blank
  <1>2. ASSUME NEW p \in Proc PROVE Shown(p)
    BY DEF Init, Shown, NoCall, Continuing
  <1> QED
    BY <1>1, <1>2 DEF Init, Evidence, IntentFollowsResult, CompletedHasEvidence

\* The history only grows.
Grows == /\ told.result => told'.result
         /\ told.proved \subseteq told'.proved

\* A step of p that writes no checkpoint owes its own part only.
LEMMA EvidenceQuiet ==
    ASSUME Inv, Evidence, NEW p \in Proc, Private(p), checkpoint' = checkpoint, Grows,
           Shown(p)', results' = results, done' \subseteq told'.proved
    PROVE  Evidence'
  <1>1. ASSUME NEW q \in Proc PROVE Shown(q)'
    BY DEF Evidence, Shown, Private, Grows
  <1> QED
    BY <1>1 DEF Evidence, IntentFollowsResult, CompletedHasEvidence, Grows

\* An answer or a step to another point, the history as it was.
LEMMA EvidenceMoved ==
    ASSUME Inv, Evidence, NEW p \in Proc, Private(p), UNCHANGED <<checkpoint, results, done, told>>,
           \/ call'[p].written = FALSE /\ pc'[p] \notin Continuing \cup {"commit", "replace"}
           \/ /\ pc'[p] \in Continuing \ {"clear"} /\ call'[p].written = FALSE
              /\ \/ pc[p] \in Continuing \/ call[p].written
                 \/ checkpoint.intent # "none"
           \/ pc'[p] = pc[p] /\ call'[p] = call[p]
    PROVE  Evidence'
  <1>1. Grows
    BY DEF Grows
  <1>2. Shown(p)'
    BY DEF Evidence, Shown, IntentFollowsResult, Continuing
  <1> QED
    BY <1>1, <1>2, EvidenceQuiet DEF Evidence

\* Steps to the inspection, to an answer, or within the lock.
LEMMA EvidenceInspect ==
    ASSUME Inv, Evidence, NEW p \in Proc,
           \/ Begin(p) \/ Crash(p) \/ Read(p) \/ Judge(p) \/ Reread(p) \/ Finalize(p)
           \/ Poll(p) \/ Create(p) \/ Locked(p) \/ BeginRelease(p)
           \/ NotLocked(p) \/ NotReleased(p) \/ Raises(p)
    PROVE  Evidence'
  <1>1. call \in [Proc -> Locals] /\ pc \in [Proc -> Points] /\ call[p] \in Locals /\ NoCall.written = FALSE
    BY DEF Inv, Types, NoCall
  <1>2. pc[p] # "release" => call[p].written = FALSE
    BY <1>1 DEF Inv, Mind, Holds, Locals
  <1>3. ASSUME Answer(p) PROVE Private(p) /\ pc'[p] = "idle" /\ call'[p].written = FALSE
    BY <1>1, <1>3 DEF Answer, Goto, Private
  <1>4. CASE Crash(p) \/ NotLocked(p) \/ NotReleased(p) \/ Raises(p)
    <2>1. Answer(p) /\ UNCHANGED <<checkpoint, results, done, told>>
      BY <1>4 DEF Crash, NotLocked, NotReleased, Raises, world
    <2> QED
      BY <1>3, <2>1, EvidenceMoved DEF Continuing
  <1>5. CASE Poll(p) \/ Create(p) \/ Locked(p) \/ BeginRelease(p)
    BY <1>5, EvidenceMoved DEF Poll, Create, Locked, BeginRelease, recoveryVars, world, Private
  <1>6. CASE Begin(p)
    <2>1. Private(p) /\ pc'[p] = "read" /\ call'[p].written = call[p].written
      BY <1>1, <1>6 DEF Begin, Goto, Private, Locals
    <2> QED
      BY <1>2, <1>6, <2>1, EvidenceMoved DEF Begin, world, Continuing
  <1>7. ASSUME NEW point \in {"judge", "rejudge", "confirm"}, See(p, point)
        PROVE  Private(p) /\ pc'[p] = point /\ call'[p].written = call[p].written
    BY <1>1, <1>7 DEF See, Goto, Private, Locals
  <1>8. CASE Read(p)
    BY <1>2, <1>7, <1>8, EvidenceMoved DEF Read, world, Continuing
  <1>9. CASE Judge(p)
    <2>1. UNCHANGED <<checkpoint, results, done, told>> /\ call[p].written = FALSE
      BY <1>2, <1>9 DEF Judge, world
    <2>2. Private(p) /\ pc'[p] \in {"reread", "finalize", "idle"} /\ call'[p].written = FALSE
      BY <1>1, <1>3, <1>9, <2>1 DEF Judge, Goto, Private
    <2> QED
      BY <2>1, <2>2, EvidenceMoved DEF Continuing
  <1>10. CASE Reread(p)
    <2>1. Private(p) /\ pc'[p] \in {"rejudge", "idle"} /\ call'[p].written = FALSE
      BY <1>2, <1>3, <1>7, <1>10 DEF Reread
    <2> QED
      BY <1>10, <2>1, EvidenceMoved DEF Reread, world, Continuing
  <1>11. CASE Finalize(p)
    <2>0. pc[p] = "finalize" /\ call[p].written = FALSE
      BY <1>2, <1>11 DEF Finalize
    <2>1. /\ Private(p) /\ call'[p].written = FALSE
          /\ pc'[p] = "idle" \/ (pc'[p] = "confirm" /\ checkpoint.intent # "none")
      <3>1. CASE See(p, "confirm") /\ checkpoint.intent = "session"
        BY <1>7, <2>0, <3>1
      <3>2. CASE Answer(p)
        BY <1>3, <3>2
      <3> QED
        BY <1>11, <3>1, <3>2 DEF Finalize
    <2> QED
      BY <1>11, <2>1, EvidenceMoved DEF Finalize, world, Continuing
  <1> QED
    BY <1>4, <1>5, <1>6, <1>8, <1>9, <1>10, <1>11

\* The intent is prepared over a recorded result, the completion over a
\* recorded continuation.
LEMMA EvidenceWant ==
    ASSUME Inv, Evidence, NEW p \in Proc, NEW w \in Checkpoints, Want(p, w),
           UNCHANGED <<checkpoint, results, done, told>>, told.result,
           w.phase = "completed" => w.cont \in told.proved
    PROVE  Evidence'
  <1>1. Private(p) /\ pc'[p] = "commit" /\ call'[p].want = w
    BY DEF Want, Goto, Private, Inv, Types, Locals
  <1>2. Shown(p)' /\ Grows
    BY <1>1 DEF Shown, Grows
  <1> QED
    BY <1>1, <1>2, EvidenceQuiet DEF Evidence

\* A swap keeps the evidence in front.
LEMMA EvidenceSwap ==
    ASSUME Inv, Evidence, NEW p \in Proc,
           Rejudge(p) \/ Compare(p) \/ Replace(p) \/ ReplaceFails(p) \/ Released(p)
    PROVE  Evidence'
  <1>1. /\ call \in [Proc -> Locals] /\ pc \in [Proc -> Points] /\ call[p] \in Locals
        /\ NoCall.written = FALSE /\ Shown(p) /\ Mind(p) /\ calls \in Nat
    BY DEF Inv, Types, NoCall, Evidence
  <1>2. UNCHANGED <<results, done, told>>
    BY DEF Rejudge, Compare, Replace, ReplaceFails, Released, world
  <1>3. pc[p] # "release" => call[p].written = FALSE
    BY <1>1 DEF Mind, Holds, Locals
  <1>4. CASE Rejudge(p)
    <2>1. CASE Ready(call[p].seen)
      <3>1. <<p, calls>> \in Cont /\ call[p].seen.rev \in Nat
        BY <1>1 DEF Cont, Locals, Checkpoints
      <3>2. Intent(p, call[p].seen) \in Checkpoints /\ Intent(p, call[p].seen).phase # "completed"
        BY <3>1 DEF Intent, Checkpoints, Valid
      <3>3. told.result
        BY <2>1 DEF Ready, Evidence
      <3> QED
        BY <1>2, <1>4, <2>1, <3>2, <3>3, EvidenceWant DEF Rejudge
    <2>2. CASE ~Ready(call[p].seen)
      <3>1. Private(p) /\ pc'[p] = "idle" /\ call'[p].written = FALSE
        BY <1>1, <1>4, <2>2 DEF Rejudge, Answer, Goto, Private
      <3> QED
        BY <1>2, <1>4, <3>1, EvidenceMoved DEF Rejudge, Continuing
    <2> QED
      BY <2>1, <2>2
  <1>5. CASE Compare(p)
    <2>1. Private(p) /\ pc[p] = "commit" /\ pc'[p] \in {"replace", "release"} /\ call' = call
      BY <1>1, <1>5 DEF Compare, Goto, Private
    <2>2. Shown(p)' /\ Grows
      BY <1>1, <1>2, <2>1 DEF Shown, Grows, Continuing
    <2> QED
      BY <1>2, <1>5, <2>1, <2>2, EvidenceQuiet DEF Compare, Evidence
  <1>6. CASE Replace(p) \/ ReplaceFails(p)
    <2>1. /\ pc[p] = "replace" /\ pc'[p] = "release" /\ Private(p)
          /\ checkpoint' \in {checkpoint, call[p].want}
      BY <1>1, <1>6 DEF Replace, ReplaceFails, Goto, Private
    <2>2. told.result /\ (call[p].want.phase = "completed" => call[p].want.cont \in told.proved)
      BY <1>1, <2>1 DEF Shown
    <2>3. Shown(p)'
      BY <1>2, <2>1, <2>2 DEF Shown, Continuing
    <2>4. ASSUME NEW q \in Proc PROVE Shown(q)'
      BY <1>2, <2>1, <2>3 DEF Evidence, Shown, Private
    <2> QED
      BY <1>2, <2>1, <2>2, <2>4 DEF Evidence, IntentFollowsResult, CompletedHasEvidence
  <1>7. CASE Released(p)
    <2>1. CASE call[p].written /\ call[p].want.intent = "committed"
      <3> DEFINE c == [call[p] EXCEPT !.seen = call[p].want, !.written = FALSE]
      <3>1. c.written = FALSE /\ call' = [call EXCEPT ![p] = c]
        BY <1>1, <1>7, <2>1 DEF Released, Locals
      <3> HIDE DEF c
      <3>2. Private(p) /\ pc'[p] = "call" /\ call'[p].written = FALSE
        BY <1>1, <1>7, <2>1, <3>1 DEF Released, Goto, Private
      <3> QED
        BY <1>2, <1>7, <2>1, <3>2, EvidenceMoved DEF Released, Continuing
    <2>2. CASE ~(call[p].written /\ call[p].want.intent = "committed")
      <3>1. Private(p) /\ pc'[p] = "idle" /\ call'[p].written = FALSE
        BY <1>1, <1>7, <2>2 DEF Released, Answer, Goto, Private
      <3> QED
        BY <1>2, <1>7, <3>1, EvidenceMoved DEF Released, Continuing
    <2> QED
      BY <2>1, <2>2
  <1> QED
    BY <1>4, <1>5, <1>6, <1>7

\* Only the two steps that write the session record a continuation.
LEMMA EvidenceContinue ==
    ASSUME Inv, Evidence, NEW p \in Proc,
           \/ Refuse(p) \/ Request(p) \/ Inject(p) \/ RunTools(p) \/ Returns(p)
           \/ Stages(p) \/ Speaks(p) \/ Persist(p)
    PROVE  Evidence'
  <1> USE DEF Refuse, Request, Inject, RunTools, Returns, Stages, Speaks, Persist
  <1>1. /\ pc \in [Proc -> Points] /\ Shown(p) /\ Mind(p) /\ told \in Told /\ call[p] \in Locals
        /\ done \subseteq told.proved
    BY DEF Inv, Types, Evidence
  <1>2. /\ pc[p] \in Continuing \ {"confirm", "clear"} /\ call[p].written = FALSE
        /\ UNCHANGED <<checkpoint, call, results>>
    BY <1>1 DEF Continuing, Mind, Holds, Locals, world
  <1>3. Private(p) /\ pc'[p] \in Continuing \ {"clear"}
    BY <1>1, <1>2 DEF Goto, Private, Continuing
  <1>4. Grows /\ done' \subseteq told'.proved
    <2>1. CASE Speaks(p) \/ Persist(p)
      <3>1. /\ done' = done \cup {call[p].seen.cont}
            /\ told' = [told EXCEPT !.proved = told.proved \cup {call[p].seen.cont}]
        BY <2>1 DEF Record
      <3>2. told'.proved = told.proved \cup {call[p].seen.cont} /\ told'.result = told.result
        BY <1>1, <3>1 DEF Told
      <3> QED
        BY <1>1, <3>1, <3>2 DEF Grows
    <2>2. CASE ~(Speaks(p) \/ Persist(p))
      <3>1. done' = done /\ told'.proved = told.proved /\ told'.result = told.result
        BY <1>1, <2>2 DEF Sent, Told, world
      <3> QED
        BY <1>1, <3>1 DEF Grows
    <2> QED
      BY <2>1, <2>2
  <1>5. Shown(p)'
    BY <1>1, <1>2, <1>3, <1>4 DEF Shown, Grows, Continuing
  <1> QED
    BY <1>2, <1>3, <1>4, <1>5, EvidenceQuiet

\* So does the confirmation.
LEMMA EvidenceConfirm ==
    ASSUME Inv, Evidence, NEW p \in Proc, Confirm(p) \/ Clear(p)
    PROVE  Evidence'
  <1>1. /\ call \in [Proc -> Locals] /\ pc \in [Proc -> Points] /\ call[p] \in Locals
        /\ NoCall.written = FALSE /\ Shown(p) /\ Mind(p) /\ done \subseteq told.proved
    BY DEF Inv, Types, NoCall, Evidence
  <1>2. UNCHANGED <<checkpoint, results, done, told>> /\ told.result /\ call[p].written = FALSE
    BY <1>1 DEF Confirm, Clear, world, Shown, Continuing, Mind, Holds, Locals
  <1>3. CASE Answer(p)
    <2>1. Private(p) /\ pc'[p] = "idle" /\ call'[p].written = FALSE
      BY <1>1, <1>3 DEF Answer, Goto, Private
    <2> QED
      BY <1>2, <2>1, EvidenceMoved DEF Continuing
  <1>4. CASE Confirm(p) /\ ~Answer(p)
    <2>1. Private(p) /\ pc'[p] = "clear" /\ call' = call /\ call[p].seen.cont \in told.proved
      BY <1>1, <1>4 DEF Confirm, Goto, Private
    <2>2. Shown(p)' /\ Grows
      BY <1>1, <1>2, <2>1 DEF Shown, Grows
    <2> QED
      BY <1>1, <1>2, <2>1, <2>2, EvidenceQuiet
  <1>5. CASE Clear(p) /\ ~Answer(p)
    <2>1. Want(p, Completed(call[p].seen)) /\ call[p].seen.cont \in told.proved
      BY <1>1, <1>5 DEF Clear, Shown
    <2>2. Completed(call[p].seen) \in Checkpoints /\ Completed(call[p].seen).cont = call[p].seen.cont
      BY <1>1 DEF Completed, Locals, Checkpoints, Valid
    <2> QED
      BY <1>2, <2>1, <2>2, EvidenceWant
  <1> QED
    BY <1>3, <1>4, <1>5

\* So do the steps of the world around.
LEMMA EvidenceWorld ==
    ASSUME Inv, Evidence, ActionMoves \/ RecordResult \/ SessionRewritten \/ HostTurn
                          \/ ManualCleanUp \/ UNCHANGED vars
    PROVE  Evidence'
  <1>1. UNCHANGED <<checkpoint, pc, call>> /\ done' \subseteq done
    BY DEF ActionMoves, RecordResult, SessionRewritten, HostTurn, ManualCleanUp,
           vars, recoveryVars, world
  <1>2. told'.proved = told.proved /\ (told.result => told'.result) /\ (results' # 0 => told'.result)
    BY DEF ActionMoves, RecordResult, SessionRewritten, HostTurn, ManualCleanUp,
           vars, recoveryVars, world, Evidence, Inv, Types, Told
  <1>3. ASSUME NEW q \in Proc PROVE Shown(q)'
    BY <1>1, <1>2 DEF Evidence, Shown
  <1> QED
    BY <1>1, <1>2, <1>3 DEF Evidence, IntentFollowsResult, CompletedHasEvidence

\* Every step keeps it.
LEMMA EvidenceNext == Inv /\ Evidence /\ [Next]_vars => Evidence'
  <1> SUFFICES ASSUME Inv, Evidence, [Next]_vars PROVE Evidence'
    OBVIOUS
  <1>1. ASSUME NEW p \in Proc, Begin(p) \/ Crash(p) PROVE Evidence'
    BY <1>1, EvidenceInspect
  <1>2. ASSUME NEW p \in Proc, Step(p) PROVE Evidence'
    BY <1>2, EvidenceInspect, EvidenceSwap, EvidenceContinue, EvidenceConfirm DEF Step
  <1> QED
    BY <1>1, <1>2, EvidenceWorld DEF Next

\* A workflow is committed to a continuation only after the transcript had
\* recorded the result of its approved action.
THEOREM IntentFollows == Spec => []IntentFollowsResult
  <1>1. Evidence => IntentFollowsResult
    BY DEF Evidence
  <1> QED
    BY <1>1, EvidenceInit, EvidenceNext, Invariance, PTL DEF Spec

\* A workflow is completed only by a continuation the transcript had recorded.
THEOREM CompletedFollows == Spec => []CompletedHasEvidence
  <1>1. Evidence => CompletedHasEvidence
    BY DEF Evidence
  <1> QED
    BY <1>1, EvidenceInit, EvidenceNext, Invariance, PTL DEF Spec

\* The checkpoint never runs ahead of the transcript (EvidenceFirst of run
\* workflow_recovery).
THEOREM EvidenceComesFirst == Spec => []EvidenceFirst
  <1>1. IntentFollowsResult /\ CompletedHasEvidence => EvidenceFirst
    BY DEF EvidenceFirst
  <1> QED
    BY <1>1, IntentFollows, CompletedFollows, PTL

-----------------------------------------------------------------------------
(* Types *)

WorldTypes == /\ action \in {"active", "executing", "consumed", "dead"}
              /\ results \in 0 .. 2
              /\ plan \in BOOLEAN /\ queue \in BOOLEAN
              /\ done \subseteq Cont \cup {Prior}

\* The world's variables stay well typed.
LEMMA WorldTypesNext == Inv /\ WorldTypes /\ [Next]_vars => WorldTypes'
  <1> SUFFICES ASSUME Inv, WorldTypes, [Next]_vars PROVE WorldTypes'
    OBVIOUS
  <1> USE DEF WorldTypes, world
  <1>1. ASSUME NEW p \in Proc, Inject(p) \/ Stages(p) \/ Speaks(p) \/ Persist(p) PROVE WorldTypes'
    <2>1. call[p].seen.cont \in Cont \cup {Prior}
      BY DEF Inv, Types, Locals, Checkpoints
    <2> QED
      BY <1>1, <2>1 DEF Inject, Stages, Speaks, Persist, Record
  <1>2. CASE ActionMoves \/ RecordResult \/ SessionRewritten
    BY <1>2 DEF ActionMoves, RecordResult, SessionRewritten
  <1>3. CASE HostTurn
    BY <1>3, Zenon DEF HostTurn
  <1>4. CASE UNCHANGED world
    BY <1>4
  <1>5. ASSUME NEW p \in Proc,
               Begin(p) \/ Crash(p) \/ (Step(p) /\ ~(Inject(p) \/ Stages(p) \/ Speaks(p) \/ Persist(p)))
        PROVE  UNCHANGED world
    BY <1>5 DEF Step, recoveryVars, Begin, Crash, Read, Judge, Reread, Rejudge, Finalize,
                Poll, Create, NotLocked, Locked, Compare, Replace, ReplaceFails, BeginRelease,
                Released, NotReleased, Refuse, Request, RunTools, Raises, Returns, Confirm, Clear
  <1> QED
    BY <1>1, <1>2, <1>3, <1>4, <1>5 DEF Next, vars, recoveryVars, ManualCleanUp

\* Every variable keeps its type.
THEOREM TypeCorrect == Spec => []TypeOK
  <1>1. Init => WorldTypes
    BY DEF Init, WorldTypes
  <1>2. Inv /\ WorldTypes => TypeOK
    BY DEF Inv, Types, Locks, WorldTypes, TypeOK, Locals, Told
  <1> QED
    BY <1>1, <1>2, WorldTypesNext, Invariance, PTL DEF Spec
=============================================================================
