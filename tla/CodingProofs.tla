----------------------------- MODULE CodingProofs -----------------------------
(***************************************************************************)
(* How code changes come about: the agents of a run prepare a patch, an    *)
(* apply brings a patch into the workspace, and a coding task and its      *)
(* validation cycle account for what was approved and tested.  One part    *)
(* for each of the three components.                                       *)
(***************************************************************************)
EXTENDS PatchApply, CodingTasks, Subagents, FiniteSetTheorems, TLAPS

-----------------------------------------------------------------------------
(***************************************************************************)
(* For any number of processes, files, versions and candidates: applies    *)
(* exclude each other, a lock left behind is respected and was announced.  *)
(*                                                                         *)
(* OneWriter is not inductive: that two processes are inside is excluded   *)
(* only because being inside goes with owning the lock file, which names   *)
(* one process.  LockInv adds that (PhaseMatches, LockInvariant).          *)
(* AppliedIsWhole and RefusedLeavesNothing speak of the last moment of an  *)
(* apply; WorkInv says what holds at each point on the way there           *)
(* (Progress), and mutual exclusion is what keeps it true while the other  *)
(* processes move.                                                         *)
(***************************************************************************)

\* Where the apply stands and where its lock stands go together.
PhaseMatches ==
    \A p \in Proc : /\ pc[p] = "acquire" <=> lk[p] \in {"polling", "created"}
                    /\ pc[p] \in Inside <=> lk[p] \in {"held", "unlinking"}
                    /\ lk[p] = "unlinking" => pc[p] = "release"

LockInv == /\ LockTypeOK
           /\ pc \in [Proc -> Points]
           /\ LockInvariant
           /\ PhaseMatches

\* What one step of p does to the lock: everybody else's phase stays.
LEMMA LockStep ==
    ASSUME LockInv, NEW p \in Proc, NEW point \in Points, NEW stage \in LockPhases,
           Goto(p, point), MoveLock(p, stage),
           lockFile' \in Proc \cup {Free, Stale},
           stage \in Owning <=> lockFile' = p,
           lk[p] \notin Owning => lockFile' \in {lockFile, p},
           lockFile' = p => lockFile \in {p, Free},
           lk[p] \in Owning => lockFile' \in {p, Free, Stale},
           point = "acquire" <=> stage \in {"polling", "created"},
           point \in Inside <=> stage \in {"held", "unlinking"},
           stage = "unlinking" => point = "release"
    PROVE  LockInv'
  <1>1. LockTypeOK' /\ (pc \in [Proc -> Points])'
    BY DEF LockInv, LockTypeOK, Goto, MoveLock
  <1>2. LockInvariant'
    <2> SUFFICES ASSUME NEW q \in Proc PROVE (lk[q] \in Owning <=> lockFile = q)'
      BY DEF LockInvariant
    <2>1. CASE q = p
      BY <2>1 DEF LockInv, LockTypeOK, MoveLock
    <2>2. CASE q # p
      <3>1. lk'[q] = lk[q]
        BY <2>2 DEF LockInv, LockTypeOK, MoveLock
      <3>2. lk[q] \in Owning <=> lockFile = q
        BY DEF LockInv, LockInvariant
      <3>3. lk[p] \in Owning <=> lockFile = p
        BY DEF LockInv, LockInvariant
      <3> QED
        BY <2>2, <3>1, <3>2, <3>3, LockAssumption
    <2> QED
      BY <2>1, <2>2
  <1>3. PhaseMatches'
    BY DEF LockInv, LockTypeOK, PhaseMatches, Goto, MoveLock
  <1> QED
    BY <1>1, <1>2, <1>3 DEF LockInv

\* A step of p between two points on the same side of the lock.
LEMMA PointStep ==
    ASSUME LockInv, NEW p \in Proc, NEW point \in Points,
           Goto(p, point), UNCHANGED lockVars, pc[p] # "release",
           pc[p] = "acquire" <=> point = "acquire",
           pc[p] \in Inside <=> point \in Inside
    PROVE  LockInv'
  BY DEF LockInv, LockTypeOK, LockInvariant, PhaseMatches, Goto, lockVars

\* No one holds the lock at the start.
LEMMA LockInvInit == Init => LockInv
  BY LockAssumption
  DEF Init, LockInit, LockInv, LockTypeOK, LockInvariant, PhaseMatches, LockPhases,
      Owning, Points, Inside

\* Every step keeps the lock's invariant.
LEMMA LockInvNext == LockInv /\ [Next]_vars => LockInv'
  <1> SUFFICES ASSUME LockInv, [Next]_vars PROVE LockInv'
    OBVIOUS
  <1> USE DEF Points, LockPhases, Inside, Owning
  <1>1. ASSUME NEW p \in Proc, Step(p) PROVE LockInv'
    <2>0. /\ pc[p] \in Points /\ lk[p] \in LockPhases
          /\ lk[p] \in Owning <=> lockFile = p
          /\ pc[p] = "acquire" <=> lk[p] \in {"polling", "created"}
          /\ pc[p] \in Inside <=> lk[p] \in {"held", "unlinking"}
          /\ lk[p] = "unlinking" => pc[p] = "release"
          /\ lockFile \in Proc \cup {Free, Stale}
      BY DEF LockInv, LockTypeOK, LockInvariant, PhaseMatches
    <2>1. CASE Validate(p)
      BY <2>0, <2>1, LockStep DEF Validate, StartPolling
    <2>2. CASE ValidateFails(p)
      BY <2>2, PointStep DEF ValidateFails
    <2>3. CASE Create(p)
      <3>1. Goto(p, "acquire")
        BY <2>0, <2>3 DEF Create, CreateLock, applyVars, Goto, LockInv
      <3> QED
        BY <2>0, <2>3, <3>1, LockStep DEF Create, CreateLock
    <2>4. CASE Locked(p)
      BY <2>0, <2>4, LockStep DEF Locked, WriteToken
    <2>5. CASE NotLocked(p)
      BY <2>0, <2>5, LockStep, LockAssumption DEF NotLocked, GiveUp
    <2>18. CASE TokenNotWritten(p)
      BY <2>0, <2>18, LockStep, LockAssumption DEF TokenNotWritten, WriteTokenFails
    <2>6. CASE Snapshot(p)
      BY <2>6, PointStep DEF Snapshot
    <2>7. CASE SnapshotFails(p)
      BY <2>7, PointStep DEF SnapshotFails
    <2>8. CASE \E f \in Path : Check(p, f)
      BY <2>8, PointStep DEF Check
    <2>9. CASE Write(p)
      BY <2>9, PointStep DEF Write
    <2>10. CASE WriteFails(p)
      BY <2>10, PointStep DEF WriteFails
    <2>11. CASE Verify(p)
      BY <2>11, PointStep DEF Verify
    <2>12. CASE Finish(p) \/ FinishFails(p)
      BY <2>12, PointStep DEF Finish, FinishFails
    <2>13. CASE \E f \in Path : RestoreOne(p, f)
      BY <2>13 DEF RestoreOne, LockInv, LockTypeOK, LockInvariant, PhaseMatches, lockVars
    <2>14. CASE Restored(p) \/ RestoreFails(p)
      BY <2>14, PointStep DEF Restored, RestoreFails
    <2>15. CASE BeginRelease(p)
      <3>1. Goto(p, "release")
        BY <2>15 DEF BeginRelease, applyVars, Goto, LockInv
      <3> QED
        BY <2>0, <2>15, <3>1, LockStep DEF BeginRelease, ReadToken
    <2>16. CASE Released(p)
      BY <2>0, <2>16, LockStep, LockAssumption DEF Released, UnlinkLock
    <2>17. CASE NotReleased(p)
      BY <2>0, <2>17, LockStep, LockAssumption DEF NotReleased, ReleaseFails
    <2> QED
      BY <1>1, <2>1, <2>2, <2>3, <2>4, <2>5, <2>6, <2>7, <2>8, <2>9, <2>10, <2>11,
         <2>12, <2>13, <2>14, <2>15, <2>16, <2>17, <2>18 DEF Step
  <1>2. ASSUME NEW p \in Proc, Crash(p) PROVE LockInv'
    BY <1>2, LockStep, LockAssumption
    DEF Crash, LoseHandle, LockInv, LockTypeOK, LockInvariant, PhaseMatches
  <1>3. CASE ManualCleanUp
    BY <1>3, LockAssumption
    DEF ManualCleanUp, CleanUp, applyVars, LockInv, LockTypeOK, LockInvariant, PhaseMatches
  <1>4. ASSUME NEW f \in Path, NEW v \in Content \cup {Absent}, Edit(f, v) PROVE LockInv'
    BY <1>4 DEF Edit, lockVars, LockInv, LockTypeOK, LockInvariant, PhaseMatches
  <1>5. CASE UNCHANGED vars
    BY <1>5 DEF vars, applyVars, LockInv, LockTypeOK, LockInvariant, PhaseMatches
  <1> QED
    BY <1>1, <1>2, <1>3, <1>4, <1>5 DEF Next

\* An apply that is inside owns the lock file, and a file has one owner.
LEMMA InsideOwns ==
    ASSUME LockInv, NEW p \in Proc, pc[p] \in Inside PROVE lockFile = p
  BY DEF LockInv, LockInvariant, PhaseMatches, Owning

\* Two applies of one workspace are never inside their critical sections
\* together (part of LockIsSound).
THEOREM MutualExclusion == Spec => []OneWriter
  <1>1. LockInv => OneWriter
    BY InsideOwns DEF OneWriter
  <1> QED
    BY <1>1, LockInvInit, LockInvNext, PTL DEF Spec

-----------------------------------------------------------------------------
(* A lock left behind *)

Settled(p) == \/ pc[p] = "dead"
              \/ pc[p] = "done" /\ outcome[p].lock \in {"left", "unsaid"}

LeftInv == /\ LockInv
           /\ outcome \in [Proc -> Outcomes]
           /\ lockFile = Stale => \E p \in Proc : Settled(p)

\* One step of p concerns p's control point and answer only.
LEMMA StepIsLocal ==
    ASSUME LockInv, outcome \in [Proc -> Outcomes], NEW p \in Proc, Step(p) \/ Crash(p)
    PROVE  /\ pc[p] \notin {"done", "dead"}
           /\ \A q \in Proc \ {p} : pc'[q] = pc[q] /\ outcome'[q] = outcome[q]
           /\ outcome' \in [Proc -> Outcomes]
  <1> USE DEF LockInv, Goto, Answer, applyVars, Outcomes, Applied, RolledBack, Partial, Refused, Raised
  <1>1. CASE Step(p)
    <2>1. CASE Validate(p)
      BY <2>1 DEF Validate
    <2>2. CASE ValidateFails(p)
      BY <2>2 DEF ValidateFails
    <2>3. CASE Locked(p)
      BY <2>3 DEF Locked, WriteToken, PhaseMatches
    <2>4. CASE Snapshot(p)
      BY <2>4 DEF Snapshot
    <2>5. CASE SnapshotFails(p)
      BY <2>5 DEF SnapshotFails
    <2>6. CASE \E f \in Path : Check(p, f)
      BY <2>6 DEF Check
    <2>7. CASE Write(p)
      BY <2>7 DEF Write
    <2>8. CASE WriteFails(p)
      BY <2>8 DEF WriteFails
    <2>9. CASE Verify(p)
      BY <2>9 DEF Verify
    <2>10. CASE Finish(p)
      BY <2>10 DEF Finish
    <2>11. CASE FinishFails(p)
      BY <2>11 DEF FinishFails
    <2>12. CASE \E f \in Path : RestoreOne(p, f)
      BY <2>12 DEF RestoreOne
    <2>13. CASE Restored(p)
      BY <2>13 DEF Restored
    <2>14. CASE RestoreFails(p)
      BY <2>14 DEF RestoreFails
    <2>15. CASE Create(p) \/ NotLocked(p) \/ TokenNotWritten(p)
      <3>1. lk[p] \in {"polling", "created"}
        BY <2>15 DEF Create, CreateLock, NotLocked, GiveUp, TokenNotWritten, WriteTokenFails
      <3>2. pc[p] = "acquire"
        BY <3>1 DEF PhaseMatches
      <3>3. CASE Create(p)
        BY <3>2, <3>3 DEF Create
      <3>4. CASE NotLocked(p)
        BY <3>2, <3>4 DEF NotLocked
      <3>5. CASE TokenNotWritten(p)
        BY <3>2, <3>5 DEF TokenNotWritten
      <3> QED
        BY <2>15, <3>3, <3>4, <3>5
    <2>16. CASE BeginRelease(p) \/ Released(p) \/ NotReleased(p)
      BY <2>16 DEF BeginRelease, Released, NotReleased
    <2> QED
      BY <1>1, <2>1, <2>2, <2>3, <2>4, <2>5, <2>6, <2>7, <2>8, <2>9,
         <2>10, <2>11, <2>12, <2>13, <2>14, <2>15, <2>16 DEF Step
  <1>2. CASE Crash(p)
    BY <1>2 DEF Crash
  <1> QED
    BY <1>1, <1>2

\* Only a failed release, a token that could not be written or a death leaves a
\* lock nobody owns.
LEMMA StaleComesFrom ==
    ASSUME LockInv, NEW p \in Proc, Step(p) \/ Crash(p), lockFile # Stale, lockFile' = Stale
    PROVE  NotReleased(p) \/ TokenNotWritten(p) \/ Crash(p)
  BY LockAssumption
  DEF Step, Validate, ValidateFails, Create, Locked, NotLocked, Snapshot, SnapshotFails,
      Check, Write, WriteFails, Verify, Finish, FinishFails, RestoreOne, Restored,
      RestoreFails, BeginRelease, Released, StartPolling, CreateLock, WriteToken,
      GiveUp, ReadToken, UnlinkLock, lockVars

\* Every step keeps a lock left behind on the account of a call that is over.
LEMMA LeftInvNext == LeftInv /\ [Next]_vars => LeftInv'
  <1> SUFFICES ASSUME LeftInv, [Next]_vars PROVE LeftInv'
    OBVIOUS
  <1>0. LockInv'
    BY LockInvNext DEF LeftInv
  <1>1. ASSUME NEW p \in Proc, Step(p) \/ Crash(p) PROVE LeftInv'
    <2>1. /\ pc[p] \notin {"done", "dead"}
          /\ \A q \in Proc \ {p} : pc'[q] = pc[q] /\ outcome'[q] = outcome[q]
          /\ outcome' \in [Proc -> Outcomes]
      BY <1>1, StepIsLocal DEF LeftInv
    <2>2. ASSUME NEW q \in Proc, Settled(q) PROVE Settled(q)'
      BY <2>1, <2>2 DEF Settled
    <2>3. ASSUME lockFile # Stale, lockFile' = Stale PROVE Settled(p)'
      <3>1. NotReleased(p) \/ TokenNotWritten(p) \/ Crash(p)
        BY <1>1, <2>3, StaleComesFrom DEF LeftInv
      <3> QED
        BY <3>1 DEF NotReleased, TokenNotWritten, Crash, Goto, Answer, Settled, LeftInv,
           LockInv, Outcomes, Raised
    <2> QED
      BY <1>0, <2>1, <2>2, <2>3 DEF LeftInv
  <1>2. CASE ManualCleanUp
    BY <1>0, <1>2, LockAssumption DEF ManualCleanUp, CleanUp, applyVars, LeftInv
  <1>3. ASSUME NEW f \in Path, NEW v \in Content \cup {Absent}, Edit(f, v) PROVE LeftInv'
    BY <1>0, <1>3 DEF Edit, lockVars, LeftInv, Settled
  <1>4. CASE UNCHANGED vars
    BY <1>0, <1>4 DEF vars, applyVars, LeftInv, Settled
  <1> QED
    BY <1>1, <1>2, <1>3, <1>4 DEF Next

\* A lock file without an owner was left by a process that died, was announced
\* in an answer, or belongs to an apply that raised before it held it (part of
\* LockIsSound).
THEOREM LeftLockReported == Spec => []LeftLockIsReported
  <1>1. Init => LeftInv
    BY LockInvInit, LockAssumption DEF Init, LockInit, LeftInv, Outcomes, Refused
  <1>2. LeftInv => LeftLockIsReported
    BY DEF LeftInv, LeftLockIsReported, Settled
  <1> QED
    BY <1>1, <1>2, LeftInvNext, PTL DEF Spec

\* The lock excludes, and one that guarded an apply is never left behind
\* unnoticed (LockIsSound of run patch_apply).
THEOREM LockSound == Spec => []LockIsSound
  <1>1. OneWriter /\ LeftLockIsReported => LockIsSound
    BY DEF LockIsSound
  <1> QED
    BY <1>1, MutualExclusion, LeftLockReported, PTL

\* Only an editor's save counts as an edit, and the bound caps them.
LEMMA EditsCounted ==
    ASSUME [Next]_vars PROVE edits' = edits \/ (edits < MaxEdits /\ edits' = edits + 1)
  <1>1. ASSUME NEW p \in Proc, Step(p) \/ Crash(p) PROVE edits' = edits
    BY <1>1 DEF Step, Crash, Validate, ValidateFails, Create, Locked, NotLocked, Snapshot,
       SnapshotFails, Check, Write, WriteFails, Verify, Finish, FinishFails, RestoreOne,
       TokenNotWritten, Restored, RestoreFails, BeginRelease, Released, NotReleased, applyVars
  <1>2. ASSUME NEW f \in Path, NEW v \in Content \cup {Absent}, Edit(f, v)
        PROVE  edits < MaxEdits /\ edits' = edits + 1
    BY <1>2 DEF Edit
  <1>3. ManualCleanUp \/ UNCHANGED vars => edits' = edits
    BY DEF ManualCleanUp, vars, applyVars
  <1> QED
    BY <1>1, <1>2, <1>3 DEF Next

\* No apply writes, or takes the lock over, while such a file lies there
\* (StaleBlocksWrites of run patch_apply).
THEOREM StaleLockRespected == Spec => StaleBlocksWrites
  <1> DEFINE Respected == lockFile = Stale => /\ lockFile' \notin Proc
                                              /\ edits' = edits => files' = files
             Inv == LockInv /\ edits \in Nat
  <1>1. Inv /\ [Next]_vars => Respected
    <2> SUFFICES ASSUME LockInv, edits \in Nat, [Next]_vars, lockFile = Stale
                 PROVE  lockFile' \notin Proc /\ (edits' = edits => files' = files)
      OBVIOUS
    <2>1. \A p \in Proc : pc[p] \notin Inside /\ lk[p] \notin Owning
      BY InsideOwns, LockAssumption DEF LockInv, LockInvariant
    <2>2. ASSUME NEW p \in Proc, Step(p) \/ Crash(p) PROVE lockFile' \notin Proc /\ files' = files
      BY <2>1, <2>2, LockAssumption
      DEF Step, Crash, Validate, ValidateFails, Create, Locked, NotLocked, Snapshot,
          SnapshotFails, Check, Write, WriteFails, Verify, Finish, FinishFails, RestoreOne,
          TokenNotWritten, Restored, RestoreFails, BeginRelease, Released, NotReleased, StartPolling,
          CreateLock, WriteToken, GiveUp, WriteTokenFails, ReadToken, UnlinkLock, ReleaseFails,
          LoseHandle, lockVars, applyVars, Inside, Owning
    <2>3. CASE ManualCleanUp
      BY <2>3, LockAssumption DEF ManualCleanUp, CleanUp, applyVars
    <2>4. ASSUME NEW f \in Path, NEW v \in Content \cup {Absent}, Edit(f, v)
          PROVE  lockFile' = lockFile /\ edits' = edits + 1
      BY <2>4 DEF Edit, lockVars
    <2>5. CASE UNCHANGED vars
      BY <2>5, LockAssumption DEF vars, applyVars
    <2> QED
      BY <2>2, <2>3, <2>4, <2>5, LockAssumption DEF Next
  <1>2. Init => Inv
    BY LockInvInit DEF Init
  <1>3. Inv /\ [Next]_vars => Inv'
    BY LockInvNext, EditsCounted
  <1> QED
    BY <1>1, <1>2, <1>3, PTL DEF Spec, StaleBlocksWrites

-----------------------------------------------------------------------------
(* What an apply has done to the files *)

Snapshots == UNION {[T -> Versions] : T \in SUBSET Path}

DataTypes ==
    /\ files \in [Path -> Versions]
    /\ cand \in [Proc -> Candidates]
    /\ call \in [Proc -> [snap : Snapshots, todo : SUBSET Path, cur : Path \cup {NoPath}]]
    /\ outcome \in [Proc -> Outcomes]
    /\ seen \in [Proc -> [base : Snapshots, disturbed : BOOLEAN]]

\* The locals of p: none outside the lock, within its targets inside.
Locals(p) ==
    /\ pc[p] \notin Inside => call[p] = NoCall
    /\ DOMAIN call[p].snap \subseteq Targets(p) /\ call[p].todo \subseteq Targets(p)
    /\ pc[p] \in Inside => seen[p].base \in [Path -> Versions]
    /\ pc[p] = "snapshot" => call[p] = NoCall
    /\ pc[p] \in {"apply", "write", "verify"} => DOMAIN call[p].snap = Targets(p)
    /\ pc[p] = "write" => call[p].cur \in call[p].todo
    /\ pc[p] = "verify" => call[p].cur \in Targets(p) \ call[p].todo

\* What p found, changed and still has to put back, unless somebody edited.
Progress(p) ==
    LET base == seen[p].base
        new(f) == cand[p][f].new
        done == Targets(p) \ call[p].todo
    IN  /\ pc[p] = "snapshot" => files = base
        /\ pc[p] \in {"apply", "write", "verify"} =>
              /\ \A f \in Targets(p) : call[p].snap[f] = base[f]
              /\ \A f \in done : files[f] = new(f) /\ base[f] = cand[p][f].old
              /\ \A f \in Path \ done : files[f] = base[f]
        /\ pc[p] = "write" => base[call[p].cur] = cand[p][call[p].cur].old
        /\ pc[p] = "restore" =>
              /\ \A f \in DOMAIN call[p].snap : call[p].snap[f] = base[f]
              /\ \A f \in Path \ DOMAIN call[p].snap : files[f] = base[f]
        /\ pc[p] = "release" /\ outcome[p].applied =>
              /\ \A f \in Targets(p) : base[f] = cand[p][f].old
              /\ files = [f \in Path |-> IF f \in Targets(p) THEN new(f) ELSE base[f]]
        /\ pc[p] = "release" /\ ~outcome[p].applied /\ outcome[p].atomic => files = base

WorkInv == /\ LockInv
           /\ DataTypes
           /\ \A p \in Proc : /\ Locals(p)
                              /\ pc[p] \in Inside /\ ~seen[p].disturbed => Progress(p)

\* The work invariant holds at the start.
LEMMA WorkInvInit == Init => WorkInv
  <1> SUFFICES ASSUME Init PROVE WorkInv
    OBVIOUS
  <1>1. NoFiles \in Snapshots /\ DOMAIN NoFiles = {}
    <2>1. NoFiles \in [{} -> Versions] /\ {} \in SUBSET Path
      BY DEF NoFiles
    <2> QED
      BY <2>1 DEF Snapshots, NoFiles
  <1>2. DataTypes
    BY <1>1 DEF Init, DataTypes, NoCall, NothingSeen, Refused, Outcomes, Versions
  <1>3. \A p \in Proc : Locals(p) /\ pc[p] \notin Inside
    BY <1>1 DEF Init, Locals, NoCall, Inside
  <1> QED
    BY <1>2, <1>3, LockInvInit DEF WorkInv

\* Every step of p is a step of its own data: nobody else's locals move, and
\* files move only while p is inside.
LEMMA StepFrame ==
    ASSUME WorkInv, NEW p \in Proc, Step(p) \/ Crash(p)
    PROVE  /\ cand' = cand
           /\ pc[p] \notin Inside => files' = files
           /\ \A q \in Proc \ {p} : /\ pc'[q] = pc[q] /\ call'[q] = call[q]
                                    /\ outcome'[q] = outcome[q] /\ seen'[q] = seen[q]
  <1> USE DEF WorkInv, LockInv, DataTypes, Goto, Answer
  <1>1. CASE Validate(p)
    BY <1>1 DEF Validate, StartPolling
  <1>2. CASE ValidateFails(p)
    BY <1>2 DEF ValidateFails
  <1>3. CASE Create(p)
    BY <1>3 DEF Create, applyVars
  <1>4. CASE Locked(p)
    BY <1>4 DEF Locked, WriteToken
  <1>5. CASE NotLocked(p)
    BY <1>5 DEF NotLocked, Forget
  <1>21. CASE TokenNotWritten(p)
    BY <1>21 DEF TokenNotWritten, Forget
  <1>6. CASE Snapshot(p)
    BY <1>6 DEF Snapshot
  <1>7. CASE SnapshotFails(p)
    BY <1>7 DEF SnapshotFails
  <1>8. CASE \E f \in Path : Check(p, f)
    BY <1>8 DEF Check, Matches
  <1>9. CASE Write(p)
    BY <1>9 DEF Write, Inside
  <1>10. CASE WriteFails(p)
    BY <1>10 DEF WriteFails, Inside
  <1>11. CASE Verify(p)
    BY <1>11 DEF Verify
  <1>12. CASE Finish(p)
    BY <1>12 DEF Finish
  <1>13. CASE FinishFails(p)
    BY <1>13 DEF FinishFails
  <1>14. CASE \E f \in Path : RestoreOne(p, f)
    BY <1>14 DEF RestoreOne, Inside
  <1>15. CASE Restored(p)
    BY <1>15 DEF Restored
  <1>16. CASE RestoreFails(p)
    BY <1>16 DEF RestoreFails
  <1>17. CASE BeginRelease(p)
    BY <1>17 DEF BeginRelease, applyVars
  <1>18. CASE Released(p)
    BY <1>18 DEF Released, Forget
  <1>19. CASE NotReleased(p)
    BY <1>19 DEF NotReleased, Forget
  <1>20. CASE Crash(p)
    BY <1>20 DEF Crash, Forget
  <1> QED
    BY <1>1, <1>2, <1>3, <1>4, <1>5, <1>6, <1>7, <1>8, <1>9, <1>10,
       <1>11, <1>12, <1>13, <1>14, <1>15, <1>16, <1>17, <1>18, <1>19, <1>20, <1>21
    DEF Step

\* A snapshot of the workspace is one.
LEMMA SnapshotTyped ==
    ASSUME NEW T \in SUBSET Path, NEW g \in [T -> Versions] PROVE g \in Snapshots
  BY DEF Snapshots

\* The empty snapshot is one as well.
LEMMA NoCallTyped == NoFiles \in Snapshots /\ DOMAIN NoFiles = {}
  <1>1. NoFiles \in [{} -> Versions] /\ {} \in SUBSET Path
    BY DEF NoFiles
  <1> QED
    BY <1>1 DEF Snapshots, NoFiles

\* The targets of a candidate are paths.
LEMMA TargetsTyped ==
    ASSUME WorkInv, NEW p \in Proc
    PROVE  /\ Targets(p) \subseteq Path
           /\ \A f \in Targets(p) : cand[p][f].new \in Versions
  BY CandidateAssumption DEF WorkInv, DataTypes, Targets, Versions

\* One step of an apply keeps the types.
LEMMA TypesStep ==
    ASSUME WorkInv, NEW p \in Proc, Step(p) \/ Crash(p) PROVE DataTypes'
  <1>0. /\ Targets(p) \subseteq Path
        /\ \A f \in Targets(p) : cand[p][f].new \in Versions
        /\ NoCall \in [snap : Snapshots, todo : SUBSET Path, cur : Path \cup {NoPath}]
        /\ NothingSeen \in [base : Snapshots, disturbed : BOOLEAN]
        /\ {Applied, RolledBack, Partial, Refused, Raised} \subseteq Outcomes
        /\ Absent \in Versions /\ Torn \in Versions
        /\ Locals(p)
    BY TargetsTyped, NoCallTyped
    DEF NoCall, NothingSeen, Applied, RolledBack, Partial, Refused, Raised, Outcomes, Versions,
        WorkInv
  <1>files. files \in Snapshots
    BY SnapshotTyped DEF WorkInv, DataTypes
  <1> USE DEF WorkInv, DataTypes, Goto, Answer
  <1>1. CASE Validate(p)
    BY <1>0, <1>1 DEF Validate
  <1>2. CASE ValidateFails(p)
    BY <1>0, <1>2 DEF ValidateFails
  <1>3. CASE Create(p)
    BY <1>0, <1>3 DEF Create, applyVars
  <1>4. CASE Locked(p)
    BY <1>0, <1>files, <1>4 DEF Locked
  <1>5. CASE NotLocked(p)
    BY <1>0, <1>5 DEF NotLocked, Forget
  <1>21. CASE TokenNotWritten(p)
    BY <1>0, <1>21 DEF TokenNotWritten, Forget
  <1>6. CASE Snapshot(p)
    <2>1. [f \in Targets(p) |-> files[f]] \in Snapshots
      BY <1>0, SnapshotTyped
    <2> QED
      BY <1>0, <1>6, <2>1 DEF Snapshot
  <1>7. CASE SnapshotFails(p)
    BY <1>0, <1>7 DEF SnapshotFails
  <1>8. CASE \E f \in Path : Check(p, f)
    <2> SUFFICES ASSUME NEW f \in Path, Check(p, f) PROVE DataTypes'
      BY <1>8
    <2> QED
      BY DEF Check
  <1>9. CASE Write(p)
    BY <1>0, <1>9 DEF Write, Locals
  <1>10. CASE WriteFails(p)
    BY <1>0, <1>10 DEF WriteFails, Locals
  <1>11. CASE Verify(p)
    BY <1>0, <1>11 DEF Verify
  <1>12. CASE Finish(p)
    BY <1>0, <1>12 DEF Finish
  <1>13. CASE FinishFails(p)
    BY <1>0, <1>13 DEF FinishFails
  <1>14. CASE \E f \in Path : RestoreOne(p, f)
    <2> SUFFICES ASSUME NEW f \in Path, RestoreOne(p, f) PROVE DataTypes'
      BY <1>14
    <2>1. call[p].snap \in Snapshots
      OBVIOUS
    <2>2. PICK T \in SUBSET Path : call[p].snap \in [T -> Versions]
      BY <2>1 DEF Snapshots
    <2>3. DOMAIN call[p].snap = T /\ f \in T /\ call[p].snap[f] \in Versions
      BY <2>2 DEF RestoreOne
    <2>4. [g \in T \ {f} |-> call[p].snap[g]] \in [T \ {f} -> Versions]
      BY <2>2
    <2>5. [g \in T \ {f} |-> call[p].snap[g]] \in Snapshots
      BY <2>4, SnapshotTyped
    <2> QED
      BY <2>3, <2>5 DEF RestoreOne
  <1>15. CASE Restored(p)
    BY <1>0, <1>15 DEF Restored
  <1>16. CASE RestoreFails(p)
    BY <1>0, <1>16 DEF RestoreFails
  <1>17. CASE BeginRelease(p)
    BY <1>0, <1>17 DEF BeginRelease, applyVars
  <1>18. CASE Released(p)
    BY <1>0, <1>18 DEF Released, Forget, Outcomes
  <1>19. CASE NotReleased(p)
    BY <1>0, <1>19 DEF NotReleased, Forget, Outcomes
  <1>20. CASE Crash(p)
    BY <1>0, <1>20 DEF Crash, Forget
  <1> QED
    BY <1>1, <1>2, <1>3, <1>4, <1>5, <1>6, <1>7, <1>8, <1>9, <1>10,
       <1>11, <1>12, <1>13, <1>14, <1>15, <1>16, <1>17, <1>18, <1>19, <1>20, <1>21
    DEF Step

\* One step of an apply keeps its locals within its candidate's targets.
LEMMA LocalsStep ==
    ASSUME WorkInv, NEW p \in Proc, Step(p) \/ Crash(p) PROVE Locals(p)'
  <1>0. /\ Locals(p)
        /\ Targets(p)' = Targets(p)
        /\ Targets(p) \subseteq Path
        /\ DOMAIN NoFiles = {}
        /\ pc[p] \in Inside <=> lk[p] \in {"held", "unlinking"}
        /\ pc[p] = "acquire" <=> lk[p] \in {"polling", "created"}
    BY StepFrame, TargetsTyped, NoCallTyped DEF WorkInv, Targets, LockInv, PhaseMatches
  <1> USE DEF WorkInv, LockInv, DataTypes, Goto, Answer, Locals, Inside, NoCall
  <1>1. CASE Validate(p)
    BY <1>0, <1>1 DEF Validate
  <1>2. CASE ValidateFails(p)
    BY <1>0, <1>2 DEF ValidateFails
  <1>3. CASE Create(p)
    BY <1>0, <1>3 DEF Create, applyVars
  <1>4. CASE Locked(p)
    BY <1>0, <1>4 DEF Locked, WriteToken
  <1>5. CASE NotLocked(p)
    BY <1>0, <1>5 DEF NotLocked, Forget
  <1>21. CASE TokenNotWritten(p)
    BY <1>0, <1>21 DEF TokenNotWritten, Forget
  <1>6. CASE Snapshot(p)
    BY <1>0, <1>6 DEF Snapshot
  <1>7. CASE SnapshotFails(p)
    BY <1>0, <1>7 DEF SnapshotFails
  <1>8. CASE \E f \in Path : Check(p, f)
    <2> SUFFICES ASSUME NEW f \in Path, Check(p, f) PROVE Locals(p)'
      BY <1>8
    <2> QED
      BY <1>0 DEF Check
  <1>9. CASE Write(p)
    BY <1>0, <1>9 DEF Write
  <1>10. CASE WriteFails(p)
    BY <1>0, <1>10 DEF WriteFails
  <1>11. CASE Verify(p)
    BY <1>0, <1>11 DEF Verify
  <1>12. CASE Finish(p)
    BY <1>0, <1>12 DEF Finish
  <1>13. CASE FinishFails(p)
    BY <1>0, <1>13 DEF FinishFails
  <1>14. CASE \E f \in Path : RestoreOne(p, f)
    <2> SUFFICES ASSUME NEW f \in Path, RestoreOne(p, f) PROVE Locals(p)'
      BY <1>14
    <2> QED
      BY <1>0 DEF RestoreOne
  <1>15. CASE Restored(p)
    BY <1>0, <1>15 DEF Restored
  <1>16. CASE RestoreFails(p)
    BY <1>0, <1>16 DEF RestoreFails
  <1>17. CASE BeginRelease(p)
    BY <1>0, <1>17 DEF BeginRelease, applyVars
  <1>18. CASE Released(p)
    BY <1>0, <1>18 DEF Released, Forget
  <1>19. CASE NotReleased(p)
    BY <1>0, <1>19 DEF NotReleased, Forget
  <1>20. CASE Crash(p)
    BY <1>0, <1>20 DEF Crash, Forget
  <1> QED
    BY <1>1, <1>2, <1>3, <1>4, <1>5, <1>6, <1>7, <1>8, <1>9, <1>10,
       <1>11, <1>12, <1>13, <1>14, <1>15, <1>16, <1>17, <1>18, <1>19, <1>20, <1>21
    DEF Step

\* One step of an apply, unless somebody edited, keeps what is written and what is to be put back in line with what it found.
LEMMA ProgressStep ==
    ASSUME WorkInv, NEW p \in Proc, Step(p) \/ Crash(p), (pc[p] \in Inside)',
           ~seen'[p].disturbed
    PROVE  Progress(p)'
  <1>0. /\ Locals(p)
        /\ Targets(p)' = Targets(p) /\ cand' = cand
        /\ Targets(p) \subseteq Path
        /\ pc[p] \in Inside <=> lk[p] \in {"held", "unlinking"}
        /\ pc[p] = "acquire" <=> lk[p] \in {"polling", "created"}
        /\ pc[p] \in Inside /\ ~seen[p].disturbed => Progress(p)
    BY StepFrame, TargetsTyped DEF WorkInv, Targets, LockInv, PhaseMatches
  <1> USE DEF WorkInv, LockInv, DataTypes, Goto, Answer, Inside
  <1>1. CASE Validate(p)
    BY <1>0, <1>1 DEF Validate, Progress, Locals, NoCall
  <1>2. CASE ValidateFails(p)
    BY <1>0, <1>2 DEF ValidateFails, Progress, Locals, NoCall
  <1>3. CASE Create(p)
    BY <1>0, <1>3 DEF Create, applyVars, Progress, Locals, NoCall
  <1>4. CASE Locked(p)
    BY <1>0, <1>4 DEF Locked, WriteToken, Progress, Locals, NoCall
  <1>5. CASE NotLocked(p)
    BY <1>0, <1>5 DEF NotLocked, Forget, Progress, Locals, NoCall
  <1>21. CASE TokenNotWritten(p)
    BY <1>0, <1>21 DEF TokenNotWritten, Forget, Progress, Locals, NoCall
  <1>6. CASE Snapshot(p)
    BY <1>0, <1>6 DEF Snapshot, Progress, Locals, NoCall
  <1>7. CASE SnapshotFails(p)
    BY <1>0, <1>7 DEF SnapshotFails, RolledBack, Progress, Locals, NoCall
  <1>8. CASE \E f \in Path : Check(p, f)
    <2> SUFFICES ASSUME NEW f \in Path, Check(p, f) PROVE Progress(p)'
      BY <1>8
    <2> QED
      BY <1>0 DEF Check, Matches, Progress, Locals, NoCall
  <1>9. CASE Write(p)
    BY <1>0, <1>9 DEF Write, Progress, Locals, NoCall
  <1>10. CASE WriteFails(p)
    BY <1>0, <1>10 DEF WriteFails, Progress, Locals, NoCall
  <1>11. CASE Verify(p)
    BY <1>0, <1>11 DEF Verify, Progress, Locals, NoCall
  <1>12. CASE Finish(p)
    BY <1>0, <1>12 DEF Finish, Applied, Progress, Locals, NoCall
  <1>13. CASE FinishFails(p)
    BY <1>0, <1>13 DEF FinishFails, Progress, Locals, NoCall
  <1>14. CASE \E f \in Path : RestoreOne(p, f)
    <2> SUFFICES ASSUME NEW f \in Path, RestoreOne(p, f) PROVE Progress(p)'
      BY <1>14
    <2> QED
      BY <1>0 DEF RestoreOne, Progress, Locals, NoCall
  <1>15. CASE Restored(p)
    BY <1>0, <1>15 DEF Restored, RolledBack, Progress, Locals, NoCall
  <1>16. CASE RestoreFails(p)
    BY <1>0, <1>16 DEF RestoreFails, Partial, Progress, Locals, NoCall
  <1>17. CASE BeginRelease(p)
    BY <1>0, <1>17 DEF BeginRelease, applyVars, Progress, Locals, NoCall
  <1>18. CASE Released(p)
    BY <1>0, <1>18 DEF Released, Forget, Progress, Locals, NoCall
  <1>19. CASE NotReleased(p)
    BY <1>0, <1>19 DEF NotReleased, Forget, Progress, Locals, NoCall
  <1>20. CASE Crash(p)
    BY <1>0, <1>20 DEF Crash, Forget, Progress, Locals, NoCall
  <1> QED
    BY <1>1, <1>2, <1>3, <1>4, <1>5, <1>6, <1>7, <1>8, <1>9, <1>10,
       <1>11, <1>12, <1>13, <1>14, <1>15, <1>16, <1>17, <1>18, <1>19, <1>20, <1>21
    DEF Step

\* Every step keeps the work invariant.
LEMMA WorkInvNext == WorkInv /\ [Next]_vars => WorkInv'
  <1> SUFFICES ASSUME WorkInv, [Next]_vars PROVE WorkInv'
    OBVIOUS
  <1>0. LockInv'
    BY LockInvNext DEF WorkInv
  <1>1. ASSUME NEW p \in Proc, Step(p) \/ Crash(p) PROVE WorkInv'
    <2>1. DataTypes'
      BY <1>1, TypesStep
    <2>2. ASSUME NEW q \in Proc
          PROVE  Locals(q)' /\ ((pc[q] \in Inside)' /\ ~seen'[q].disturbed => Progress(q)')
      <3>1. CASE q = p
        BY <1>1, <3>1, LocalsStep, ProgressStep
      <3>2. CASE q # p
        <4>1. /\ cand' = cand /\ pc'[q] = pc[q] /\ call'[q] = call[q]
              /\ outcome'[q] = outcome[q] /\ seen'[q] = seen[q]
              /\ pc[p] \notin Inside => files' = files
          BY <1>1, <3>2, StepFrame
        <4>2. Locals(q) /\ (pc[q] \in Inside /\ ~seen[q].disturbed => Progress(q))
          BY DEF WorkInv
        <4>3. Locals(q)'
          BY <4>1, <4>2 DEF Locals, Targets
        <4>4. ASSUME pc[q] \in Inside, ~seen[q].disturbed PROVE Progress(q)'
          \* q owns the lock, so p is outside and the files stay.
          <5>1. files' = files
            BY <3>2, <4>1, <4>4, InsideOwns DEF WorkInv
          <5> QED
            BY <4>1, <4>2, <4>4, <5>1 DEF Progress, Targets
        <4> QED
          BY <4>1, <4>3, <4>4
      <3> QED
        BY <3>1, <3>2
    <2> QED
      BY <1>0, <2>1, <2>2 DEF WorkInv
  <1>2. CASE ManualCleanUp \/ UNCHANGED vars
    <2>1. UNCHANGED applyVars
      BY <1>2 DEF ManualCleanUp, vars
    <2> QED
      BY <1>0, <2>1 DEF applyVars, WorkInv, DataTypes, Locals, Progress, Targets
  <1>3. ASSUME NEW f \in Path, NEW v \in Content \cup {Absent}, Edit(f, v) PROVE WorkInv'
    <2>1. DataTypes'
      BY <1>3 DEF Edit, WorkInv, DataTypes, Versions
    <2>2. ASSUME NEW q \in Proc PROVE Locals(q)' /\ (pc'[q] \in Inside => seen'[q].disturbed)
      <3>1. /\ pc' = pc /\ call' = call /\ cand' = cand
            /\ seen'[q].base = seen[q].base
            /\ seen'[q].disturbed = (seen[q].disturbed \/ pc[q] \in Inside)
        BY <1>3 DEF Edit, WorkInv, DataTypes
      <3> QED
        BY <3>1 DEF WorkInv, Locals, Targets
    <2> QED
      BY <1>0, <2>1, <2>2 DEF WorkInv
  <1> QED
    BY <1>1, <1>2, <1>3 DEF Next

\* For every candidate: an answer "applied" of an undisturbed apply means that
\* every target was at its expected version and is at its approved one, and
\* that nothing else changed (part of AllOrNothing).
THEOREM AppliedWholly == Spec => []AppliedIsWhole
  <1>1. WorkInv => AppliedIsWhole
    BY DEF WorkInv, Progress, AppliedIsWhole, Inside
  <1> QED
    BY <1>1, WorkInvInit, WorkInvNext, PTL DEF Spec

\* An answer "not applied, atomic" of an undisturbed apply means that the
\* workspace is back where the lock found it, whichever steps failed
\* (part of AllOrNothing).
THEOREM RefusedWholly == Spec => []RefusedLeavesNothing
  <1>1. WorkInv => RefusedLeavesNothing
    BY DEF WorkInv, Progress, RefusedLeavesNothing, Inside
  <1> QED
    BY <1>1, WorkInvInit, WorkInvNext, PTL DEF Spec

\* Every apply of every candidate is all or nothing (AllOrNothing of run
\* patch_apply).
THEOREM ApplyIsAtomic == Spec => []AllOrNothing
  <1>1. AppliedIsWhole /\ RefusedLeavesNothing => AllOrNothing
    BY DEF AllOrNothing
  <1> QED
    BY <1>1, AppliedWholly, RefusedWholly, PTL

\* The state keeps its types for every instance.
THEOREM TypeCorrect == Spec => []TypeOK
  <1> DEFINE Inv == WorkInv /\ edits \in 0 .. MaxEdits
  <1>1. Init => Inv
    BY WorkInvInit, BoundAssumption DEF Init
  <1>2. Inv /\ [Next]_vars => Inv'
    BY WorkInvNext, EditsCounted, BoundAssumption
  <1>3. Inv => TypeOK
    BY DEF WorkInv, LockInv, DataTypes, Locals, TypeOK
  <1> QED
    BY <1>1, <1>2, <1>3, PTL DEF Spec

-----------------------------------------------------------------------------
(***************************************************************************)
(* For any number of edits, request threads and turns, and any set of      *)
(* hosts on the workspace: what a coding task tells its user, what a       *)
(* validation cycle concludes and how often it runs are as promised.       *)
(*                                                                         *)
(* None of the three is inductive.  A task's list is computed from a state *)
(* read long before, so TaskInv says that every such state still lists     *)
(* what is owed (Bases), and that an edit under execution is decided       *)
(* (Started).  A verdict is drawn from a file, so TruthInv adds that the   *)
(* path is empty unless the cycle or another host has just run the test.   *)
(* CycleInv says what each point of the cycle knows of its frozen state.   *)
(***************************************************************************)

\* Before the loop's report nobody can answer; after it no edit joins those the
\* task waits for.
Reported ==
  /\ loop.pc = "turn" => loop.turn < MaxTurns
  /\ loop.pc # "over" => /\ owed = {} /\ task.listed = {} /\ task.status # "completed"
                         /\ \A r \in Requests : request[r].pc = "idle"
  /\ loop.pc = "over" => undecided \subseteq owed \cup missed
  /\ loop.pc = "report" /\ loop.status = "completed" => undecided \subseteq missed

\* Undecided edits are live; what was executed well is not owed.
Ledger ==
  /\ \A e \in undecided : action[e] = "live"
  /\ \A t \in owed : action[t] # "done"

\* The state a request computes from, and what it knows of its action.
Bases ==
  \A r \in Requests :
    /\ request[r].pc # "idle" => /\ owed \subseteq request[r].base.listed
                                 /\ request[r].token \in Tokens
                                 /\ request[r].base.status = "completed" => undecided \subseteq missed
    /\ request[r].pc = "update" /\ request[r].ok => request[r].token \notin owed

\* Whoever executes an action decided it, and it is no fresh token.
Started(t) == action[t] # "none" /\ t \notin undecided
Executing ==
  /\ \A r \in Requests : request[r].pc = "running" => Started(request[r].token)
  /\ shell # None => Started(shell)

TaskInv ==
  /\ Reported /\ Ledger /\ Bases /\ Executing
  /\ owed \subseteq task.listed
  /\ task.status = "completed" => undecided \subseteq missed

\* What the cycle's frozen state holds at each point of the host's calls, and
\* how many executions were started by then.
CycleInv ==
  /\ cycle.executions >= 1
  /\ cycle.pc \in {"start", "staged", "observed"} => ~cycle.repaired
  /\ cycle.pc = "staged" => cycle.token = "validation"
  /\ cycle.pc = "running" => cycle.token = IF cycle.repaired THEN "revalidation"
                                                            ELSE "validation"
  /\ cycle.pc = "over" /\ Restaged => cycle.token \in {"revalidation", None}
  /\ cycle.pc # "over" => ~cycle.revalidated
  /\ cycle.revalidated => cycle.executions = 2
  /\ cycle.pc \in {"start", "staged"} => runs = 0
  /\ cycle.revalidated \/ (cycle.pc = "running" /\ cycle.repaired) => runs <= 2
  /\ ~(cycle.revalidated \/ (cycle.pc = "running" /\ cycle.repaired)) => runs <= 1

\* What is known of the tests: an attestation lies at its path only if another
\* host ran the test; a verdict is about the last run of the cycle's token.
TruthInv ==
  /\ \A t \in Tests : truth[t] # Elsewhere => artifact[t] = None
  /\ cycle.verdict = "passed" => cycle.token \in Tests
  /\ cycle.verdict = "failed" /\ cycle.pc = "observed" =>
       truth["validation"] \in {"tests_failed", Elsewhere}
  /\ VerdictIsProven

-----------------------------------------------------------------------------
\* The store.

\* A store keeps its shape when tokens become live or one action moves.
LEMMA WithLiveType ==
    ASSUME TasksTypeOK, NEW S \in SUBSET Fresh
    PROVE  WithLive(action, S) \in [Tokens -> ActionStates]
  BY DEF TasksTypeOK, WithLive, ActionStates

\* The end of an action keeps the store and what it owes well typed.
LEMMA EndType ==
    ASSUME TasksTypeOK, NEW t \in Tokens, NEW good \in BOOLEAN, NEW S \in SUBSET Fresh,
           End(t, good, S)
    PROVE  /\ action' \in [Tokens -> ActionStates]
           /\ owed' \in SUBSET Tokens
  BY DEF TasksTypeOK, End, WithLive, ActionStates

\* So does a rejection.
LEMMA RejectType ==
    ASSUME TasksTypeOK, NEW t \in Tokens, NEW S \in SUBSET Fresh, Reject(t, S)
    PROVE  /\ action' \in [Tokens -> ActionStates]
           /\ owed' \in SUBSET Tokens /\ undecided' \in SUBSET Edits
  BY DEF TasksTypeOK, Reject, WithLive, ActionStates

\* So does the start of an action.
LEMMA BeginType ==
    ASSUME TasksTypeOK, NEW t \in Tokens, Begin(t)
    PROVE  /\ action' \in [Tokens -> ActionStates]
           /\ undecided' \in SUBSET Edits
  BY DEF TasksTypeOK, Begin, ActionStates

\* What a test run proves is well typed.
LEMMA RunType ==
    ASSUME TasksTypeOK, NEW t \in Tests, NEW run \in Results
    PROVE  /\ Attested(t, run) \in Codes \cup {None}
           /\ Found(t, run) \in Truths
           /\ Succeeds(run) \in BOOLEAN
           /\ StatusOf(t, run) \in Verdicts
  BY DEF TasksTypeOK, Attested, Found, Truths, Codes, Results, Succeeds, StatusOf, Verdicts

\* So does the answer of another host.
LEMMA ElsewhereType ==
    ASSUME TasksTypeOK, NEW t \in Tokens, NEW S \in SUBSET Fresh, NEW ok \in BOOLEAN,
           EndElsewhere(t, S, ok)
    PROVE  /\ action' \in [Tokens -> ActionStates]
           /\ owed' \in SUBSET Tokens
           /\ artifact' \in [Tests -> Codes \cup {None}]
           /\ truth' \in [Tests -> Truths]
  <1>1. CASE /\ t \in Edits
             /\ \E good \in BOOLEAN : End(t, good, S) /\ ok = good
             /\ UNCHANGED <<artifact, truth>>
    BY <1>1, EndType DEF TasksTypeOK
  <1>2. CASE /\ t \in Tests
             /\ \E run \in Results :
                  /\ End(t, Succeeds(run), S) /\ ok = Succeeds(run)
                  /\ artifact' = [artifact EXCEPT ![t] = Attested(t, run)]
             /\ truth' = [truth EXCEPT ![t] = Elsewhere]
    <2>1. PICK run \in Results : /\ End(t, Succeeds(run), S)
                                 /\ artifact' = [artifact EXCEPT ![t] = Attested(t, run)]
      BY <1>2
    <2>2. Attested(t, run) \in Codes \cup {None} /\ Succeeds(run) \in BOOLEAN
      BY <1>2, RunType
    <2> QED
      BY <1>2, <2>1, <2>2, EndType DEF TasksTypeOK, Truths
  <1> QED
    BY <1>1, <1>2 DEF EndElsewhere

-----------------------------------------------------------------------------
\* Type correctness.

\* What a request, and the cycle, may be set to.
LEMMA RequestType ==
    ASSUME TasksTypeOK, NEW r \in Requests, NEW point \in {"idle", "gate", "running", "update"},
           NEW ok \in BOOLEAN
    PROVE  /\ [request EXCEPT ![r].pc = point] \in [Requests -> RequestStates]
           /\ [request EXCEPT ![r].pc = point, ![r].ok = ok] \in [Requests -> RequestStates]
  <1>1. request \in [Requests -> RequestStates]
    BY DEF TasksTypeOK
  <1>2. [request[r] EXCEPT !.pc = point] \in RequestStates
    BY <1>1 DEF RequestStates
  <1>3. [request[r] EXCEPT !.pc = point, !.ok = ok] \in RequestStates
    BY <1>1 DEF RequestStates
  <1>4. [request EXCEPT ![r].pc = point, ![r].ok = ok]
          = [request EXCEPT ![r] = [request[r] EXCEPT !.pc = point, !.ok = ok]]
    BY <1>1
  <1> QED
    BY <1>1, <1>2, <1>3, <1>4

\* So is what the cycle becomes.
LEMMA CycleType ==
    ASSUME TasksTypeOK, NEW verdict \in Verdicts
    PROVE  AfterValidation(verdict) \in CycleStates /\ Blocked \in CycleStates
  <1>1. cycle \in CycleStates
    BY DEF TasksTypeOK
  <1>2. Blocked \in CycleStates
    BY <1>1 DEF Blocked, CycleStates, Verdicts
  <1>3. CASE cycle.repaired
    <2>1. PICK c \in CycleStates :
            c = [cycle EXCEPT !.pc = "over", !.status = "completed", !.verdict = verdict]
      BY <1>1 DEF CycleStates
    <2>2. 2 \in 0..2 /\ TRUE \in BOOLEAN
      OBVIOUS
    <2>3. [c EXCEPT !.revalidated = TRUE, !.executions = 2] \in CycleStates
      BY <2>2 DEF CycleStates
    <2>4. AfterValidation(verdict) = [c EXCEPT !.revalidated = TRUE, !.executions = 2]
      BY <1>1, <1>3, <2>1 DEF AfterValidation, CycleStates
    <2> QED
      BY <1>2, <2>3, <2>4
  <1>4. CASE ~cycle.repaired
    BY <1>1, <1>2, <1>4 DEF AfterValidation, CycleStates
  <1> QED
    BY <1>3, <1>4

\* So is the task an answer is written into.
LEMMA AnswerType ==
    ASSUME TasksTypeOK, NEW r \in Requests
    PROVE  AfterAnswer(request[r].base, request[r].token, request[r].kind, request[r].ok)
             \in TaskStates
  <1> DEFINE q == request[r]
  <1>1. q.base \in TaskStates /\ q.ok \in BOOLEAN
    BY DEF TasksTypeOK, RequestStates
  <1>2. PICK st \in Statuses, l \in SUBSET Tokens :
          AfterAnswer(q.base, q.token, q.kind, q.ok) = [status |-> st, listed |-> l]
    BY <1>1 DEF AfterAnswer, TaskStates, Statuses
  <1> QED
    BY <1>2 DEF TaskStates

\* The types hold at the start.
LEMMA TypeInit == TasksInit => TasksTypeOK
  BY TurnsAssumption, ScenesAssumption
  DEF TasksInit, TasksTypeOK, IdleRequest, Tokens, Tests, Verdicts, Statuses, ActionStates,
      LoopStates, TaskStates, RequestStates, CycleStates, Truths

\* Every step keeps the types.
LEMMA TypeNext == TasksTypeOK /\ Reported /\ Bases /\ CycleInv /\ [TasksNext]_tasksVars => TasksTypeOK'
  <1> SUFFICES ASSUME TasksTypeOK, Reported, Bases, CycleInv, [TasksNext]_tasksVars PROVE TasksTypeOK'
    OBVIOUS
  <1>a. \A r \in Requests : request[r].pc # "idle" => request[r].token \in Tokens
    BY DEF Bases
  <1>b. action \in [Tokens -> ActionStates] => \A t \in Tokens : action[t] \in ActionStates
    OBVIOUS
  <1>c. Tests \subseteq Tokens /\ Edits \subseteq Tokens
    BY DEF Tokens
  <1>1. CASE LoopTurn
    <2>1. loop' \in LoopStates
      <3>1. loop \in LoopStates /\ loop.turn + 1 \in 0..MaxTurns
        BY <1>1, TurnsAssumption DEF LoopTurn, TasksTypeOK, LoopStates, Reported
      <3> QED
        BY <1>1, <3>1 DEF LoopTurn, LoopStates
    <2> QED
      BY <1>1, <2>1, WithLiveType DEF LoopTurn, TasksTypeOK, StageEdits, Fresh
  <1>2. CASE LoopRaises
    <2>1. loop' \in LoopStates
      BY <1>2 DEF LoopRaises, TasksTypeOK, LoopStates, Statuses
    <2> QED
      BY <1>2, <2>1, WithLiveType DEF LoopRaises, TasksTypeOK, StageEdits, Fresh
  <1>3. CASE LoopDecides
    <2>1. \A listing : StopDecision(listing) \in Statuses
      BY DEF StopDecision, Statuses
    <2>2. loop' \in LoopStates /\ missed' \in SUBSET Edits
      BY <1>3, <2>1 DEF LoopDecides, TasksTypeOK, LoopStates, Statuses
    <2> QED
      BY <1>3, <2>2 DEF LoopDecides, TasksTypeOK, store
  <1>4. CASE LoopReports
    <2>1. task' \in TaskStates /\ owed' \in SUBSET Tokens /\ missed' \in SUBSET Edits
      BY <1>4 DEF LoopReports, TasksTypeOK, LoopStates, TaskStates, Listings, Live
    <2>2. loop' \in LoopStates
      BY <1>4 DEF LoopReports, TasksTypeOK, LoopStates
    <2> QED
      BY <1>4, <2>1, <2>2 DEF LoopReports, TasksTypeOK
  <1>5. ASSUME NEW r \in Requests, Ask(r) PROVE TasksTypeOK'
    <2>1. PICK t \in task.listed, kind \in {"approve", "reject"} :
            request' = [request EXCEPT ![r] = [pc |-> "gate", kind |-> kind, token |-> t,
                                               base |-> task, ok |-> FALSE]]
      BY <1>5 DEF Ask
    <2>2. task \in TaskStates /\ t \in Tokens
      BY <2>1 DEF TasksTypeOK, TaskStates
    <2>3. request' \in [Requests -> RequestStates]
      BY <2>1, <2>2 DEF TasksTypeOK, RequestStates
    <2> QED
      BY <1>5, <2>3 DEF Ask, TasksTypeOK, store
  <1>6. ASSUME NEW r \in Requests, ApproveBegins(r) PROVE TasksTypeOK'
    BY <1>6, <1>a, BeginType, RequestType DEF ApproveBegins, TasksTypeOK
  <1>7. ASSUME NEW r \in Requests, ApproveEnds(r) PROVE TasksTypeOK'
    <2>1. PICK S \in SUBSET Fresh, good \in BOOLEAN, resumed \in BOOLEAN :
            EndElsewhere(request[r].token, S, good) /\ Answered(r, good /\ resumed)
      BY <1>7 DEF ApproveEnds
    <2>2. (good /\ resumed) \in BOOLEAN
      OBVIOUS
    <2>3. request' \in [Requests -> RequestStates]
      BY <2>1, <2>2, RequestType DEF Answered
    <2>4. request[r].token \in Tokens
      BY <1>7, <1>a DEF ApproveEnds
    <2> QED
      <3>1. /\ action' \in [Tokens -> ActionStates] /\ owed' \in SUBSET Tokens
            /\ artifact' \in [Tests -> Codes \cup {None}] /\ truth' \in [Tests -> Truths]
        BY <2>1, <2>4, ElsewhereType
      <3> QED
        BY <1>7, <2>3, <3>1 DEF ApproveEnds, TasksTypeOK
  <1>8. ASSUME NEW r \in Requests, ApproveAgain(r) PROVE TasksTypeOK'
    <2>1. PICK S \in SUBSET Fresh, resumed \in BOOLEAN : StageEdits(S) /\ Answered(r, resumed)
      BY <1>8 DEF ApproveAgain
    <2>2. request' \in [Requests -> RequestStates]
      BY <2>1, RequestType DEF Answered
    <2> QED
      BY <1>8, <2>1, <2>2, WithLiveType DEF ApproveAgain, TasksTypeOK, StageEdits
  <1>9. ASSUME NEW r \in Requests, ApproveFails(r) PROVE TasksTypeOK'
    BY <1>9, RequestType DEF ApproveFails, TasksTypeOK, Answered, store
  <1>10. ASSUME NEW r \in Requests, RejectStores(r) PROVE TasksTypeOK'
    BY <1>10, <1>a, RejectType, RequestType DEF RejectStores, TasksTypeOK, Answered
  <1>11. ASSUME NEW r \in Requests, RejectWaved(r) PROVE TasksTypeOK'
    BY <1>11, RequestType DEF RejectWaved, TasksTypeOK, Answered
  <1>12. ASSUME NEW r \in Requests, Update(r) PROVE TasksTypeOK'
    <2>1. request' \in [Requests -> RequestStates]
      BY <1>12 DEF Update, TasksTypeOK, RequestStates, TaskStates, IdleRequest, Statuses
    <2> QED
      BY <1>12, <2>1, AnswerType DEF Update, TasksTypeOK, store
  <1>13. CASE OthersStage
    BY <1>13, WithLiveType DEF OthersStage, TasksTypeOK, StageEdits, web
  <1>14. CASE ShellBegins
    BY <1>14, BeginType DEF ShellBegins, TasksTypeOK, web
  <1>15. CASE ShellEnds
    BY <1>15, ElsewhereType DEF ShellEnds, TasksTypeOK, web
  <1>16. CASE ShellRejects
    BY <1>16, RejectType DEF ShellRejects, TasksTypeOK, web
  <1>17. CASE StageValidation
    <2>1. cycle' \in CycleStates
      BY <1>17 DEF StageValidation, TasksTypeOK, CycleStates, Tests, Verdicts
    <2>2. action' \in [Tokens -> ActionStates]
      BY <1>17 DEF StageValidation, TasksTypeOK, StageTest, ActionStates
    <2> QED
      BY <1>17, <2>1, <2>2 DEF StageValidation, TasksTypeOK, web
  <1>18. ASSUME cycle.token \in Tests, RunValidation, UNCHANGED <<web, shell>> PROVE TasksTypeOK'
    <2>1. cycle' \in CycleStates
      BY <1>18 DEF RunValidation, TasksTypeOK, CycleStates
    <2> QED
      BY <1>18, <1>c, <2>1, BeginType DEF RunValidation, TasksTypeOK, web
  <1>19. ASSUME ValidationBlocked, UNCHANGED <<web, shell>> PROVE TasksTypeOK'
    <2>1. "blocked" \in Verdicts
      BY DEF Verdicts
    <2> QED
      BY <1>19, <2>1, CycleType DEF ValidationBlocked, TasksTypeOK, web, store
  <1>20. CASE ApproveValidation
    BY <1>18, <1>19, <1>20 DEF ApproveValidation, CycleInv, Tests
  <1>21. CASE RejectValidation
    <2>1. "blocked" \in Verdicts /\ cycle.token \in Tokens
      BY <1>21 DEF Verdicts, RejectValidation, CycleInv, Tests, Tokens
    <2> QED
      BY <1>21, <2>1, CycleType, RejectType DEF RejectValidation, TasksTypeOK, web, store
  <1>22. CASE ValidationEnds
    <2>1. PICK run \in Results, S \in SUBSET Fresh :
            /\ End(cycle.token, Succeeds(run), S)
            /\ artifact' = [artifact EXCEPT ![cycle.token] = None]
            /\ truth' = [truth EXCEPT ![cycle.token] = Found(cycle.token, run)]
            /\ cycle' = AfterValidation(StatusOf(cycle.token, run))
      BY <1>22 DEF ValidationEnds
    <2>2. cycle.token \in Tests
      BY <1>22 DEF ValidationEnds, CycleInv, Tests
    <2>3. cycle' \in CycleStates
      BY <2>1, <2>2, RunType, CycleType
    <2>4. action' \in [Tokens -> ActionStates] /\ owed' \in SUBSET Tokens
      BY <1>c, <2>1, <2>2, RunType, EndType
    <2>5. truth' \in [Tests -> Truths] /\ artifact' \in [Tests -> Codes \cup {None}]
      BY <2>1, <2>2, RunType DEF TasksTypeOK
    <2> QED
      BY <1>22, <2>3, <2>4, <2>5 DEF ValidationEnds, TasksTypeOK, web
  <1>23. CASE Repair
    <2>1. cycle' \in CycleStates
      BY <1>23 DEF Repair, TasksTypeOK, CycleStates
    <2> QED
      BY <1>23, <2>1 DEF Repair, TasksTypeOK, store, web
  <1>24. CASE RepairTurn
    <2>1. cycle' \in CycleStates
      <3>1. \/ \E b \in BOOLEAN : cycle' = [cycle EXCEPT !.pc = "collect", !.blocked = b]
            \/ cycle' = Blocked
        BY <1>24 DEF RepairTurn
      <3>2. ASSUME NEW b \in BOOLEAN PROVE [cycle EXCEPT !.pc = "collect", !.blocked = b] \in CycleStates
        BY DEF TasksTypeOK, CycleStates
      <3>3. Blocked \in CycleStates
        BY CycleType DEF Verdicts
      <3> QED
        BY <3>1, <3>2, <3>3
    <2> QED
      BY <1>24, <2>1, WithLiveType DEF RepairTurn, TasksTypeOK, StageEdits, web
  <1>25. CASE RepairPending
    <2>1. cycle' \in CycleStates
      BY <1>25 DEF RepairPending, TasksTypeOK, CycleStates, Verdicts
    <2> QED
      BY <1>25, <2>1 DEF RepairPending, TasksTypeOK, store, web
  <1>26. CASE RepairBlocked
    <2>1. cycle' \in CycleStates
      BY <1>26 DEF RepairBlocked, TasksTypeOK, CycleStates, Blocked, Verdicts
    <2> QED
      BY <1>26, <2>1 DEF RepairBlocked, TasksTypeOK, store, web
  <1>27. CASE StageRevalidation
    <2>1. cycle' \in CycleStates
      <3>1. \/ cycle' = [cycle EXCEPT !.pc = "over", !.status = "revalidation_pending",
                                     !.token = "revalidation", !.verdict = "approval_pending"]
            \/ cycle' = [cycle EXCEPT !.pc = "over", !.status = "completed",
                                     !.verdict = "blocked", !.token = None]
        BY <1>27 DEF StageRevalidation
      <3>2. /\ cycle \in CycleStates /\ "revalidation" \in Tests
            /\ {"approval_pending", "blocked"} \subseteq Verdicts
        BY DEF TasksTypeOK, Tests, Verdicts
      <3>3. CASE cycle' = [cycle EXCEPT !.pc = "over", !.status = "revalidation_pending",
                                        !.token = "revalidation", !.verdict = "approval_pending"]
        BY <3>2, <3>3 DEF CycleStates
      <3>4. CASE cycle' = [cycle EXCEPT !.pc = "over", !.status = "completed",
                                        !.verdict = "blocked", !.token = None]
        BY <3>2, <3>4 DEF CycleStates
      <3> QED
        BY <3>1, <3>3, <3>4
    <2>2. action' \in [Tokens -> ActionStates]
      BY <1>27 DEF StageRevalidation, TasksTypeOK, StageTest, ActionStates
    <2> QED
      BY <1>27, <2>1, <2>2 DEF StageRevalidation, TasksTypeOK, web
  <1>28. CASE Complete
    <2>1. CASE cycle.revalidated
      BY <1>28, <2>1 DEF Complete, TasksTypeOK, store, web
    <2>2. CASE ~cycle.revalidated /\ ~Restaged
      <3>1. cycle' \in CycleStates
        BY <1>28, <2>2, CycleType DEF Complete, Verdicts
      <3> QED
        BY <1>28, <2>2, <3>1 DEF Complete, TasksTypeOK, store, web
    <2>3. CASE ~cycle.revalidated /\ Restaged
      <3>1. cycle.token # None => cycle.token \in Tests
        BY <1>28 DEF Complete, CycleInv, TasksTypeOK, CycleStates
      <3> QED
        BY <1>18, <1>19, <1>28, <2>3, <3>1 DEF Complete
    <2> QED
      BY <2>1, <2>2, <2>3
  <1>29. CASE UNCHANGED tasksVars
    BY <1>29 DEF tasksVars, store, web, TasksTypeOK
  <1> QED
    BY <1>1, <1>2, <1>3, <1>4, <1>5, <1>6, <1>7, <1>8, <1>9, <1>10, <1>11, <1>12,
       <1>13, <1>14, <1>15, <1>16, <1>17, <1>20, <1>21, <1>22, <1>23, <1>24, <1>25,
       <1>26, <1>27, <1>28, <1>29
    DEF TasksNext

-----------------------------------------------------------------------------
\* The task and its answers.

\* Most steps leave the task alone and take nothing into what it waits for.
Calm ==
  /\ undecided' \subseteq undecided /\ owed' \subseteq owed
  /\ undecided' \ owed' \subseteq undecided \ owed
  /\ \A t \in Tokens : Started(t) => Started(t)'
  /\ Ledger'

\* Staging an edit is such a step.
LEMMA StageIsCalm ==
    ASSUME TasksTypeOK, Ledger, NEW S \in SUBSET Fresh, StageEdits(S),
           UNCHANGED <<undecided, owed>>
    PROVE  Calm
  BY DEF TasksTypeOK, Ledger, StageEdits, WithLive, Fresh, Calm, Started, Tokens

\* So is staging a test command.
LEMMA TestIsCalm ==
    ASSUME TasksTypeOK, Ledger, NEW t \in Tests, StageTest(t), UNCHANGED <<undecided, owed>>
    PROVE  Calm
  BY DEF TasksTypeOK, Ledger, StageTest, Calm, Started, Tokens

\* So is the start of an action.
LEMMA BeginIsCalm ==
    ASSUME TasksTypeOK, Ledger, NEW t \in Tokens, Begin(t), UNCHANGED owed
    PROVE  Calm /\ Started(t)'
  BY DEF TasksTypeOK, Ledger, Begin, Calm, Started, Tokens

\* So is its end.
LEMMA EndIsCalm ==
    ASSUME TasksTypeOK, Ledger, NEW t \in Tokens, t \notin undecided, NEW good \in BOOLEAN,
           NEW S \in SUBSET Fresh, End(t, good, S), UNCHANGED undecided
    PROVE  Calm /\ (good => t \notin owed')
  BY DEF TasksTypeOK, Ledger, End, WithLive, Fresh, Calm, Started, Tokens

\* So is a rejection in the store.
LEMMA RejectIsCalm ==
    ASSUME TasksTypeOK, Ledger, NEW t \in Tokens, NEW S \in SUBSET Fresh, Reject(t, S)
    PROVE  Calm /\ t \notin owed'
  BY DEF TasksTypeOK, Ledger, Reject, WithLive, Fresh, Calm, Started, Tokens

\* So is an answer given by another host.
LEMMA ElsewhereIsCalm ==
    ASSUME TasksTypeOK, Ledger, NEW t \in Tokens, t \notin undecided, NEW S \in SUBSET Fresh,
           NEW ok \in BOOLEAN, EndElsewhere(t, S, ok), UNCHANGED undecided
    PROVE  Calm /\ (ok => t \notin owed')
  <1>1. \E good \in BOOLEAN : End(t, good, S) /\ ok = good
    BY RunType DEF EndElsewhere
  <1> QED
    BY <1>1, EndIsCalm

\* No request and no part of the task moves.
LEMMA BesideTheTask ==
    ASSUME TasksTypeOK, TaskInv, Calm, UNCHANGED <<missed, loop, task, request>>,
           shell' # None => Started(shell)'
    PROVE  TaskInv'
  <1>1. Reported'
    BY DEF TaskInv, Reported, Calm
  <1>2. Bases'
    BY DEF TaskInv, Bases, Calm
  <1>3. Executing'
    BY DEF TaskInv, Executing, Bases, Calm
  <1> QED
    BY <1>1, <1>2, <1>3 DEF TaskInv, Calm

\* A request that is being answered moves on.
LEMMA RequestMoves ==
    ASSUME TasksTypeOK, TaskInv, Calm, UNCHANGED <<missed, loop, task, shell>>,
           NEW r \in Requests, request[r].pc # "idle",
           NEW point \in {"running", "update"}, NEW ok \in BOOLEAN,
           request' = [request EXCEPT ![r].pc = point, ![r].ok = ok],
           point = "update" /\ ok => request[r].token \notin owed',
           point = "running" => Started(request[r].token)'
    PROVE  TaskInv'
  <1>1. loop.pc = "over"
    BY DEF TaskInv, Reported
  <1>2. \A q \in Requests : /\ request'[q].base = request[q].base
                            /\ request'[q].token = request[q].token
                            /\ q # r => request'[q] = request[q]
    BY DEF TasksTypeOK, RequestStates
  <1>3. request'[r].pc = point /\ request'[r].ok = ok
    BY DEF TasksTypeOK, RequestStates
  <1>4. Reported'
    BY <1>1 DEF TaskInv, Reported, Calm
  <1>5. Bases'
    <2>1. undecided' \subseteq undecided /\ owed' \subseteq owed /\ missed' = missed /\ Bases
      BY DEF TaskInv, Calm
    <2> SUFFICES ASSUME NEW q \in Requests
                 PROVE  /\ request'[q].pc # "idle" =>
                              /\ owed' \subseteq request'[q].base.listed
                              /\ request'[q].token \in Tokens
                              /\ request'[q].base.status = "completed" => undecided' \subseteq missed'
                        /\ request'[q].pc = "update" /\ request'[q].ok => request'[q].token \notin owed'
      BY DEF Bases
    <2>2. CASE q = r
      BY <1>2, <1>3, <2>1, <2>2 DEF Bases
    <2>3. CASE q # r
      BY <1>2, <2>1, <2>3 DEF Bases
    <2> QED
      BY <2>2, <2>3
  <1>6. Executing'
    <2>1. ASSUME NEW q \in Requests PROVE (request[q].pc = "running" => Started(request[q].token))'
      <3>1. CASE q = r
        BY <1>3, <3>1
      <3>2. CASE q # r
        <4>1. request[q].pc = "running" => request[q].token \in Tokens /\ Started(request[q].token)
          BY DEF TaskInv, Executing, Bases
        <4> QED
          BY <1>2, <3>2, <4>1 DEF Calm, Started
      <3> QED
        BY <3>1, <3>2
    <2>2. (shell # None => Started(shell))'
      BY DEF TaskInv, Executing, Calm, TasksTypeOK, Started
    <2> QED
      BY <2>1, <2>2 DEF Executing
  <1> QED
    BY <1>4, <1>5, <1>6 DEF TaskInv, Calm

\* Without tasks the task invariant holds.
LEMMA TaskInit == TasksInit => TaskInv
  BY TurnsAssumption DEF TasksInit, TaskInv, Reported, Ledger, Bases, Executing, IdleRequest

\* Every step keeps the task invariant.
LEMMA TaskNext == TasksTypeOK /\ TaskInv /\ CycleInv /\ [TasksNext]_tasksVars => TaskInv'
  <1> SUFFICES ASSUME TasksTypeOK, TaskInv, CycleInv, [TasksNext]_tasksVars PROVE TaskInv'
    OBVIOUS
  <1>a. Ledger /\ (shell # None => Started(shell))
    BY DEF TaskInv, Executing
  <1>b. \A r \in Requests : request[r].pc # "idle" => request[r].token \in Tokens
    BY DEF TaskInv, Bases
  <1>c. \A t \in Tests : t \in Tokens /\ t \notin undecided
    BY TokensAssumption DEF Tokens, TasksTypeOK
  <1>d. (shell # None => Started(shell)) /\ Calm /\ UNCHANGED shell
          => (shell # None => Started(shell))'
    BY DEF Calm, TasksTypeOK, Started
  <1>1. ASSUME NEW S \in SUBSET Fresh, loop.pc = "turn", StageEdits(S),
               undecided' = undecided \cup S, loop'.pc \in {"decide", "report"},
               loop'.pc = "report" => loop'.status # "completed",
               UNCHANGED <<owed, missed, task, request, shell>>
        PROVE  TaskInv'
    <2>1. Ledger'
      BY <1>1 DEF TaskInv, Ledger, Reported, TasksTypeOK, StageEdits, WithLive, Fresh, Tokens
    <2>2. Reported' /\ Bases'
      BY <1>1 DEF TaskInv, Reported, Bases
    <2>3. Executing'
      BY <1>1 DEF TaskInv, Reported, Executing, Started, TasksTypeOK, StageEdits, WithLive, Fresh
    <2> QED
      BY <1>1, <2>1, <2>2, <2>3 DEF TaskInv, Reported
  <1>2. CASE LoopTurn
    <2>1. PICK S \in SUBSET Fresh, event \in {"clear", "guardrail", "scope"} :
            /\ StageEdits(S)
            /\ undecided' = undecided \cup S
            /\ loop' = [loop EXCEPT !.pc = "decide", !.turn = @ + 1, !.event = event]
      BY <1>2 DEF LoopTurn
    <2> QED
      BY <1>2, <2>1, <1>1 DEF LoopTurn, TasksTypeOK, LoopStates
  <1>3. CASE LoopRaises
    <2>1. PICK S \in SUBSET Fresh : StageEdits(S) /\ undecided' = undecided \cup S
      BY <1>3 DEF LoopRaises
    <2> QED
      BY <1>3, <2>1, <1>1 DEF LoopRaises, TasksTypeOK, LoopStates
  <1>4. CASE LoopDecides
    <2>0. PICK listing \in Listings :
            /\ loop' = IF StopDecision(listing) # "running"
                       THEN [loop EXCEPT !.pc = "report", !.status = StopDecision(listing)]
                       ELSE IF loop.turn = MaxTurns
                       THEN [loop EXCEPT !.pc = "report", !.status = "completed"]
                       ELSE [loop EXCEPT !.pc = "turn"]
            /\ missed' = undecided \ listing
      BY <1>4 DEF LoopDecides
    <2>1. /\ loop'.pc \in {"turn", "report"}
          /\ loop'.pc = "turn" => loop'.turn < MaxTurns
          /\ loop'.pc = "report" /\ loop'.status = "completed" =>
               StopDecision(listing) = "running"
      <3>1. StopDecision(listing) # "completed"
        BY DEF StopDecision
      <3>2. loop.turn \in 0 .. MaxTurns /\ loop \in LoopStates
        BY DEF TasksTypeOK, LoopStates
      <3>3. loop.turn # MaxTurns => loop.turn < MaxTurns
        BY <3>2, TurnsAssumption
      <3>4. CASE StopDecision(listing) # "running"
        BY <2>0, <3>1, <3>2, <3>4 DEF LoopStates
      <3>5. CASE StopDecision(listing) = "running"
        BY <2>0, <3>2, <3>3, <3>5 DEF LoopStates
      <3> QED
        BY <3>4, <3>5
    <2>2. loop'.pc = "report" /\ loop'.status = "completed" => undecided \subseteq missed'
      <3>1. loop.event \in {"clear", "guardrail", "scope"}
        BY DEF TasksTypeOK, LoopStates
      <3>2. StopDecision(listing) = "running" => listing = {}
        BY <3>1 DEF StopDecision
      <3> QED
        BY <2>0, <2>1, <3>2
    <2>3. loop.pc # "over" /\ UNCHANGED <<store, task, request, shell>>
      BY <1>4 DEF LoopDecides
    <2> QED
      BY <2>1, <2>2, <2>3 DEF TaskInv, Reported, Ledger, Bases, Executing, Started, store
  <1>5. CASE LoopReports
    <2>0. PICK listing \in Listings :
            /\ task' = [status |-> loop.status, listed |-> listing]
            /\ owed' = listing
            /\ missed' = (IF loop.status = "completed" THEN missed ELSE {})
                           \cup (undecided \ listing)
      BY <1>5 DEF LoopReports
    <2>1. /\ loop.pc = "report" /\ loop'.pc = "over"
          /\ task'.listed = owed' /\ task'.status = loop.status
          /\ UNCHANGED <<action, undecided, request, shell>>
      BY <1>5, <2>0 DEF LoopReports, TasksTypeOK, LoopStates
    <2>2. undecided \subseteq owed' \cup missed'
      BY <2>0
    <2>3. \A t \in owed' : action[t] # "done"
      BY <2>0 DEF Listings, Live
    <2>4. loop.status = "completed" => undecided \subseteq missed'
      BY <2>0, <2>1 DEF TaskInv, Reported
    <2> QED
      BY <2>1, <2>2, <2>3, <2>4 DEF TaskInv, Reported, Ledger, Bases, Executing, Started
  <1>6. ASSUME NEW r \in Requests, Ask(r) PROVE TaskInv'
    <2>1. PICK t \in task.listed, kind \in {"approve", "reject"} :
            request' = [request EXCEPT ![r] = [pc |-> "gate", kind |-> kind, token |-> t,
                                               base |-> task, ok |-> FALSE]]
      BY <1>6 DEF Ask
    <2>2. /\ t \in Tokens /\ loop.pc = "over"
          /\ UNCHANGED <<loop, task, action, undecided, missed, owed, shell>>
      BY <1>6, <2>1 DEF Ask, store, TasksTypeOK, TaskStates, TaskInv, Reported
    <2>3. Bases'
      BY <2>1, <2>2 DEF TaskInv, Bases, TasksTypeOK
    <2>4. Executing'
      BY <2>1, <2>2 DEF TaskInv, Executing, TasksTypeOK, Started
    <2> QED
      BY <2>2, <2>3, <2>4 DEF TaskInv, Reported, Ledger
  <1>7. ASSUME NEW r \in Requests, ApproveBegins(r) PROVE TaskInv'
    <2>1. Calm /\ Started(request[r].token)'
      BY <1>7, <1>a, <1>b, BeginIsCalm DEF ApproveBegins, TasksTypeOK, RequestStates, Started
    <2>2. request' = [request EXCEPT ![r].pc = "running", ![r].ok = request[r].ok]
      BY <1>7 DEF ApproveBegins, TasksTypeOK, RequestStates
    <2>3. request[r].ok \in BOOLEAN
      BY DEF TasksTypeOK, RequestStates
    <2> QED
      BY <1>7, <2>1, <2>2, <2>3, RequestMoves DEF ApproveBegins
  <1>8. ASSUME NEW r \in Requests, ApproveEnds(r) PROVE TaskInv'
    <2>1. PICK S \in SUBSET Fresh, good \in BOOLEAN, resumed \in BOOLEAN :
            EndElsewhere(request[r].token, S, good) /\ Answered(r, good /\ resumed)
      BY <1>8 DEF ApproveEnds
    <2>2. (good /\ resumed) \in BOOLEAN
      OBVIOUS
    <2>3. request[r].pc = "running" /\ request[r].token \in Tokens \ undecided
      BY <1>8, <1>b DEF ApproveEnds, TaskInv, Executing, Started
    <2>4. Calm /\ (good => request[r].token \notin owed')
      BY <1>8, <1>a, <2>1, <2>3, ElsewhereIsCalm DEF ApproveEnds
    <2> QED
      BY <1>8, <2>1, <2>2, <2>3, <2>4, RequestMoves DEF ApproveEnds, Answered
  <1>9. ASSUME NEW r \in Requests, ApproveAgain(r) PROVE TaskInv'
    <2>1. PICK S \in SUBSET Fresh, resumed \in BOOLEAN : StageEdits(S) /\ Answered(r, resumed)
      BY <1>9 DEF ApproveAgain
    <2>2. Calm /\ request[r].token \notin owed'
      BY <1>9, <1>a, <2>1, StageIsCalm DEF ApproveAgain, Ledger
    <2> QED
      BY <1>9, <2>1, <2>2, RequestMoves DEF ApproveAgain, Answered
  <1>10. ASSUME NEW r \in Requests, ApproveFails(r) PROVE TaskInv'
    <2>1. Calm
      BY <1>10, <1>a DEF ApproveFails, store, Calm, Started, Ledger
    <2> QED
      BY <1>10, <2>1, RequestMoves DEF ApproveFails, Answered
  <1>11. ASSUME NEW r \in Requests, RejectStores(r) PROVE TaskInv'
    <2>1. Calm /\ request[r].token \notin owed'
      BY <1>11, <1>a, <1>b, RejectIsCalm DEF RejectStores
    <2> QED
      BY <1>11, <2>1, RequestMoves DEF RejectStores, Answered
  <1>12. ASSUME NEW r \in Requests, RejectWaved(r) PROVE TaskInv'
    <2>1. Calm /\ request[r].token \notin owed'
      BY <1>12, <1>a DEF RejectWaved, Calm, Started, Ledger
    <2> QED
      BY <1>12, <2>1, RequestMoves DEF RejectWaved, Answered
  <1>13. ASSUME NEW r \in Requests, Update(r) PROVE TaskInv'
    <2> DEFINE q == request[r]
               next == AfterAnswer(q.base, q.token, q.kind, q.ok)
    <2>1. /\ loop.pc = "over" /\ UNCHANGED <<loop, action, undecided, missed, owed, shell>>
          /\ task' = next /\ request' = [request EXCEPT ![r] = IdleRequest]
      BY <1>13 DEF Update, store, TaskInv, Reported
    <2>2. /\ owed \subseteq q.base.listed /\ undecided \subseteq owed \cup missed
          /\ q.base.status = "completed" => undecided \subseteq missed
          /\ q.ok => q.token \notin owed
      BY <1>13 DEF Update, TaskInv, Reported, Bases
    <2>3. owed \subseteq next.listed
      BY <2>2 DEF AfterAnswer
    <2>4. next.status = "completed" => undecided \subseteq missed
      BY <2>2 DEF AfterAnswer
    <2>5. Bases' /\ Executing'
      BY <2>1 DEF TaskInv, Bases, Executing, Started, TasksTypeOK, IdleRequest
    <2> QED
      BY <2>1, <2>2, <2>3, <2>4, <2>5 DEF TaskInv, Reported, Ledger
  <1>14. CASE OthersStage
    BY <1>14, <1>a, <1>d, StageIsCalm, BesideTheTask DEF OthersStage, web
  <1>15. CASE ShellBegins
    <2>1. PICK t \in Tokens : Begin(t) /\ shell' = t
      BY <1>15 DEF ShellBegins
    <2> QED
      BY <1>15, <1>a, <2>1, BeginIsCalm, BesideTheTask DEF ShellBegins, web, Started
  <1>16. CASE ShellEnds
    <2>1. shell \in Tokens \ undecided /\ shell' = None
      BY <1>16, <1>a DEF ShellEnds, TasksTypeOK, Started
    <2> QED
      BY <1>16, <1>a, <2>1, ElsewhereIsCalm, BesideTheTask DEF ShellEnds, web
  <1>17. CASE ShellRejects
    BY <1>17, <1>a, <1>d, RejectIsCalm, BesideTheTask DEF ShellRejects, web
  <1>18. ASSUME UNCHANGED <<web, shell, store>> PROVE TaskInv'
    BY <1>18, <1>a, BesideTheTask DEF web, store, Calm, Started, Ledger
  <1>19. ASSUME cycle.token \in Tests, RunValidation, UNCHANGED <<web, shell>> PROVE TaskInv'
    BY <1>19, <1>a, <1>c, <1>d, BeginIsCalm, BesideTheTask DEF RunValidation, web
  <1>20. CASE StageValidation
    BY <1>18, <1>20, <1>a, <1>d, TestIsCalm, BesideTheTask
    DEF StageValidation, web, store, Tests
  <1>21. CASE ApproveValidation
    BY <1>18, <1>19, <1>21 DEF ApproveValidation, ValidationBlocked, CycleInv, Tests
  <1>22. CASE RejectValidation
    <2>1. cycle.token \in Tokens
      BY <1>22, <1>c DEF RejectValidation, CycleInv, Tests
    <2> QED
      BY <1>18, <1>22, <1>a, <1>d, <2>1, RejectIsCalm, BesideTheTask
      DEF RejectValidation, web, store
  <1>23. CASE ValidationEnds
    <2>1. PICK run \in Results, S \in SUBSET Fresh : End(cycle.token, Succeeds(run), S)
      BY <1>23 DEF ValidationEnds
    <2>2. cycle.token \in Tests
      BY <1>23 DEF ValidationEnds, CycleInv, Tests
    <2>3. Calm
      BY <1>23, <1>a, <1>c, <2>1, <2>2, RunType, EndIsCalm DEF ValidationEnds
    <2> QED
      BY <1>23, <1>a, <1>d, <2>3, BesideTheTask DEF ValidationEnds, web
  <1>24. CASE Repair \/ RepairPending \/ RepairBlocked
    BY <1>18, <1>24 DEF Repair, RepairPending, RepairBlocked
  <1>25. CASE RepairTurn
    BY <1>25, <1>a, <1>d, StageIsCalm, BesideTheTask DEF RepairTurn, web
  <1>26. CASE StageRevalidation
    BY <1>18, <1>26, <1>a, <1>d, TestIsCalm, BesideTheTask
    DEF StageRevalidation, web, store, Tests
  <1>27. CASE Complete
    <2>1. cycle.token # None /\ ~cycle.revalidated /\ Restaged => cycle.token \in Tests
      BY <1>27 DEF Complete, CycleInv, Tests
    <2> QED
      BY <1>18, <1>19, <1>27, <2>1 DEF Complete, ValidationBlocked
  <1>28. CASE UNCHANGED tasksVars
    BY <1>18, <1>28 DEF tasksVars
  <1> QED
    BY <1>2, <1>3, <1>4, <1>5, <1>6, <1>7, <1>8, <1>9, <1>10, <1>11, <1>12, <1>13,
       <1>14, <1>15, <1>16, <1>17, <1>20, <1>21, <1>22, <1>23, <1>24, <1>25, <1>26,
       <1>27, <1>28
    DEF TasksNext

-----------------------------------------------------------------------------
\* The validation cycle.

\* No cycle has begun at the start.
LEMMA CycleInit == TasksInit => CycleInv
  BY DEF TasksInit, CycleInv, Restaged

\* Every step keeps the cycle's invariant.
LEMMA CycleNext == TasksTypeOK /\ CycleInv /\ [TasksNext]_tasksVars => CycleInv'
  <1> SUFFICES ASSUME TasksTypeOK, CycleInv, [TasksNext]_tasksVars PROVE CycleInv'
    OBVIOUS
  <1> USE DEF CycleInv, Restaged
  <1>a. cycle \in CycleStates /\ runs \in Nat
    BY DEF TasksTypeOK
  <1>1. ASSUME UNCHANGED <<cycle, runs>> PROVE CycleInv'
    BY <1>1
  <1>2. CASE LoopTurn \/ LoopRaises \/ LoopDecides \/ LoopReports
    BY <1>1, <1>2 DEF LoopTurn, LoopRaises, LoopDecides, LoopReports
  <1>3. ASSUME NEW r \in Requests,
               \/ Ask(r) \/ ApproveBegins(r) \/ ApproveEnds(r) \/ ApproveAgain(r)
               \/ ApproveFails(r) \/ RejectStores(r) \/ RejectWaved(r) \/ Update(r)
        PROVE  CycleInv'
    BY <1>1, <1>3 DEF Ask, ApproveBegins, ApproveEnds, ApproveAgain, ApproveFails,
                      RejectStores, RejectWaved, Update
  <1>4. CASE OthersStage \/ ShellBegins \/ ShellEnds \/ ShellRejects
    BY <1>1, <1>4 DEF OthersStage, ShellBegins, ShellEnds, ShellRejects
  <1>5. CASE StageValidation
    BY <1>5, <1>a DEF StageValidation, CycleStates
  <1>6. CASE ApproveValidation
    <2>1. CASE RunValidation
      BY <1>6, <2>1, <1>a DEF ApproveValidation, RunValidation, CycleStates
    <2>2. CASE ValidationBlocked
      BY <1>6, <2>2, <1>a DEF ApproveValidation, ValidationBlocked, AfterValidation, CycleStates
    <2> QED
      BY <1>6, <2>1, <2>2 DEF ApproveValidation
  <1>7. CASE RejectValidation
    BY <1>7, <1>a DEF RejectValidation, AfterValidation, CycleStates
  <1>8. CASE ValidationEnds
    <2>1. PICK run \in Results : cycle' = AfterValidation(StatusOf(cycle.token, run))
      BY <1>8 DEF ValidationEnds
    <2>2. cycle.pc = "running" /\ runs' = runs
      BY <1>8 DEF ValidationEnds
    <2> HIDE DEF CycleInv
    <2> DEFINE v == StatusOf(cycle.token, run)
    <2>3. cycle' = AfterValidation(v)
      BY <2>1
    <2> HIDE DEF v
    <2> USE DEF CycleInv
    <2>4. CASE cycle.repaired
      BY <2>2, <2>3, <2>4, <1>a DEF AfterValidation, CycleStates
    <2>5. CASE ~cycle.repaired
      BY <2>2, <2>3, <2>5, <1>a DEF AfterValidation, CycleStates
    <2> QED
      BY <2>4, <2>5
  <1>9. CASE Repair
    BY <1>9, <1>a DEF Repair, store, CycleStates
  <1>10. CASE RepairTurn
    BY <1>10, <1>a DEF RepairTurn, Blocked, CycleStates
  <1>11. CASE RepairPending \/ RepairBlocked
    BY <1>11, <1>a DEF RepairPending, RepairBlocked, Blocked, store, CycleStates
  <1>12. CASE StageRevalidation
    BY <1>12, <1>a DEF StageRevalidation, CycleStates
  <1>13. CASE Complete
    <2>1. CASE cycle.revalidated \/ ~Restaged
      BY <1>13, <2>1, <1>a DEF Complete, Blocked, store, CycleStates
    <2>2. CASE ~cycle.revalidated /\ Restaged
      <3>1. CASE cycle.token # None /\ RunValidation
        BY <1>13, <2>2, <3>1, <1>a DEF Complete, RunValidation, CycleStates
      <3>2. CASE ValidationBlocked
        BY <1>13, <2>2, <3>2, <1>a DEF Complete, ValidationBlocked, AfterValidation, CycleStates
      <3> QED
        BY <1>13, <2>2, <3>1, <3>2 DEF Complete
    <2> QED
      BY <2>1, <2>2
  <1>14. CASE UNCHANGED tasksVars
    BY <1>1, <1>14 DEF tasksVars
  <1> QED
    BY <1>2, <1>3, <1>4, <1>5, <1>6, <1>7, <1>8, <1>9, <1>10, <1>11, <1>12, <1>13, <1>14
    DEF TasksNext

-----------------------------------------------------------------------------
\* The verdicts.

\* No task claims anything at the start.
LEMMA TruthInit == TasksInit => TruthInv
  BY DEF TasksInit, TruthInv, VerdictIsProven, Tests

\* A run by another host makes its test unknown and leaves the verdict.
LEMMA ElsewhereIsKnown ==
    ASSUME TasksTypeOK, TruthInv, NEW t \in Tokens, NEW S, NEW ok,
           EndElsewhere(t, S, ok), UNCHANGED cycle
    PROVE  TruthInv'
  BY DEF TasksTypeOK, EndElsewhere, TruthInv, VerdictIsProven, Tests

\* A verdict of the cycle's own run is what the run was.
LEMMA VerdictOfRun ==
    ASSUME TasksTypeOK, TruthInv, NEW t \in Tests, NEW run \in Results
    PROVE  /\ StatusOf(t, run) = "passed" => Found(t, run) \in {"passed", Elsewhere}
           /\ StatusOf(t, run) = "failed" => Found(t, run) \in {"tests_failed", Elsewhere}
  <1>1. CASE truth[t] = Elsewhere
    BY <1>1 DEF Found
  <1>2. CASE truth[t] # Elsewhere
    <2>1. artifact[t] = None
      BY <1>2 DEF TruthInv
    <2>2. Verified(t, run) => run.wrote /\ ~run.late /\ ~run.died
      BY <2>1 DEF Verified, Attested, Results, Codes, None
    <2>3. StatusOf(t, run) = "passed" => Verified(t, run) /\ run.exit = "passed"
      BY DEF StatusOf
    <2>4. StatusOf(t, run) = "failed" => Verified(t, run) /\ run.exit = "tests_failed"
      BY DEF StatusOf
    <2> QED
      BY <1>2, <2>2, <2>3, <2>4 DEF Found
  <1> QED
    BY <1>1, <1>2

\* Every step keeps what the tasks claim true.
LEMMA TruthNext == TasksTypeOK /\ Bases /\ CycleInv /\ TruthInv /\ [TasksNext]_tasksVars => TruthInv'
  <1> SUFFICES ASSUME TasksTypeOK, Bases, CycleInv, TruthInv, [TasksNext]_tasksVars PROVE TruthInv'
    OBVIOUS
  <1>a. cycle \in CycleStates
    BY DEF TasksTypeOK
  <1>1. ASSUME UNCHANGED <<cycle, artifact, truth>> PROVE TruthInv'
    BY <1>1 DEF TruthInv, VerdictIsProven
  <1>2. CASE LoopTurn \/ LoopRaises \/ LoopDecides \/ LoopReports
    BY <1>1, <1>2 DEF LoopTurn, LoopRaises, LoopDecides, LoopReports, store
  <1>3. ASSUME NEW r \in Requests,
               \/ Ask(r) \/ ApproveBegins(r) \/ ApproveAgain(r)
               \/ ApproveFails(r) \/ RejectStores(r) \/ RejectWaved(r) \/ Update(r)
        PROVE  TruthInv'
    BY <1>1, <1>3 DEF Ask, ApproveBegins, ApproveAgain, ApproveFails,
                      RejectStores, RejectWaved, Update, store
  <1>4. ASSUME NEW r \in Requests, ApproveEnds(r) PROVE TruthInv'
    BY <1>4, ElsewhereIsKnown DEF ApproveEnds, Bases
  <1>5. CASE OthersStage \/ ShellBegins \/ ShellRejects
    BY <1>1, <1>5 DEF OthersStage, ShellBegins, ShellRejects
  <1>6. CASE ShellEnds
    BY <1>6, ElsewhereIsKnown DEF ShellEnds, TasksTypeOK
  \* Any step of the cycle but the end of a run keeps the files and what is known.
  <1>7. ASSUME UNCHANGED <<artifact, truth>>, cycle'.verdict \notin {"passed", "failed"},
               cycle'.repaired = cycle.repaired
        PROVE  TruthInv'
    BY <1>7 DEF TruthInv, VerdictIsProven
  <1>8. CASE StageValidation
    BY <1>7, <1>8, <1>a DEF StageValidation, CycleStates
  <1>9. ASSUME RunValidation, cycle.pc # "observed" PROVE TruthInv'
    BY <1>9, <1>a DEF RunValidation, TruthInv, VerdictIsProven, CycleStates
  <1>10. ASSUME ValidationBlocked PROVE TruthInv'
    BY <1>7, <1>10, <1>a DEF ValidationBlocked, AfterValidation, store, CycleStates
  <1>11. CASE ApproveValidation
    BY <1>9, <1>10, <1>11 DEF ApproveValidation
  <1>12. CASE RejectValidation
    BY <1>7, <1>12, <1>a DEF RejectValidation, AfterValidation, store, CycleStates
  <1>13. CASE ValidationEnds
    <2>1. PICK run \in Results :
            /\ artifact' = [artifact EXCEPT ![cycle.token] = None]
            /\ truth' = [truth EXCEPT ![cycle.token] = Found(cycle.token, run)]
            /\ cycle' = AfterValidation(StatusOf(cycle.token, run))
      BY <1>13 DEF ValidationEnds
    <2> DEFINE v == StatusOf(cycle.token, run)
    <2>2. /\ cycle.token = IF cycle.repaired THEN "revalidation" ELSE "validation"
          /\ cycle.token \in Tests
      BY <1>13 DEF ValidationEnds, CycleInv, Tests
    <2>3. /\ v = "passed" => truth'[cycle.token] \in {"passed", Elsewhere}
          /\ v = "failed" => truth'[cycle.token] \in {"tests_failed", Elsewhere}
      BY <2>1, <2>2, VerdictOfRun DEF TasksTypeOK
    <2>4. /\ cycle'.verdict = v /\ cycle'.token = cycle.token
          /\ cycle'.repaired = cycle.repaired
          /\ cycle'.pc = IF cycle.repaired THEN "over" ELSE "observed"
      BY <2>1, <1>a DEF AfterValidation, CycleStates
    <2> HIDE DEF v
    <2>5. \A t \in Tests : truth'[t] # Elsewhere => artifact'[t] = None
      BY <2>1, <2>2 DEF TruthInv, TasksTypeOK
    <2>6. cycle.repaired => truth'["validation"] = truth["validation"]
      BY <2>1, <2>2 DEF TasksTypeOK, Tests
    <2> QED
      BY <2>2, <2>3, <2>4, <2>5, <2>6 DEF TruthInv, VerdictIsProven
  <1>14. CASE Repair
    BY <1>14, <1>a DEF Repair, TruthInv, VerdictIsProven, CycleStates, store
  <1>15. CASE RepairTurn
    BY <1>15, <1>a DEF RepairTurn, Blocked, TruthInv, VerdictIsProven, CycleStates
  <1>16. CASE RepairPending \/ RepairBlocked
    BY <1>7, <1>16, <1>a DEF RepairPending, RepairBlocked, Blocked, store, CycleStates
  <1>17. CASE StageRevalidation
    BY <1>7, <1>17, <1>a DEF StageRevalidation, CycleStates
  <1>18. CASE Complete
    <2>1. CASE cycle.revalidated
      BY <1>1, <1>18, <2>1 DEF Complete, store
    <2>2. CASE ~cycle.revalidated /\ ~Restaged
      BY <1>7, <1>18, <2>2, <1>a DEF Complete, Blocked, store, CycleStates
    <2>3. CASE ~cycle.revalidated /\ Restaged
      BY <1>9, <1>10, <1>18, <2>3 DEF Complete
    <2> QED
      BY <2>1, <2>2, <2>3
  <1>19. CASE UNCHANGED tasksVars
    BY <1>1, <1>19 DEF tasksVars, store
  <1> QED
    BY <1>2, <1>3, <1>4, <1>5, <1>6, <1>8, <1>11, <1>12, <1>13, <1>14, <1>15, <1>16,
       <1>17, <1>18, <1>19
    DEF TasksNext

-----------------------------------------------------------------------------
IInv == TasksTypeOK /\ TaskInv /\ CycleInv /\ TruthInv

\* The invariant holds initially and every step keeps it.
LEMMA Inductive == TasksSpec => []IInv
  <1>1. TasksInit => IInv
    BY TypeInit, TaskInit, CycleInit, TruthInit DEF IInv
  <1>2. IInv /\ [TasksNext]_tasksVars => IInv'
    BY TypeNext, TaskNext, CycleNext, TruthNext DEF IInv, TaskInv
  <1> QED
    BY <1>1, <1>2, PTL DEF TasksSpec

\* What the coding surface tells its user about staged actions can be relied on:
\* for any number of edits, of request threads whose answers overlap, of turns, and
\* whatever the command line and other sessions do (web/coding_service.py).
THEOREM TaskIsTruthful == TasksSpec => []TaskTellsTheTruth
  <1>1. IInv => TaskTellsTheTruth
    BY DEF IInv, TaskInv, TaskTellsTheTruth
  <1> QED
    BY <1>1, Inductive, PTL

\* No verdict "passed" and no repair without a run that an attestation proves, however
\* the test process dies, hangs or exits (coding/pytest_provenance.py).
THEOREM VerdictProven == TasksSpec => []VerdictIsProven
  <1>1. IInv => VerdictIsProven
    BY DEF IInv, TruthInv
  <1> QED
    BY <1>1, Inductive, PTL

\* A cycle never starts a third execution, however often its host repeats a call
\* (MAX_VALIDATION_EXECUTIONS of coding/validation_repair.py).
THEOREM CycleBounded == TasksSpec => []CycleIsBounded
  <1>1. IInv => CycleIsBounded
    BY DEF IInv, TasksTypeOK, CycleInv, CycleIsBounded, CycleStates
  <1> QED
    BY <1>1, Inductive, PTL

-----------------------------------------------------------------------------
(* Subagents.  A node is taken with its batch, awaited until its part of the   *)
(* run is over, and on the board from then on; only what the budget cut off is *)
(* taken and none of these.                                                    *)

Under == {n \in Nodes : Begun(n)} \union awaited

\* What the steps a node depends on have come to when it is begun.
Rests(n) ==
    \A d \in DependsOn(ask.flow, n) :
        IF n = "change_review" THEN board[d] # "none" ELSE board[d] = "success"

\* Batches are closed under dependence, and nobody waits for what a later batch needs.
Taken ==
    /\ batched \subseteq Template(ask.flow) /\ awaited \subseteq batched
    /\ \A n \in batched : DependsOn(ask.flow, n) \subseteq batched \ awaited
    /\ \A n \in Nodes : Begun(n) => n \in batched

Accounted ==
    /\ \A n \in Nodes : n \notin batched => board[n] = "none"
    /\ \A n \in batched : n \in awaited \/ board[n] # "none" \/ left = 0
    /\ \A n \in Nodes : Begun(n) => n \in awaited \/ board[n] # "none"
    /\ \A n \in Under : Rests(n)

Spent == Cardinality(Under) + left <= AgentBudget(ask)

InTree == {"create", "worktree", "finalize", "empty"}
Standing ==
    /\ phase \in {"batch", "done"} => awaited = {}
    /\ phase = "one" => \E n \in Nodes : awaited = {n}
    /\ phase \in InTree => awaited = {"code_patch"} /\ EditsInTree
    /\ phase \in {"finalize", "empty"} => board["code_patch"] # "none"
    /\ EditsInTree /\ phase \in {"one", "parallel"} => "code_patch" \notin awaited

\* The patch and the attempt it is of: a worker that reported success writes no more.
Finished(a) == job[<<"code_patch", a>>] = "success"
Patched ==
    /\ \A a \in Attempts : tree[a].by \subseteq {0, a}
    /\ \A p \in staged : p.by \subseteq {0, p.attempt}
    /\ staged = {} \/ \E p \in Patches : staged = {p}
    /\ staged # {} => "code_patch" \in batched \ awaited
    /\ EditsInTree /\ ~ask.simple /\ board["code_patch"] = "success" =>
          IF "code_patch" \in awaited
          THEN phase \in {"finalize", "empty", "raised"} /\ Finished(attempt)
          ELSE staged # {} /\ \A p \in staged : Finished(p.attempt) /\ p.edits = tree[p.attempt].edits

AgentsInv == RunTypeOK /\ Taken /\ Accounted /\ Spent /\ Standing /\ Patched

-----------------------------------------------------------------------------
\* The graphs, written out.
LEMMA Graph ==
    /\ \A f \in Flows : Template(f) \subseteq Nodes
    /\ \A f \in Flows, n \in Nodes : DependsOn(f, n) \subseteq Nodes
    /\ "code_patch" \in Nodes
    /\ \A f \in Flows : "code_patch" \in Template(f) => f = "code_change"
  <1>1. Nodes = {"memory_lookup", "repo_research", "api_trace", "test_investigation",
                 "implementation_plan", "code_patch", "change_review"}
    BY DEF Nodes, Template, Flows, Research
  <1> QED
    BY <1>1 DEF Flows, Template, DependsOn, Research

\* There are finitely many nodes, so that agents can be counted.
LEMMA Countable ==
    ASSUME NEW ns \in SUBSET Nodes
    PROVE  IsFiniteSet(ns) /\ Cardinality(ns) \in Nat
  <1> DEFINE nodes == (((((({"memory_lookup"} \cup {"repo_research"}) \cup {"api_trace"}) \cup {"test_investigation"})
                            \cup {"implementation_plan"}) \cup {"code_patch"}) \cup {"change_review"})
  <1>1. Nodes = nodes
    BY DEF Nodes, Template, Flows, Research
  <1>2. IsFiniteSet({"memory_lookup"} \cup {"repo_research"})
    BY FS_Singleton, FS_Union
  <1>3. IsFiniteSet(({"memory_lookup"} \cup {"repo_research"}) \cup {"api_trace"})
    BY <1>2, FS_Singleton, FS_Union
  <1>4. IsFiniteSet((({"memory_lookup"} \cup {"repo_research"}) \cup {"api_trace"}) \cup {"test_investigation"})
    BY <1>3, FS_Singleton, FS_Union
  <1>5. IsFiniteSet(nodes)
    BY <1>4, FS_Singleton, FS_Union
  <1> QED
    BY <1>1, <1>5, FS_Subset, FS_CardinalityType

\* A budget is between 1 and 8, whatever was asked for.
LEMMA BudgetType == RunTypeOK => AgentBudget(ask) \in 1 .. 8
  <1> SUFFICES ASSUME RunTypeOK PROVE AgentBudget(ask) \in 1 .. 8
    OBVIOUS
  <1>1. ask.request \in Int
    BY BoundsAssumption DEF RunTypeOK
  <1> QED
    BY <1>1 DEF AgentBudget

\* Every awaited node has a job of its own.
LEMMA JobOfType == RunTypeOK => \A n \in Nodes : JobOf(n) \in Jobs
  BY DEF RunTypeOK, JobOf, Jobs, Attempts

\* The patch has a job for each attempt.
LEMMA JobsOfPatch == \A a \in Attempts : <<"code_patch", a>> \in Jobs
  BY Graph DEF Jobs

\* The patch is a batch of its own.
LEMMA PatchAlone ==
    ASSUME RunTypeOK, Taken, "code_patch" \in Batch
    PROVE  Batch = {"code_patch"} /\ ask.flow = "code_change"
  <1>1. ask.flow = "code_change" /\ "code_patch" \notin batched
    BY Graph DEF Batch, RunTypeOK
  <1>2. "implementation_plan" \in batched
    BY <1>1 DEF Batch, DependsOn
  <1>3. Research \subseteq batched
    BY <1>1, <1>2 DEF Taken, DependsOn
  <1>4. DependsOn(ask.flow, "change_review") = {"code_patch"}
    BY <1>1 DEF DependsOn
  <1> QED
    BY <1>1, <1>2, <1>3, <1>4 DEF Batch, Template

-----------------------------------------------------------------------------
(* What was taken, reported and spent.  All steps but TakeBatch only report    *)
(* nodes that are awaited.                                                     *)

Reporting ==
    /\ UNCHANGED <<ask, batched, left>> /\ awaited' \subseteq awaited
    /\ \A n \in Nodes : /\ Begun(n)' => Begun(n) \/ n \in awaited
                        /\ Begun(n) => Begun(n)'
                        /\ board'[n] = board[n] \/ (n \in awaited /\ board'[n] # "none")
    /\ \A n \in awaited : n \in awaited' \/ board'[n] # "none"

\* A step that only reports keeps the account: what was taken, on the board, and spent.
LEMMA ReportingKeeps ==
    ASSUME RunTypeOK, Taken, Accounted, Spent, Reporting
    PROVE  Taken' /\ Accounted' /\ Spent'
  <1>1. Under \subseteq batched /\ Under' \subseteq Under /\ Under \subseteq Nodes
    BY DEF Taken, Reporting, Under, RunTypeOK
  <1>2. Taken'
    BY <1>1 DEF Taken, Reporting, Under
  <1>3. \A n \in Under' : Rests(n)'
    <2> SUFFICES ASSUME NEW n \in Under' PROVE Rests(n)'
      OBVIOUS
    <2>1. n \in batched /\ Rests(n) /\ n \in Nodes
      BY <1>1 DEF Accounted
    <2>2. \A d \in DependsOn(ask.flow, n) : d \in Nodes /\ board'[d] = board[d]
      BY <2>1, Graph DEF Taken, Reporting, RunTypeOK
    <2> QED
      BY <2>1, <2>2 DEF Rests, Reporting
  <1>4. Accounted'
    <2>1. \A n \in Nodes : n \notin batched' => board'[n] = "none"
      BY DEF Accounted, Reporting, Taken
    <2>2. \A n \in batched' : n \in awaited' \/ board'[n] # "none" \/ left' = 0
      BY DEF Accounted, Reporting, RunTypeOK
    <2>3. \A n \in Nodes : Begun(n)' => n \in awaited' \/ board'[n] # "none"
      BY DEF Accounted, Reporting
    <2> QED
      BY <1>3, <2>1, <2>2, <2>3 DEF Accounted
  <1>5. Spent'
    <2>1. AgentBudget(ask)' = AgentBudget(ask) /\ left' = left
      BY DEF Reporting
    <2>2. Cardinality(Under') <= Cardinality(Under) /\ Cardinality(Under') \in Nat /\ Cardinality(Under) \in Nat
      BY <1>1, Countable, FS_Subset
    <2>3. AgentBudget(ask) \in Int /\ left \in Int
      BY BudgetType DEF RunTypeOK
    <2> QED
      BY <2>1, <2>2, <2>3 DEF Spent
  <1> QED
    BY <1>2, <1>4, <1>5

\* The steps that only report.
ReportingNext ==
    \/ EndRun \/ Collect \/ Expire
    \/ OneCanceled \/ OneExpires \/ OneReturns \/ OneRaises
    \/ CreateTree \/ NoTree \/ StagePatch \/ NoDifference \/ GitFails \/ Fallback \/ NoPatch
    \/ Cancel \/ \E j \in Jobs : Child(j)

\* One call of _run_one ends, whatever came of it.
EndsOne == Waiting /\ \E s \in {"success", "failed", "canceled", "timeout"} : Ends(s)

\* A thread's own step: a job moves on, or writes.
LEMMA ChildMoves ==
    ASSUME RunTypeOK, NEW j \in Jobs, Child(j)
    PROVE  /\ UNCHANGED <<ask, control, staged, cancels>>
           /\ job' \in [Jobs -> Phases] /\ token' \in BOOLEAN
           /\ \A i \in Jobs : job'[i] = "none" <=> job[i] = "none"
           /\ \A i \in Jobs : job[i] = "success" => job'[i] = "success"
           /\ tree' = tree \/ WriteTree(j)
  BY DEF Child, Refuse, Fork, ForkRaises, Prompt, Return, Break, Moves, Aside, RunTypeOK, Phases, WriteTree

\* What futures are dropped were only queued.
LEMMA DroppedJobs ==
    ASSUME RunTypeOK, NEW ns, job' = Dropped(ns)
    PROVE  /\ job' \in [Jobs -> Phases]
           /\ \A i \in Jobs : job'[i] = "none" <=> job[i] = "none"
           /\ \A i \in Jobs : job[i] = "success" => job'[i] = "success"
  BY DEF Dropped, RunTypeOK, Phases

\* A node's jobs are all it is begun by.
LEMMA SameBegun ==
    ASSUME \A i \in Jobs : job'[i] = "none" <=> job[i] = "none"
    PROVE  \A n \in Nodes : Begun(n)' <=> Begun(n)
  BY DEF Begun

\* What was begun stays accounted for, whatever comes back.
LEMMA StepReports ==
    ASSUME RunTypeOK, Standing, ReportingNext
    PROVE  Reporting
  <1>1. CASE EndRun \/ OneRaises \/ NoDifference \/ GitFails \/ Cancel
    BY <1>1 DEF EndRun, OneRaises, NoDifference, GitFails, Cancel, control, Reporting, Begun
  <1>2. CASE StagePatch
    BY <1>2 DEF StagePatch, Stage, Reporting, Begun, Standing, InTree
  <1>3. CASE Collect
    <2>1. \A n \in Nodes : Begun(n)' <=> Begun(n)
      BY <1>3 DEF Collect, Begun
    <2> QED
      BY <1>3, <2>1 DEF Collect, Reporting, RunTypeOK
  <1>4. CASE Expire
    <2>1. \A n \in Nodes : Begun(n)' <=> Begun(n)
      BY <1>4, DroppedJobs, SameBegun DEF Expire
    <2> QED
      BY <1>4, <2>1 DEF Expire, Reporting, RunTypeOK
  <1>5. CASE OneCanceled \/ OneExpires \/ OneReturns
    <2>1. EndsOne
      BY <1>5 DEF EndsOne, OneCanceled, OneExpires, OneReturns
    <2>2. PICK s \in {"success", "failed", "canceled", "timeout"}, n \in awaited :
             /\ board' = [board EXCEPT ![n] = s] /\ job' = Dropped({n})
             /\ IF phase = "one" THEN awaited' = {} /\ phase' = "batch"
                                 ELSE phase' = "finalize" /\ UNCHANGED awaited
             /\ UNCHANGED <<ask, batched, left, attempt, tree, staged, token, cancels>>
      BY <2>1 DEF EndsOne, Ends, Put
    <2>3. \A m \in Nodes : Begun(m)' <=> Begun(m)
      BY <2>2, DroppedJobs, SameBegun
    <2>4. awaited = {n}
      BY <2>1, <2>2 DEF EndsOne, Waiting, Standing, InTree
    <2> QED
      BY <2>2, <2>3, <2>4 DEF Reporting, RunTypeOK
  <1>6. CASE CreateTree
    <2>1. awaited = {"code_patch"}
      BY <1>6 DEF CreateTree, Standing, InTree
    <2>2. job' = [j \in Jobs |-> IF j \in {<<"code_patch", attempt>>} THEN "queued" ELSE job[j]]
      BY <1>6 DEF CreateTree, Submit
    <2>3. \A n \in Nodes : (Begun(n)' => Begun(n) \/ n = "code_patch") /\ (Begun(n) => Begun(n)')
      BY <2>2 DEF Begun
    <2> QED
      BY <1>6, <2>1, <2>3 DEF CreateTree, Reporting
  <1>7. CASE NoTree \/ Fallback \/ NoPatch
    <2>1. awaited = {"code_patch"} /\ "code_patch" \in Nodes /\ (NoPatch => board["code_patch"] # "none")
      BY <1>7, Graph DEF NoTree, Fallback, NoPatch, Standing, InTree
    <2>2. \A n \in Nodes : Begun(n)' <=> Begun(n)
      BY <1>7 DEF NoTree, Fallback, NoPatch, Begun
    <2>3. \A n \in Nodes : n # "code_patch" => board'[n] = board[n]
      BY <1>7 DEF NoTree, Fallback, NoPatch, Put, RunTypeOK
    <2>4. board'["code_patch"] # "none"
      BY <1>7, <2>1 DEF NoTree, Fallback, NoPatch, Put, RunTypeOK
    <2>5. UNCHANGED <<ask, batched, left>> /\ awaited' \subseteq awaited
      BY <1>7, <2>1 DEF NoTree, Fallback, NoPatch
    <2> QED
      BY <2>1, <2>2, <2>3, <2>4, <2>5 DEF Reporting
  <1>8. CASE \E j \in Jobs : Child(j)
    <2>1. \A n \in Nodes : Begun(n)' <=> Begun(n)
      BY <1>8, ChildMoves, SameBegun
    <2> QED
      BY <1>8, <2>1, ChildMoves DEF Reporting, control
  <1> QED
    BY <1>1, <1>2, <1>3, <1>4, <1>5, <1>6, <1>7, <1>8 DEF ReportingNext

\* What a worker wrote stays within its bounds, and so does a patch of it.
LEMMA TreeType ==
    ASSUME RunTypeOK
    PROVE  /\ EmptyTree \in Trees
           /\ \A a \in Attempts : [attempt |-> a, by |-> tree[a].by, edits |-> tree[a].edits] \in Patches
           /\ \A a \in Attempts : [by |-> tree[a].by \union {0}, edits |-> tree[a].edits] \in Trees
           /\ \A a \in Attempts : tree[a].edits < MaxWrites =>
                 [by |-> tree[a].by \union {a}, edits |-> tree[a].edits + 1] \in Trees
  <1>1. \A a \in Attempts : tree[a].by \subseteq Attempts \union {0} /\ tree[a].edits \in 0 .. 2 * MaxWrites
    BY DEF RunTypeOK, Trees
  <1> QED
    BY <1>1, BoundsAssumption DEF EmptyTree, Trees, Patches

\* The nodes a step takes: part of a batch, no more than the budget has left, and all of
\* it when they are fewer than the nodes that are ready.
Takes(first) ==
    /\ phase = "batch" /\ left > 0 /\ Batch # {}
    /\ first \subseteq Ready /\ FirstOf(first, left)
    /\ batched' = batched \union Batch
    /\ board' = [n \in Nodes |-> IF n \in Skipped THEN "skipped" ELSE board[n]]
    /\ awaited' = first /\ left' = left - Cardinality(first)
    /\ \/ first = {} /\ phase' = "batch" /\ UNCHANGED job
       \/ first = {"code_patch"} /\ ask.edits /\ phase' = "create" /\ UNCHANGED job
       \/ /\ first # {} /\ ~(first = {"code_patch"} /\ ask.edits)
          /\ phase' = IF Cardinality(first) = 1 THEN "one" ELSE "parallel"
          /\ job' = [j \in Jobs |-> IF j \in {JobOf(n) : n \in first} THEN "queued" ELSE job[j]]
    /\ UNCHANGED <<ask, attempt, tree, staged, token, cancels>>

\* A batch is taken as a whole or as far as the budget goes.
LEMMA TakeBatchTakes == TakeBatch => \E first : Takes(first)
  BY DEF TakeBatch, Takes, Submit

\* What is taken is counted, and begins only jobs of its own.
LEMMA TakenNodes ==
    ASSUME RunTypeOK, NEW first, Takes(first)
    PROVE  /\ first \subseteq Batch /\ Batch \subseteq Nodes
           /\ Cardinality(first) \in 0 .. left
           /\ \A n \in Nodes : (Begun(n)' => Begun(n) \/ n \in first) /\ (Begun(n) => Begun(n)')
           /\ \A j \in Jobs : j[1] \notin first => job'[j] = job[j]
  <1>1. first \subseteq Batch /\ Batch \subseteq Nodes
    BY Graph DEF Takes, Ready, Batch, RunTypeOK
  <1>2. Cardinality(first) \in 0 .. left
    BY <1>1, Countable DEF Takes, FirstOf, RunTypeOK
  <1>3. \A j \in Jobs : job'[j] = job[j] \/ (job'[j] = "queued" /\ \E n \in first : j = JobOf(n))
    BY DEF Takes
  <1>4. \A n \in Nodes : (Begun(n)' => Begun(n) \/ n \in first) /\ (Begun(n) => Begun(n)')
    BY <1>3 DEF Begun, JobOf
  <1> QED
    BY <1>1, <1>2, <1>3, <1>4 DEF JobOf

\* Every step keeps the types.
LEMMA TypeStep ==
    ASSUME RunTypeOK, Standing, RunNext
    PROVE  RunTypeOK'
  <1> USE DEF control
  <1>1. CASE TakeBatch
    <2>1. PICK first : Takes(first)
      BY <1>1, TakeBatchTakes
    <2>2. first \subseteq Nodes /\ Batch \subseteq Nodes /\ left' \in 0 .. 8
      BY <2>1, TakenNodes DEF Takes, RunTypeOK
    <2>3. job' \in [Jobs -> Phases] /\ board' \in [Nodes -> StepStatuses]
      BY <2>1 DEF Takes, RunTypeOK, Phases, StepStatuses
    <2> QED
      BY <2>1, <2>2, <2>3 DEF Takes, RunTypeOK
  <1>2. CASE EndRun \/ OneRaises \/ NoDifference \/ GitFails
    BY <1>2 DEF EndRun, OneRaises, NoDifference, GitFails, RunTypeOK
  <1>3. CASE Collect
    BY <1>3 DEF Collect, RunTypeOK, StepStatuses
  <1>4. CASE Expire
    BY <1>4, DroppedJobs DEF Expire, RunTypeOK, StepStatuses
  <1>5. CASE OneCanceled \/ OneExpires \/ OneReturns
    <2>1. EndsOne
      BY <1>5 DEF EndsOne, OneCanceled, OneExpires, OneReturns
    <2>2. PICK s \in {"success", "failed", "canceled", "timeout"}, n \in awaited :
             /\ board' = [board EXCEPT ![n] = s] /\ job' = Dropped({n})
             /\ IF phase = "one" THEN awaited' = {} /\ phase' = "batch"
                                 ELSE phase' = "finalize" /\ UNCHANGED awaited
             /\ UNCHANGED <<ask, batched, left, attempt, tree, staged, token, cancels>>
      BY <2>1 DEF EndsOne, Ends, Put
    <2> QED
      BY <2>2, DroppedJobs DEF RunTypeOK, StepStatuses
  <1>6. CASE CreateTree
    BY <1>6, TreeType DEF CreateTree, Submit, RunTypeOK, TreeOf, Phases
  <1>7. CASE NoTree
    BY <1>7 DEF NoTree, Put, RunTypeOK, StepStatuses
  <1>8. CASE StagePatch
    BY <1>8, TreeType DEF StagePatch, Stage, RunTypeOK, TreeOf
  <1>9. CASE Fallback
    <2>1. tree' \in [Attempts -> Trees]
      <3>1. tree' = [tree EXCEPT ![attempt].by = @ \union {0}] /\ attempt \in Attempts
        BY <1>9 DEF Fallback, TreeOf, RunTypeOK
      <3>2. tree[attempt] \in Trees /\ DOMAIN tree = Attempts
        BY <3>1 DEF RunTypeOK
      <3>3. [tree[attempt] EXCEPT !.by = @ \union {0}] \in Trees
        BY <3>2 DEF Trees
      <3> QED
        BY <3>1, <3>2, <3>3 DEF RunTypeOK
    <2>2. [attempt |-> attempt, by |-> tree'[attempt].by, edits |-> tree'[attempt].edits] \in Patches
      BY <2>1 DEF RunTypeOK, Trees, Patches
    <2> QED
      BY <1>9, <2>1, <2>2 DEF Fallback, Stage, Put, RunTypeOK, TreeOf, StepStatuses
  <1>10. CASE NoPatch
    BY <1>10 DEF NoPatch, Put, RunTypeOK, StepStatuses, Attempts, MaxRetries
  <1>11. CASE Cancel
    BY <1>11, BoundsAssumption DEF Cancel, RunTypeOK
  <1>12. CASE \E j \in Jobs : Child(j)
    <2>1. PICK j \in Jobs : Child(j)
      BY <1>12
    <2>2. CASE tree' = tree
      BY <2>1, <2>2, ChildMoves DEF RunTypeOK
    <2>3. CASE WriteTree(j)
      <3>1. j[2] \in Attempts
        BY DEF Jobs
      <3>2. tree' \in [Attempts -> Trees]
        BY <2>3, <3>1, TreeType DEF WriteTree, TreeOf, RunTypeOK
      <3> QED
        BY <2>1, <3>2, ChildMoves DEF RunTypeOK
    <2> QED
      BY <2>1, <2>2, <2>3, ChildMoves
  <1> QED
    BY <1>1, <1>2, <1>3, <1>4, <1>5, <1>6, <1>7, <1>8, <1>9, <1>10, <1>11, <1>12 DEF RunNext, Coordinate

\* Where the coordinator is and whom it waits for.
LEMMA StandingStep ==
    ASSUME RunTypeOK, Taken, Standing, RunNext
    PROVE  Standing'
  <1> USE DEF control, InTree
  <1>1. CASE TakeBatch
    <2>1. PICK first : Takes(first)
      BY <1>1, TakeBatchTakes
    <2>2. "code_patch" \in first => first = {"code_patch"} /\ ask.flow = "code_change"
      BY <2>1, TakenNodes, PatchAlone
    <2>3. Cardinality(first) = 1 => \E n \in Nodes : first = {n}
      <3>1. first \subseteq Nodes /\ IsFiniteSet(first)
        BY <2>1, TakenNodes, Countable
      <3> QED
        BY <3>1, FS_Singleton
    <2> QED
      BY <2>1, <2>2, <2>3 DEF Takes, Standing, EditsInTree
  <1>2. CASE EndRun
    BY <1>2 DEF EndRun, Standing, EditsInTree
  <1>3. CASE OneRaises \/ GitFails
    BY <1>3 DEF OneRaises, GitFails, Standing, EditsInTree
  <1>4. CASE NoDifference
    BY <1>4 DEF NoDifference, Standing, EditsInTree
  <1>5. CASE Collect \/ Expire
    BY <1>5 DEF Collect, Expire, Standing, EditsInTree
  <1>6. CASE OneCanceled \/ OneExpires \/ OneReturns
    <2>1. EndsOne
      BY <1>6 DEF EndsOne, OneCanceled, OneExpires, OneReturns
    <2>2. PICK s \in {"success", "failed", "canceled", "timeout"}, n \in awaited :
             /\ board' = [board EXCEPT ![n] = s]
             /\ IF phase = "one" THEN awaited' = {} /\ phase' = "batch"
                                 ELSE phase' = "finalize" /\ UNCHANGED awaited
             /\ UNCHANGED ask
      BY <2>1 DEF EndsOne, Ends, Put
    <2>3. CASE phase = "one"
      BY <2>2, <2>3 DEF Standing
    <2>4. CASE phase = "worktree"
      <3>1. awaited = {"code_patch"} /\ EditsInTree /\ n = "code_patch"
        BY <2>2, <2>4 DEF Standing
      <3>2. board'["code_patch"] # "none"
        BY <2>2, <3>1, Graph DEF RunTypeOK
      <3> QED
        BY <2>2, <2>4, <3>1, <3>2 DEF Standing, EditsInTree
    <2> QED
      BY <2>1, <2>3, <2>4 DEF EndsOne, Waiting
  <1>7. CASE CreateTree
    BY <1>7 DEF CreateTree, Standing, EditsInTree
  <1>8. CASE NoTree \/ StagePatch \/ Fallback
    BY <1>8 DEF NoTree, StagePatch, Fallback, Standing
  <1>9. CASE NoPatch
    BY <1>9 DEF NoPatch, Standing, EditsInTree
  <1>10. CASE Cancel
    BY <1>10 DEF Cancel, Standing, EditsInTree
  <1>11. CASE \E j \in Jobs : Child(j)
    BY <1>11, ChildMoves DEF Standing, EditsInTree
  <1> QED
    BY <1>1, <1>2, <1>3, <1>4, <1>5, <1>6, <1>7, <1>8, <1>9, <1>10, <1>11 DEF RunNext, Coordinate

\* TakeBatch is the one step that begins nodes: over results that are in, within what is left.
LEMMA TakeBatchKeeps ==
    ASSUME RunTypeOK, Taken, Accounted, Spent, Standing, TakeBatch
    PROVE  Taken' /\ Accounted' /\ Spent'
  <1>1. PICK first : Takes(first)
    BY TakeBatchTakes
  <1>2. first \subseteq Batch /\ Batch \subseteq Nodes /\ Cardinality(first) \in 0 .. left
    BY <1>1, TakenNodes
  <1>3. /\ ask' = ask /\ batched' = batched \union Batch /\ awaited' = first
        /\ left' = left - Cardinality(first) /\ awaited = {} /\ left > 0
        /\ board' = [n \in Nodes |-> IF n \in Skipped THEN "skipped" ELSE board[n]]
    BY <1>1 DEF Takes, Standing
  <1>4. \A n \in Nodes : (Begun(n)' => Begun(n) \/ n \in first) /\ (Begun(n) => Begun(n)')
    BY <1>1, TakenNodes
  <1>5. Batch \subseteq Template(ask.flow) \ batched /\ \A n \in Batch : DependsOn(ask.flow, n) \subseteq batched
    BY DEF Batch
  <1>6. Under' \subseteq Under \union first /\ Under \subseteq batched /\ first \subseteq Batch \ Skipped
    BY <1>1, <1>3, <1>4 DEF Under, Taken, Takes, Ready
  <1>7. Taken'
    BY <1>2, <1>3, <1>4, <1>5 DEF Taken
  <1>8. \A n \in batched : board'[n] = board[n] /\ n \in Nodes
    BY <1>3, <1>5 DEF Skipped, RunTypeOK
  <1>9. \A n \in Under' : Rests(n)'
    <2> SUFFICES ASSUME NEW n \in Under', NEW d \in DependsOn(ask.flow, n)
                 PROVE  d \in batched /\ IF n = "change_review" THEN board[d] # "none" ELSE board[d] = "success"
      BY <1>3, <1>8 DEF Rests
    <2>1. CASE n \in Under
      BY <1>6, <2>1 DEF Taken, Accounted, Rests
    <2>2. CASE n \in first
      <3>1. n \in Batch /\ d \in batched /\ d \in Nodes
        BY <1>2, <1>5, <2>2, <1>8
      <3>2. board[d] # "none"
        BY <1>3, <3>1 DEF Accounted
      <3>3. ~ShouldSkip(n)
        BY <1>6, <2>2, <3>1 DEF Skipped
      <3>4. n # "change_review" => board[d] = "success"
        BY <3>2, <3>3 DEF ShouldSkip, Failed
      <3> QED
        BY <3>1, <3>2, <3>4
    <2> QED
      BY <1>6, <2>1, <2>2
  <1>10. Accounted'
    <2>1. \A n \in Nodes : n \notin batched' => board'[n] = "none"
      BY <1>3 DEF Accounted, Skipped
    <2>2. \A n \in batched' : n \in awaited' \/ board'[n] # "none" \/ left' = 0
      <3> SUFFICES ASSUME NEW n \in Batch, n \notin first, n \notin Skipped PROVE left' = 0
        BY <1>2, <1>3, <1>8 DEF Accounted
      <3>1. first # Ready
        BY DEF Ready
      <3> QED
        BY <1>1, <1>3, <3>1 DEF Takes, FirstOf, RunTypeOK
    <2>3. \A n \in Nodes : Begun(n)' => n \in awaited' \/ board'[n] # "none"
      BY <1>3, <1>4, <1>8 DEF Accounted, Taken
    <2> QED
      BY <1>9, <2>1, <2>2, <2>3 DEF Accounted
  <1>11. Spent'
    <2>1. Under \subseteq Nodes /\ first \subseteq Nodes /\ Under' \subseteq Nodes
      BY <1>2, <1>6 DEF Under, RunTypeOK
    <2>2. IsFiniteSet(Under) /\ IsFiniteSet(first) /\ Cardinality(Under) \in Nat /\ Cardinality(first) \in Nat
      BY <2>1, Countable
    <2>3. IsFiniteSet(Under \union first) /\ Cardinality(Under \union first) <= Cardinality(Under) + Cardinality(first)
      <3>1. Under \intersect first \subseteq Nodes
        BY <2>1
      <3>2. Cardinality(Under \intersect first) \in Nat
        BY <3>1, Countable
      <3>3. /\ IsFiniteSet(Under \union first)
            /\ Cardinality(Under \union first) =
                  Cardinality(Under) + Cardinality(first) - Cardinality(Under \intersect first)
        BY <2>2, FS_Union
      <3> QED
        BY <2>2, <3>2, <3>3
    <2>4. Cardinality(Under') <= Cardinality(Under \union first) /\ Cardinality(Under') \in Nat
      BY <1>6, <2>1, <2>3, Countable, FS_Subset
    <2>5. Cardinality(Under \union first) \in Nat
      BY <2>1, Countable
    <2>6. AgentBudget(ask)' = AgentBudget(ask) /\ AgentBudget(ask) \in Int /\ left \in Int
      BY <1>3, BudgetType DEF RunTypeOK
    <2> QED
      BY <1>3, <2>2, <2>3, <2>4, <2>5, <2>6 DEF Spent
  <1> QED
    BY <1>7, <1>10, <1>11

\* A staged patch is of one attempt and stays it; a success stands on finished work.
LEMMA PatchedStep ==
    ASSUME RunTypeOK, Taken, Accounted, Standing, Patched, RunNext
    PROVE  Patched'
  <1> USE DEF control, InTree, TreeOf
  <1>0. "code_patch" \in Nodes /\ \A a \in Attempts : <<"code_patch", a>> \in Jobs
    BY Graph, JobsOfPatch
  <1>1. CASE TakeBatch
    <2>1. PICK first : Takes(first)
      BY <1>1, TakeBatchTakes
    <2>2. awaited = {} /\ UNCHANGED <<ask, tree, staged>>
      BY <2>1 DEF Takes, Standing
    <2>3. CASE "code_patch" \in batched
      <3>1. "code_patch" \notin Batch
        BY <2>3 DEF Batch
      <3>2. "code_patch" \in batched' \ awaited' /\ board'["code_patch"] = board["code_patch"]
        BY <1>0, <2>1, <2>3, <3>1, TakenNodes DEF Takes, Skipped, RunTypeOK
      <3>3. \A a \in Attempts : Finished(a) => Finished(a)'
        BY <1>0, <2>1, <3>1, TakenNodes DEF Finished
      <3> QED
        BY <2>2, <3>2, <3>3 DEF Patched, EditsInTree, Patches
    <2>4. CASE "code_patch" \notin batched
      <3>1. staged = {} /\ board["code_patch"] = "none"
        BY <1>0, <2>4 DEF Patched, Accounted
      <3>2. board'["code_patch"] # "success"
        BY <1>0, <2>1, <3>1 DEF Takes
      <3> QED
        BY <2>2, <3>1, <3>2 DEF Patched
    <2> QED
      BY <2>3, <2>4
  <1>2. CASE EndRun \/ OneRaises \/ NoDifference \/ GitFails \/ Cancel
    <2>1. UNCHANGED <<ask, batched, awaited, board, attempt, job, tree, staged>>
      BY <1>2 DEF EndRun, OneRaises, NoDifference, GitFails, Cancel
    <2>2. "code_patch" \in awaited /\ phase \in {"finalize", "empty", "raised"} => phase' \in {"finalize", "empty", "raised"}
      BY <1>2 DEF EndRun, OneRaises, NoDifference, GitFails, Cancel, Waiting
    <2> QED
      BY <2>1, <2>2 DEF Patched, EditsInTree, Finished
  <1>3. CASE Collect \/ Expire
    <2>1. UNCHANGED <<ask, batched, tree, staged, attempt>> /\ awaited' \subseteq awaited
      BY <1>3 DEF Collect, Expire
    <2>2. \A a \in Attempts : Finished(a) => Finished(a)'
      BY <1>0, <1>3, DroppedJobs DEF Collect, Expire, Finished
    <2>3. EditsInTree => "code_patch" \notin awaited /\ board'["code_patch"] = board["code_patch"]
      BY <1>0, <1>3 DEF Collect, Expire, Standing
    <2> QED
      BY <2>1, <2>2, <2>3 DEF Patched, EditsInTree, Patches
  <1>4. CASE OneCanceled \/ OneExpires \/ OneReturns
    <2>1. Waiting /\ \E s \in {"success", "failed", "canceled", "timeout"} :
             Ends(s) /\ (s = "success" => \E n \in awaited : job[JobOf(n)] = "success")
      BY <1>4 DEF OneCanceled, OneExpires, OneReturns
    <2>2. PICK s \in {"success", "failed", "canceled", "timeout"}, n \in awaited :
             /\ board' = [board EXCEPT ![n] = s] /\ job' = Dropped({n})
             /\ IF phase = "one" THEN awaited' = {} /\ phase' = "batch"
                                 ELSE phase' = "finalize" /\ UNCHANGED awaited
             /\ UNCHANGED <<ask, batched, left, attempt, tree, staged, token, cancels>>
             /\ s = "success" => \E m \in awaited : job[JobOf(m)] = "success"
      BY <2>1 DEF Ends, Put
    <2>3. \A a \in Attempts : Finished(a) => Finished(a)'
      BY <1>0, <2>2, DroppedJobs DEF Finished
    <2>4. CASE phase = "one"
      <3>1. EditsInTree => "code_patch" \notin awaited /\ n # "code_patch"
        BY <2>2, <2>4 DEF Standing
      <3> QED
        BY <1>0, <2>2, <2>3, <2>4, <3>1 DEF Patched, EditsInTree, Patches, RunTypeOK
    <2>5. CASE phase = "worktree"
      <3>1. awaited = {"code_patch"} /\ n = "code_patch" /\ awaited' = awaited /\ phase' = "finalize"
        BY <2>2, <2>5 DEF Standing
      <3>2. s = "success" => Finished(attempt)
        BY <2>2, <3>1 DEF JobOf, Finished
      <3>3. board'["code_patch"] = "success" => Finished(attempt)'
        BY <1>0, <2>2, <2>3, <3>1, <3>2 DEF RunTypeOK, Finished
      <3> QED
        BY <2>2, <3>1, <3>3 DEF Patched, EditsInTree
    <2> QED
      BY <2>1, <2>4, <2>5 DEF Waiting
  <1>5. CASE CreateTree
    <2>1. awaited = {"code_patch"} /\ staged = {} /\ board["code_patch"] = "success" => ~(EditsInTree /\ ~ask.simple)
      BY <1>5 DEF CreateTree, Standing, Patched
    <2>2. \A a \in Attempts : tree'[a].by \subseteq {0, a}
      BY <1>5 DEF CreateTree, Patched, RunTypeOK, EmptyTree
    <2>3. awaited = {"code_patch"} /\ staged = {} /\ UNCHANGED <<ask, batched, awaited, board, staged>>
      BY <1>5 DEF CreateTree, Standing, Patched
    <2> QED
      BY <2>1, <2>2, <2>3 DEF Patched, EditsInTree
  <1>6. CASE NoTree \/ NoPatch
    <2>1. awaited = {"code_patch"} /\ staged = {} /\ UNCHANGED <<ask, batched, tree, staged>> /\ awaited' \subseteq awaited
      BY <1>6 DEF NoTree, NoPatch, Standing, Patched
    <2>2. board'["code_patch"] # "success"
      BY <1>0, <1>6 DEF NoTree, NoPatch, Put, RunTypeOK
    <2> QED
      BY <2>1, <2>2 DEF Patched, EditsInTree
  <1>7. CASE StagePatch
    <2> DEFINE p == [attempt |-> attempt, by |-> tree[attempt].by, edits |-> tree[attempt].edits]
    <2>1. awaited = {"code_patch"} /\ "code_patch" \in batched /\ staged = {} /\ staged' = {p} /\ p \in Patches
      BY <1>7, TreeType DEF StagePatch, Stage, Standing, Patched, Taken, RunTypeOK
    <2>2. UNCHANGED <<ask, batched, board, attempt, job, tree>> /\ awaited' = {} /\ phase = "finalize"
      BY <1>7 DEF StagePatch
    <2>3. p.by \subseteq {0, p.attempt} /\ p.edits = tree[p.attempt].edits
      BY DEF Patched, RunTypeOK
    <2> HIDE DEF p
    <2>4. p.attempt = attempt
      BY DEF p
    <2>5. EditsInTree /\ ~ask.simple /\ board["code_patch"] = "success" => Finished(p.attempt)
      BY <2>1, <2>4 DEF Patched
    <2> QED
      BY <2>1, <2>2, <2>3, <2>5 DEF Patched, EditsInTree, Finished
  <1>8. CASE Fallback
    <2> DEFINE p == [attempt |-> attempt, by |-> tree'[attempt].by, edits |-> tree'[attempt].edits]
    <2>1. awaited = {"code_patch"} /\ "code_patch" \in batched /\ staged = {} /\ staged' = {p}
      BY <1>8 DEF Fallback, Stage, Standing, Patched, Taken
    <2>2. \A a \in Attempts : tree'[a].by \subseteq {0, a}
      <3>1. tree' = [tree EXCEPT ![attempt].by = @ \union {0}]
        BY <1>8 DEF Fallback
      <3>2. \A a \in Attempts : tree'[a].by \subseteq tree[a].by \union {0}
        BY <3>1 DEF RunTypeOK, Trees
      <3> QED
        BY <3>2 DEF Patched
    <2>3. p \in Patches
      <3>1. RunTypeOK'
        BY TypeStep DEF RunNext, Coordinate, Standing
      <3>2. attempt' = attempt /\ attempt \in Attempts
        BY <1>8 DEF Fallback, RunTypeOK
      <3> QED
        BY <3>1, <3>2 DEF RunTypeOK, Trees, Patches
    <2>4. UNCHANGED <<ask, batched>> /\ awaited' = {} /\ ask.simple
      BY <1>8 DEF Fallback
    <2>5. p.by \subseteq {0, p.attempt}
      BY <2>2 DEF RunTypeOK
    <2> HIDE DEF p
    <2> QED
      BY <2>1, <2>2, <2>3, <2>4, <2>5 DEF Patched
  <1>9. CASE \E j \in Jobs : Child(j)
    <2>1. PICK j \in Jobs : Child(j)
      BY <1>9
    <2>2. UNCHANGED <<ask, control, staged, cancels>> /\ \A a \in Attempts : Finished(a) => Finished(a)'
      BY <1>0, <2>1, ChildMoves DEF Finished
    <2>3. /\ \A p \in staged : p.attempt \in Attempts /\ (Finished(p.attempt) => Finished(p.attempt)')
          /\ attempt' = attempt /\ (Finished(attempt) => Finished(attempt)')
      BY <2>2 DEF RunTypeOK, Patches
    <2>4. UNCHANGED <<ask, phase, batched, awaited, board, staged>> /\ (EditsInTree' <=> EditsInTree)
      BY <2>2 DEF EditsInTree
    <2>5. CASE tree' = tree
      BY <2>3, <2>4, <2>5 DEF Patched
    <2>6. CASE WriteTree(j)
      <3>1. PICK b \in Attempts : j = <<"code_patch", b>>
        BY <2>6 DEF WriteTree, Jobs
      <3>2. /\ ~Finished(b) /\ tree' = [tree EXCEPT ![b] = [by |-> @.by \union {b}, edits |-> @.edits + 1]]
        BY <2>6, <3>1 DEF WriteTree, Finished
      <3>3. \A a \in Attempts : tree'[a].by \subseteq {0, a}
        BY <3>2 DEF Patched, RunTypeOK
      <3>4. \A a \in Attempts : a # b => tree'[a] = tree[a]
        BY <3>2 DEF RunTypeOK
      <3>5. \A p \in staged : Finished(p.attempt) => tree'[p.attempt] = tree[p.attempt]
        BY <2>3, <3>2, <3>4
      <3> QED
        BY <2>3, <2>4, <3>3, <3>5 DEF Patched
    <2> QED
      BY <2>1, <2>5, <2>6, ChildMoves
  <1> QED
    BY <1>1, <1>2, <1>3, <1>4, <1>5, <1>6, <1>7, <1>8, <1>9 DEF RunNext, Coordinate

-----------------------------------------------------------------------------
\* A run begins with nothing taken and its whole budget left.
LEMMA AgentsInit == RunInit => AgentsInv
  <1> SUFFICES ASSUME RunInit PROVE AgentsInv
    OBVIOUS
  <1>1. ask \in [flow : Flows, edits : BOOLEAN, request : AgentRequests, explicit : BOOLEAN, simple : BOOLEAN]
    BY DEF RunInit
  <1>2. ask.request \in Int
    BY <1>1, BoundsAssumption
  <1>3. AgentBudget(ask) \in 1 .. 8
    BY <1>2 DEF AgentBudget
  <1>4. RunTypeOK
    <2>1. EmptyTree \in Trees
      BY BoundsAssumption DEF EmptyTree, Trees
    <2>2. tree \in [Attempts -> Trees]
      BY <2>1 DEF RunInit
    <2>3. board \in [Nodes -> StepStatuses] /\ job \in [Jobs -> Phases]
      BY DEF RunInit, StepStatuses, Phases
    <2>4. left \in 0 .. 8 /\ attempt \in Attempts /\ cancels \in 0 .. MaxCancels
      BY <1>3, BoundsAssumption DEF RunInit, Attempts
    <2> QED
      BY <1>1, <2>2, <2>3, <2>4 DEF RunInit, RunTypeOK
  <1>5. \A n \in Nodes : ~Begun(n)
    BY DEF RunInit, Begun
  <1>6. Under = {}
    BY <1>5 DEF Under, RunInit
  <1>7. Cardinality(Under) = 0
    BY <1>6, FS_EmptySet
  <1>8. Taken /\ Accounted
    BY <1>5, <1>6 DEF RunInit, Taken, Accounted
  <1>9. Spent
    BY <1>3, <1>7 DEF RunInit, Spent
  <1>10. Standing
    BY DEF RunInit, Standing, InTree
  <1>11. Patched
    BY Graph DEF RunInit, Patched, EmptyTree
  <1> QED
    BY <1>4, <1>8, <1>9, <1>10, <1>11 DEF AgentsInv

\* Every step of the coordinator, of a child and of the user keeps the invariant.
LEMMA AgentsStep == AgentsInv /\ [RunNext]_runVars => AgentsInv'
  <1> SUFFICES ASSUME AgentsInv, [RunNext]_runVars PROVE AgentsInv'
    OBVIOUS
  <1> USE DEF AgentsInv
  <1>1. CASE RunNext
    <2>1. RunTypeOK' /\ Standing' /\ Patched'
      BY <1>1, TypeStep, StandingStep, PatchedStep
    <2>2. CASE TakeBatch
      BY <2>1, <2>2, TakeBatchKeeps
    <2>3. CASE ReportingNext
      BY <2>1, <2>3, StepReports, ReportingKeeps
    <2> QED
      BY <1>1, <2>2, <2>3 DEF RunNext, Coordinate, ReportingNext
  <1>2. CASE UNCHANGED runVars
    <2>1. Reporting /\ RunTypeOK' /\ Standing'
      BY <1>2 DEF runVars, control, Reporting, Begun, RunTypeOK, Standing, InTree, EditsInTree
    <2>2. Patched'
      BY <1>2 DEF runVars, control, Patched, EditsInTree, Finished, Patches
    <2> QED
      BY <2>1, <2>2, ReportingKeeps
  <1> QED
    BY <1>1, <1>2

\* A run keeps its account of what it took, began, reported and staged, for any requested
\* numbers of agents, any number of cancels and any number of edits.
THEOREM RunAccount == RunSpec => []AgentsInv
  BY AgentsInit, AgentsStep, PTL DEF RunSpec

\* No subagent starts on a guess: only over results, within the budget, and accounted for
\* when the run is done.
THEOREM AgentsStartOnResults == RunSpec => []StartsOnResults
  <1>1. AgentsInv => StartsOnResults
    <2> SUFFICES ASSUME AgentsInv PROVE StartsOnResults
      OBVIOUS
    <2> USE DEF AgentsInv
    <2>1. \A n \in Nodes : Begun(n) => Rests(n)
      BY DEF Accounted, Under
    <2>2. Cardinality({n \in Nodes : Begun(n)}) <= AgentBudget(ask)
      <3>1. {n \in Nodes : Begun(n)} \subseteq Under /\ Under \subseteq Nodes
        BY DEF Under, RunTypeOK
      <3>2. /\ Cardinality({n \in Nodes : Begun(n)}) <= Cardinality(Under)
            /\ Cardinality({n \in Nodes : Begun(n)}) \in Nat /\ Cardinality(Under) \in Nat
        BY <3>1, Countable, FS_Subset
      <3> QED
        BY <3>2, BudgetType DEF Spent, RunTypeOK
    <2>3. phase = "done" => \A n \in Nodes : Begun(n) => board[n] # "none"
      BY DEF Standing, Accounted
    <2> QED
      BY <2>1, <2>2, <2>3 DEF StartsOnResults, Rests
  <1> QED
    BY <1>1, RunAccount, PTL

\* A patch is the complete work of one attempt, and a run stages at most one.
THEOREM AgentsPatchIsOneAttempt == RunSpec => []PatchIsOneAttempt
  <1>1. AgentsInv => PatchIsOneAttempt
    <2> SUFFICES ASSUME AgentsInv PROVE PatchIsOneAttempt
      OBVIOUS
    <2> USE DEF AgentsInv
    <2>1. Cardinality(staged) <= 1
      <3>1. CASE staged = {}
        BY <3>1, FS_EmptySet
      <3>2. CASE \E p \in Patches : staged = {p}
        <4>1. PICK p \in Patches : staged = {p}
          BY <3>2
        <4>2. Cardinality({p}) = 1
          BY FS_Singleton
        <4> QED
          BY <4>1, <4>2
      <3> QED
        BY <3>1, <3>2 DEF Patched
    <2>2. phase \in {"batch", "done"} => "code_patch" \notin awaited
      BY DEF Standing
    <2> QED
      BY <2>1, <2>2 DEF PatchIsOneAttempt, Patched, TreeOf
  <1> QED
    BY <1>1, RunAccount, PTL
===============================================================================
