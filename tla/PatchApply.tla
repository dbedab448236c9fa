----------------------------- MODULE PatchApply ------------------------------
(***************************************************************************)
(* apply_patch_candidate with structured changes (tools/file_tools.py):    *)
(* validate the payload, take the workspace apply lock, snapshot every     *)
(* target, then for each file compare the digest on disk with the expected *)
(* one, write and compare again; check the set of applied paths; on any    *)
(* exception put the snapshot back; release the lock and answer.           *)
(*                                                                         *)
(* The lock keeps only pp-Echo's own applies apart.  An editor or a shell  *)
(* changes files at any moment (Edit); a process may die at any step.      *)
(***************************************************************************)
EXTENDS ApplyLock, Naturals, FiniteSets

CONSTANTS Path,
          Content,     \* digests of the file versions that occur
          Absent,      \* "no such file", as a digest of None
          Torn,        \* what a failed write leaves
          Candidates,  \* each candidate: path |-> [old, new]
          NoPath,
          MaxEdits     \* bound on edits from outside

ASSUME BoundAssumption == MaxEdits \in Nat

ASSUME CandidateAssumption ==
    /\ NoPath \notin Path
    /\ \A c \in Candidates : /\ DOMAIN c \subseteq Path
                             /\ \A f \in DOMAIN c : c[f].new \in Content \cup {Absent}

Versions == Content \cup {Absent, Torn}

VARIABLES files,      \* the workspace
          pc,         \* control point of each apply
          cand,       \* the approved candidate of each apply
          call,       \* locals of each apply: the snapshot, the changes still
                      \* to do and the path at hand
          outcome,    \* the answer returned to the approval gate
          seen,       \* history: the workspace when the lock was taken, and
                      \* whether somebody else edited it since
          edits       \* number of edits so far

applyVars == <<files, pc, cand, call, outcome, seen, edits>>
vars == <<lockFile, lk, applyVars>>

Points == {"validate", "acquire", "snapshot", "apply", "write", "verify",
           "restore", "release", "done", "dead"}
Inside == {"snapshot", "apply", "write", "verify", "restore", "release"}

Outcomes == [applied : BOOLEAN, atomic : BOOLEAN,
             lock : {"none", "held", "released", "left", "unsaid"}]

\* The three answers an apply can prepare, before the lock is released.
Applied    == [applied |-> TRUE,  atomic |-> TRUE,  lock |-> "held"]
RolledBack == [applied |-> FALSE, atomic |-> TRUE,  lock |-> "held"]
Partial    == [applied |-> FALSE, atomic |-> FALSE, lock |-> "held"]
\* Refused without the lock: bad payload, timeout, or an error of the lock.
Refused    == [applied |-> FALSE, atomic |-> TRUE,  lock |-> "none"]
\* No answer at all: an exception that says nothing of the lock.
Raised     == [applied |-> FALSE, atomic |-> TRUE,  lock |-> "unsaid"]

Targets(p) == DOMAIN cand[p]
NoFiles    == [f \in {} |-> Absent]
NoCall     == [snap |-> NoFiles, todo |-> {}, cur |-> NoPath]
NothingSeen == [base |-> NoFiles, disturbed |-> FALSE]

TypeOK == /\ LockTypeOK
          /\ files \in [Path -> Versions]
          /\ pc \in [Proc -> Points]
          /\ \A p \in Proc : /\ cand[p] \in Candidates
                             /\ DOMAIN call[p].snap \subseteq Targets(p)
                             /\ call[p].todo \subseteq Targets(p)
                             /\ call[p].cur \in Path \cup {NoPath}
                             /\ seen[p].disturbed \in BOOLEAN
          /\ outcome \in [Proc -> Outcomes]
          /\ edits \in 0 .. MaxEdits

Init == /\ LockInit
        /\ files \in [Path -> Content \cup {Absent}]
        /\ cand \in [Proc -> Candidates]
        /\ pc = [p \in Proc |-> "validate"]
        /\ call = [p \in Proc |-> NoCall]
        /\ outcome = [p \in Proc |-> Refused]
        /\ seen = [p \in Proc |-> NothingSeen]
        /\ edits = 0

Goto(p, point) == pc' = [pc EXCEPT ![p] = point]
Answer(p, o)   == outcome' = [outcome EXCEPT ![p] = o]

\* The call returns or dies: its locals are gone.
Forget(p) == /\ call' = [call EXCEPT ![p] = NoCall]
             /\ seen' = [seen EXCEPT ![p] = NothingSeen]

-----------------------------------------------------------------------------
(* Before the lock *)

\* _validate_structured_changes accepts the payload and its paths.
Validate(p) == /\ pc[p] = "validate"
               /\ Goto(p, "acquire")
               /\ StartPolling(p)
               /\ UNCHANGED <<files, cand, call, outcome, seen, edits>>

\* A path is protected, a symlink or out of scope: nothing was snapshotted,
\* so _rollback_patch_apply_failure has nothing to restore.
ValidateFails(p) == /\ pc[p] = "validate"
                    /\ Goto(p, "done")
                    /\ Answer(p, Refused)
                    /\ UNCHANGED <<lockVars, files, cand, call, seen, edits>>

Create(p) == CreateLock(p) /\ UNCHANGED applyVars

Locked(p) == /\ WriteToken(p)
             /\ Goto(p, "snapshot")
             /\ seen' = [seen EXCEPT ![p].base = files]
             /\ UNCHANGED <<files, cand, call, outcome, edits>>

NotLocked(p) == /\ GiveUp(p)
                /\ Goto(p, "done")
                /\ Answer(p, Refused)
                /\ Forget(p)
                /\ UNCHANGED <<files, cand, edits>>

\* A token that cannot be written is no error of the lock but an OSError, which
\* the handler does not catch.
TokenNotWritten(p) == /\ WriteTokenFails(p)
                      /\ Goto(p, "done")
                      /\ Answer(p, Raised)
                      /\ Forget(p)
                      /\ UNCHANGED <<files, cand, edits>>

-----------------------------------------------------------------------------
(* Under the lock *)

Snapshot(p) == /\ pc[p] = "snapshot"
               /\ call' = [call EXCEPT ![p].snap = [f \in Targets(p) |-> files[f]],
                                       ![p].todo = Targets(p)]
               /\ Goto(p, "apply")
               /\ UNCHANGED <<lockVars, files, cand, outcome, seen, edits>>

\* A target is too large, a directory or a symlink: the snapshot is dropped.
SnapshotFails(p) == /\ pc[p] = "snapshot"
                    /\ Goto(p, "release")
                    /\ Answer(p, RolledBack)
                    /\ UNCHANGED <<lockVars, files, cand, call, seen, edits>>

\* Mutant: only the existence of the target is compared.
MatchesExistence(p, f) == (files[f] = Absent) <=> (cand[p][f].old = Absent)

\* The version on disk is the one the sandbox started from ("added" expects
\* no file at all).
Matches(p, f) == files[f] = cand[p][f].old

Check(p, f) == /\ pc[p] = "apply"
               /\ f \in call[p].todo
               /\ IF Matches(p, f) THEN Goto(p, "write") ELSE Goto(p, "restore")
               /\ call' = [call EXCEPT ![p].cur = f]
               /\ UNCHANGED <<lockVars, files, cand, outcome, seen, edits>>

\* write_bytes, or unlink for a deletion, which is not read back.
Write(p) == /\ pc[p] = "write"
            /\ LET f == call[p].cur
               IN  /\ files' = [files EXCEPT ![f] = cand[p][f].new]
                   /\ call' = [call EXCEPT ![p].todo = @ \ {f}]
                   /\ Goto(p, IF cand[p][f].new = Absent THEN "apply" ELSE "verify")
            /\ UNCHANGED <<lockVars, cand, outcome, seen, edits>>

\* The write raises: before it touched the file, or after it truncated it.
WriteFails(p) == /\ pc[p] = "write"
                 /\ LET f == call[p].cur
                    IN  \E v \in {files[f], Torn} : files' = [files EXCEPT ![f] = v]
                 /\ Goto(p, "restore")
                 /\ UNCHANGED <<lockVars, cand, call, outcome, seen, edits>>

\* The file is read back and its digest compared.
Verify(p) == /\ pc[p] = "verify"
             /\ LET f == call[p].cur
                IN  Goto(p, IF files[f] = cand[p][f].new THEN "apply" ELSE "restore")
             /\ UNCHANGED <<lockVars, files, cand, call, outcome, seen, edits>>

\* _validate_post_apply_changes: every approved path was applied.
Finish(p) == /\ pc[p] = "apply"
             /\ call[p].todo = {}
             /\ Goto(p, "release")
             /\ Answer(p, Applied)
             /\ UNCHANGED <<lockVars, files, cand, call, seen, edits>>

\* A path stopped being valid while it was applied.
FinishFails(p) == /\ pc[p] = "apply"
                  /\ call[p].todo = {}
                  /\ Goto(p, "restore")
                  /\ UNCHANGED <<lockVars, files, cand, call, outcome, seen, edits>>

\* _restore_snapshot writes back one captured file after another.
RestoreOne(p, f) == /\ pc[p] = "restore"
                    /\ f \in DOMAIN call[p].snap
                    /\ files' = [files EXCEPT ![f] = call[p].snap[f]]
                    /\ call' = [call EXCEPT ![p].snap = [g \in DOMAIN @ \ {f} |-> @[g]]]
                    /\ UNCHANGED <<lockVars, pc, cand, outcome, seen, edits>>

Restored(p) == /\ pc[p] = "restore"
               /\ DOMAIN call[p].snap = {}
               /\ Goto(p, "release")
               /\ Answer(p, RolledBack)
               /\ UNCHANGED <<lockVars, files, cand, call, seen, edits>>

\* One write-back raises: the files after it keep what the apply left.
RestoreFails(p) == /\ pc[p] = "restore"
                   /\ DOMAIN call[p].snap # {}
                   /\ Goto(p, "release")
                   /\ Answer(p, Partial)
                   /\ UNCHANGED <<lockVars, files, cand, call, seen, edits>>

-----------------------------------------------------------------------------
(* _release_apply_lock *)

BeginRelease(p) == pc[p] = "release" /\ ReadToken(p) /\ UNCHANGED applyVars

Released(p) == /\ pc[p] = "release"
               /\ UnlinkLock(p)
               /\ Goto(p, "done")
               /\ Answer(p, [outcome[p] EXCEPT !.lock = "released"])
               /\ Forget(p)
               /\ UNCHANGED <<files, cand, edits>>

\* manual_cleanup_required
NotReleased(p) == /\ pc[p] = "release"
                  /\ ReleaseFails(p)
                  /\ Goto(p, "done")
                  /\ Answer(p, [outcome[p] EXCEPT !.lock = "left"])
                  /\ Forget(p)
                  /\ UNCHANGED <<files, cand, edits>>

-----------------------------------------------------------------------------
(* The world around *)

Crash(p) == /\ pc[p] \notin {"done", "dead"}
            /\ LoseHandle(p)
            /\ Goto(p, "dead")
            /\ Forget(p)
            /\ UNCHANGED <<files, cand, outcome, edits>>

ManualCleanUp == CleanUp /\ UNCHANGED applyVars

Edit(f, v) == /\ edits < MaxEdits
              /\ v # files[f]
              /\ files' = [files EXCEPT ![f] = v]
              /\ edits' = edits + 1
              /\ seen' = [p \in Proc |-> [seen[p] EXCEPT !.disturbed = @ \/ pc[p] \in Inside]]
              /\ UNCHANGED <<lockVars, pc, cand, call, outcome>>

Step(p) == \/ Validate(p) \/ ValidateFails(p)
           \/ Create(p) \/ Locked(p) \/ NotLocked(p) \/ TokenNotWritten(p)
           \/ Snapshot(p) \/ SnapshotFails(p)
           \/ \E f \in Path : Check(p, f)
           \/ Write(p) \/ WriteFails(p) \/ Verify(p)
           \/ Finish(p) \/ FinishFails(p)
           \/ \E f \in Path : RestoreOne(p, f)
           \/ Restored(p) \/ RestoreFails(p)
           \/ BeginRelease(p) \/ Released(p) \/ NotReleased(p)

Next == \/ \E p \in Proc : Step(p) \/ Crash(p)
        \/ ManualCleanUp
        \/ \E f \in Path, v \in Content \cup {Absent} : Edit(f, v)

Spec == Init /\ [][Next]_vars

\* Each process keeps running; nobody has to crash, edit or clean up.
FairSpec == Spec /\ \A p \in Proc : WF_vars(Step(p))

-----------------------------------------------------------------------------
(* Properties *)

\* Two applies never work on the workspace at the same time, however their
\* creations, timeouts, failed releases, crashes and clean-ups interleave
\* (the docstring of WorkspaceApplyLock).
OneWriter == \A p, q \in Proc : pc[p] \in Inside /\ pc[q] \in Inside => p = q

\* When an apply is about to answer "applied" and nobody edited meanwhile,
\* every target had the expected old version when the lock was taken and has
\* the approved new one now, and no other file changed.
AppliedIsWhole ==
    \A p \in Proc :
        pc[p] = "release" /\ outcome[p].applied /\ ~seen[p].disturbed =>
            /\ \A f \in Targets(p) : seen[p].base[f] = cand[p][f].old
            /\ files = [f \in Path |-> IF f \in Targets(p) THEN cand[p][f].new ELSE seen[p].base[f]]

\* When it is about to answer "not applied, atomic" the workspace is as the
\* lock found it, whichever step failed (rollback_succeeded, or no rollback
\* was needed).  A half-undone apply never claims to be atomic.
RefusedLeavesNothing ==
    \A p \in Proc :
        pc[p] = "release" /\ ~outcome[p].applied /\ outcome[p].atomic /\ ~seen[p].disturbed
            => files = seen[p].base

\* So an apply is all or nothing, and its answer says which.
AllOrNothing == AppliedIsWhole /\ RefusedLeavesNothing

\* A lock file nobody owns is the trace of a process that died, of an answer
\* that told the user to clean up (manual_cleanup_required), or of an apply that
\* raised before it held the lock.  The last one leaves the file without a word
\* (the swallowed unlink of acquire), but it was never inside: a lock that
\* guarded an apply is never given up silently.
LeftLockIsReported ==
    lockFile = Stale =>
        \E p \in Proc : \/ pc[p] = "dead"
                       \/ outcome[p].lock \in {"left", "unsaid"}

\* What the lock is for: it excludes, and one that guarded an apply is never
\* left behind unnoticed.
LockIsSound == OneWriter /\ LeftLockIsReported

\* The lock of a dead or failed apply guards the workspace it may have left
\* half-written: no apply writes a file or takes the lock over before a human
\* has removed it.
StaleBlocksWrites ==
    [][lockFile = Stale => /\ lockFile' \notin Proc
                           /\ edits' = edits => files' = files]_vars

\* Every apply that starts gets an answer, also when the lock is never
\* released: it times out.
EveryApplyAnswers ==
    \A p \in Proc : pc[p] = "validate" ~> pc[p] \in {"done", "dead"}
=============================================================================
