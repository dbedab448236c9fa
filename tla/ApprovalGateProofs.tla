------------------------- MODULE ApprovalGateProofs -------------------------
(***************************************************************************)
(* What holds of the approval gate for any number of hosts and tokens,     *)
(* with nothing locked and hosts crashing anywhere; and what holds beyond  *)
(* that as long as no two hosts work on the same token, which nothing in   *)
(* the code makes sure of.                                                 *)
(***************************************************************************)
EXTENDS ApprovalGate, TLAPS

\* A record, or a loaded copy of one, claims that its effect was executed.
Claims(r) == r.state = "grant_consumed" \/ r.grant = "consumed"

\* A handler that is at work holds a token that was staged, and the handler
\* that writes a file holds the token of a file effect.
Holding ==
  \A h \in Hosts :
    /\ pc[h] # "idle" => /\ tok[h] \in Tokens
                         /\ rec[tok[h]].state # "unstaged"
                         /\ buf[h].state # "unstaged"
    /\ pc[h] \in {"checkpoint", "open", "write"} => effect[tok[h]] \in FileEffects

\* A host about to consume a grant has executed the effect, and so has
\* someone if a copy claims it: the copy may overwrite the record later.
CopiesTruthful ==
  \A h \in Hosts : tok[h] \in Tokens /\ (Claims(buf[h]) \/ pc[h] = "consume")
                   => done[tok[h]] > 0

IInv == TypeOK /\ Holding /\ ConsumedMeansExecuted /\ CopiesTruthful

-----------------------------------------------------------------------------
\* The blank record of a caller outside a call is well typed and claims nothing.
LEMMA NoRecordIsRecord == NoRecord \in Record /\ ~Claims(NoRecord)
  BY DEF NoRecord, Record, States, Grants, Claims

\* The invariant holds of an empty store.
LEMMA InitInv == Init => IInv
  BY BoundsAssumption, NoRecordIsRecord
  DEF Init, IInv, TypeOK, Holding, ConsumedMeansExecuted, CopiesTruthful, Claims,
      Contents, Pcs, NoRecord

\* Every alteration keeps a record a record, and only SetConsumed makes a
\* claim that was not there.
LEMMA Alterations ==
  ASSUME NEW r \in Record
  PROVE  /\ SetConsumed(r) \in Record
         /\ \A s \in {SetExpired(r), SetStarted(r), SetFailed(r),
                      SetInvalidated(r), SetRejected(r)} :
              s \in Record /\ (Claims(s) => Claims(r))
         /\ \A s \in {SetExpired(r), SetStarted(r), SetFailed(r), SetConsumed(r),
                      SetInvalidated(r), SetRejected(r)} : s.state # "unstaged"
  BY DEF Record, States, Active, Grants, SetExpired, SetStarted, SetFailed,
     SetConsumed, SetInvalidated, SetRejected, Claims

\* Loading a truthful copy, or moving on with the copy unchanged.
LEMMA LoadKeepsInv ==
  ASSUME IInv, NEW h \in Hosts, NEW t \in Tokens, NEW r \in Record,
         NEW to \in Pcs \ {"idle", "checkpoint", "open", "write"},
         rec[t].state # "unstaged", r.state # "unstaged",
         Claims(r) \/ to = "consume" => done[t] > 0,
         buf' = [buf EXCEPT ![h] = r], tok' = [tok EXCEPT ![h] = t], Goto(h, to),
         UNCHANGED <<store, world, crashes, edits, hist>>
  PROVE  IInv'
  BY DEF IInv, TypeOK, Holding, ConsumedMeansExecuted, CopiesTruthful, Claims,
     Goto, store, world, hist

\* Saving a copy and moving on.
LEMMA SaveKeepsInv ==
  ASSUME IInv, NEW h \in Hosts, pc[h] # "idle", Save(h),
         NEW to \in Pcs \ {"idle", "consume"}, Goto(h, to),
         to \in {"checkpoint", "open", "write"} => effect[tok[h]] \in FileEffects,
         UNCHANGED <<effect, before, late, file, audit, tok, buf, crashes, edits,
                     runs, done>>,
         ckpts' \in SUBSET Tokens, refused' \in SUBSET Tokens
  PROVE  IInv'
  BY DEF IInv, TypeOK, Holding, ConsumedMeansExecuted, CopiesTruthful, Claims,
     Goto, Save

\* Saving a copy, or nothing, and becoming idle.
LEMMA ReleaseKeepsInv ==
  ASSUME IInv, NEW h \in Hosts, pc[h] # "idle", Save(h) \/ rec' = rec, Release(h),
         UNCHANGED <<effect, before, late, file, ckpts, audit, runs, done, refused>>,
         crashes' \in Nat, edits' \in Nat
  PROVE  IInv'
  BY NoRecordIsRecord
  DEF IInv, TypeOK, Holding, ConsumedMeansExecuted, CopiesTruthful, Claims,
     Release, Goto, Save, Pcs

\* Changing the world, the clock or the counters alone.
LEMMA WorldKeepsInv ==
  ASSUME IInv, UNCHANGED <<rec, effect, before, audit, local, done, runs, refused>>,
         late' \in SUBSET Tokens, ckpts' \in SUBSET Tokens, file' \in Contents,
         crashes' \in Nat, edits' \in Nat
  PROVE  IInv'
  BY DEF IInv, TypeOK, Holding, ConsumedMeansExecuted, CopiesTruthful, Claims, local

\* Moving on while the file, or the execution counts, change.
LEMMA RunKeepsInv ==
  ASSUME IInv, NEW h \in Hosts, pc[h] # "idle",
         NEW to \in Pcs \ {"idle"}, Goto(h, to),
         to \in {"checkpoint", "open", "write"} => effect[tok[h]] \in FileEffects,
         UNCHANGED <<store, ckpts, tok, buf, crashes, edits, refused>>,
         file' \in Contents,
         runs' \in {runs, [runs EXCEPT ![tok[h]] = @ + 1]},
         \/ done' = done /\ to # "consume"
         \/ done' = [done EXCEPT ![tok[h]] = @ + 1]
  PROVE  IInv'
  BY DEF IInv, TypeOK, Holding, ConsumedMeansExecuted, CopiesTruthful, Claims,
     Goto, store

-----------------------------------------------------------------------------
\* One step of one handler.
LEMMA HostStepKeepsInv ==
  ASSUME IInv, NEW h \in Hosts, HostStep(h)
  PROVE  IInv'
<1> DEFINE t == tok[h]
<1>typ. TypeOK
  BY DEF IInv
<1>busy. pc[h] # "idle"
  BY DEF HostStep, ExpireLoad, ExpireSave, AttachGrant, Reload, Validate,
     InvalidateLoad, InvalidateSave, ShellBlocked, StartLoad, StartSave, Checkpoint,
     OpenFile, WriteFile, BeginRun, RunSucceeds, ExecutorFails, ConsumeLoad,
     ConsumeSave, FailLoad, FailSave, AuditLoad, AuditSave, RejectSave, LoadThen,
     SaveThen
<1>tok. /\ t \in Tokens /\ rec[t] \in Record /\ buf[h] \in Record
        /\ rec[t].state # "unstaged" /\ buf[h].state # "unstaged"
  BY <1>typ, <1>busy DEF TypeOK, Holding, IInv
<1>own. tok = [tok EXCEPT ![h] = t] /\ done[t] \in Nat
  BY <1>typ, <1>tok DEF TypeOK
<1>file. pc[h] \in {"checkpoint", "open", "write"} => effect[t] \in FileEffects
  BY DEF IInv, Holding
<1>claim. Claims(rec[t]) => done[t] > 0
  BY <1>tok DEF IInv, ConsumedMeansExecuted, Claims
<1>copy. Claims(buf[h]) \/ pc[h] = "consume" => done[t] > 0
  BY <1>tok DEF IInv, CopiesTruthful
<1>pcs. /\ {"expire_save", "reload", "validate", "invalidate", "invalidate_save",
             "start", "start_save", "run", "wait", "consume", "consume_save",
             "fail", "fail_save", "audit", "audit_save"}
             \subseteq Pcs \ {"idle", "checkpoint", "open", "write"}
        /\ {"checkpoint", "open", "write"} \subseteq Pcs \ {"idle", "consume"}
  BY DEF Pcs
<1>1. CASE ExpireLoad(h)
  <2>1. /\ SetExpired(rec[t]) \in Record /\ SetExpired(rec[t]).state # "unstaged"
        /\ Claims(SetExpired(rec[t])) => done[t] > 0
    BY <1>tok, <1>claim, Alterations
  <2> QED BY <1>1, <2>1, <1>tok, <1>own, <1>pcs, LoadKeepsInv DEF ExpireLoad, LoadThen, OnDisk
<1>2. CASE Reload(h)
  BY <1>2, <1>tok, <1>own, <1>claim, <1>pcs, LoadKeepsInv DEF Reload, LoadThen, OnDisk
<1>3. CASE InvalidateLoad(h)
  <2>1. /\ SetInvalidated(rec[t]) \in Record /\ SetInvalidated(rec[t]).state # "unstaged"
        /\ Claims(SetInvalidated(rec[t])) => done[t] > 0
    BY <1>tok, <1>claim, Alterations
  <2> QED BY <1>3, <2>1, <1>tok, <1>own, <1>pcs, LoadKeepsInv DEF InvalidateLoad, LoadThen, OnDisk
<1>4. CASE StartLoad(h)
  <2>1. /\ SetStarted(rec[t]) \in Record /\ SetStarted(rec[t]).state # "unstaged"
        /\ Claims(SetStarted(rec[t])) => done[t] > 0
    BY <1>tok, <1>claim, Alterations
  <2> QED BY <1>4, <2>1, <1>tok, <1>own, <1>pcs, LoadKeepsInv DEF StartLoad, LoadThen, OnDisk
<1>5. CASE FailLoad(h)
  <2>1. /\ SetFailed(rec[t]) \in Record /\ SetFailed(rec[t]).state # "unstaged"
        /\ Claims(SetFailed(rec[t])) => done[t] > 0
    BY <1>tok, <1>claim, Alterations
  <2> QED BY <1>5, <2>1, <1>tok, <1>own, <1>pcs, LoadKeepsInv DEF FailLoad, LoadThen, OnDisk
\* The one load that makes a claim happens after the execution.
<1>6. CASE ConsumeLoad(h)
  <2>1. /\ SetConsumed(rec[t]) \in Record /\ SetConsumed(rec[t]).state # "unstaged"
        /\ done[t] > 0
    BY <1>6, <1>tok, <1>copy, Alterations DEF ConsumeLoad, LoadThen
  <2> QED BY <1>6, <2>1, <1>tok, <1>own, <1>pcs, LoadKeepsInv DEF ConsumeLoad, LoadThen, OnDisk
<1>7. CASE AttachGrant(h) \/ InvalidateSave(h) \/ StartSave(h) \/ ConsumeSave(h)
           \/ FailSave(h)
  <2>1. ckpts' \in SUBSET Tokens /\ refused' \in SUBSET Tokens
    BY <1>7, <1>typ DEF AttachGrant, InvalidateSave, StartSave, ConsumeSave, FailSave,
       SaveThen, TypeOK, world, hist
  <2> QED BY <1>7, <2>1, <1>busy, <1>pcs, SaveKeepsInv
      DEF AttachGrant, InvalidateSave, StartSave, ConsumeSave, FailSave, SaveThen,
          IsFile, world, hist
<1>8. CASE Checkpoint(h)
  BY <1>8, <1>typ, <1>tok, <1>file, <1>busy, <1>pcs, SaveKeepsInv
  DEF Checkpoint, TypeOK, hist
<1>9. CASE RejectSave(h)
  BY <1>9, <1>typ, <1>tok, <1>busy, <1>pcs, SaveKeepsInv DEF RejectSave, TypeOK, world
<1>10. CASE ExpireSave(h) \/ AuditSave(h) \/ ShellBlocked(h)
  BY <1>10, <1>typ, <1>busy, ReleaseKeepsInv
  DEF ExpireSave, AuditSave, ShellBlocked, TypeOK, store, world, hist
<1>11. CASE Validate(h)
  BY <1>11, <1>typ, <1>busy, <1>pcs, RunKeepsInv DEF Validate, TypeOK, world, hist
<1>12. CASE OpenFile(h) \/ BeginRun(h) \/ ExecutorFails(h)
  BY <1>12, <1>typ, <1>file, <1>busy, <1>pcs, RunKeepsInv
  DEF OpenFile, BeginRun, ExecutorFails, TypeOK, Contents, world, hist
<1>13. CASE RunSucceeds(h)
  BY <1>13, <1>typ, <1>busy, <1>pcs, RunKeepsInv DEF RunSucceeds, TypeOK, world
<1>14. CASE WriteFile(h)
  BY <1>14, <1>typ, <1>file, <1>busy, <1>pcs, RunKeepsInv
  DEF WriteFile, TypeOK, Contents, Effects
<1>15. CASE AuditLoad(h)
  BY <1>15, <1>typ, <1>tok, <1>claim, <1>copy, <1>pcs
  DEF AuditLoad, OnDisk, IInv, TypeOK, Holding, ConsumedMeansExecuted, CopiesTruthful,
      Claims, Goto, world, hist, Record
<1> QED
  BY <1>1, <1>2, <1>3, <1>4, <1>5, <1>6, <1>7, <1>8, <1>9, <1>10, <1>11, <1>12,
     <1>13, <1>14, <1>15 DEF HostStep

\* Every step keeps the invariant.
LEMMA StepKeepsInv == IInv /\ [Next]_vars => IInv'
<1> SUFFICES ASSUME IInv, [Next]_vars PROVE IInv'
  OBVIOUS
<1>typ. TypeOK
  BY DEF IInv
<1>1. ASSUME NEW t \in Tokens, NEW e \in Effects, Stage(t, e) PROVE IInv'
  BY <1>1, <1>typ DEF Stage, IInv, TypeOK, Holding, ConsumedMeansExecuted,
     CopiesTruthful, Claims, local, world, hist, Record, States, Active, Grants, Staged,
     Effects, Contents
<1>2. ASSUME NEW t \in Tokens, ExpiryPasses(t) PROVE IInv'
  BY <1>2, <1>typ, WorldKeepsInv DEF ExpiryPasses, TypeOK, world, hist
<1>3. CASE ExternalEdit
  BY <1>3, <1>typ, WorldKeepsInv DEF ExternalEdit, TypeOK, Contents, store, hist
<1>4. ASSUME NEW h \in Hosts, Crash(h) PROVE IInv'
  BY <1>4, <1>typ, ReleaseKeepsInv DEF Crash, TypeOK, store, world, hist
<1>5. ASSUME NEW h \in Hosts, NEW t \in Tokens, Approve(h, t) PROVE IInv'
  <2> DEFINE g == [state |-> "grant_attached", grant |-> "active"]
  <2>1. rec[t] \in Record /\ g \in Record /\ ~Claims(g) /\ g.state # "unstaged"
    BY <1>typ DEF TypeOK, Record, States, Active, Grants, Claims
  <2>2. /\ Claims(rec[t]) => done[t] > 0
        /\ {"expire", "attach_save", "validate"} \subseteq
             Pcs \ {"idle", "consume", "checkpoint", "open", "write"}
    BY DEF IInv, ConsumedMeansExecuted, Claims, Pcs
  <2> QED
    BY <1>5, <2>1, <2>2, LoadKeepsInv DEF Approve, Staged
<1>6. ASSUME NEW h \in Hosts, NEW t \in Tokens, Reject(h, t) PROVE IInv'
  <2>1. rec[t] \in Record /\ (Claims(rec[t]) => done[t] > 0)
    BY <1>typ DEF TypeOK, IInv, ConsumedMeansExecuted, Claims
  <2>2. /\ SetRejected(rec[t]) \in Record /\ SetRejected(rec[t]).state # "unstaged"
        /\ Claims(SetRejected(rec[t])) => done[t] > 0
    BY <2>1, Alterations
  <2>3. "reject_save" \in Pcs \ {"idle", "consume", "checkpoint", "open", "write"}
    BY DEF Pcs
  <2> QED BY <1>6, <2>2, <2>3, LoadKeepsInv DEF Reject, Staged
<1>7. ASSUME NEW h \in Hosts, NEW t \in Tokens, Rollback(h, t) PROVE IInv'
  BY <1>7, <1>typ, WorldKeepsInv DEF Rollback, TypeOK, store, hist
<1>8. CASE UNCHANGED vars
  BY <1>8, <1>typ, WorldKeepsInv DEF vars, TypeOK, store, world, hist
<1> QED
  BY <1>1, <1>2, <1>3, <1>4, <1>5, <1>6, <1>7, <1>8, HostStepKeepsInv DEF Next

-----------------------------------------------------------------------------
\* The variables keep their types, for every number of hosts and tokens.
THEOREM TypeCorrect == Spec => []TypeOK
<1>1. IInv => TypeOK
  BY DEF IInv
<1> QED BY InitInv, StepKeepsInv, <1>1, PTL DEF Spec

\* Whatever stale copies of a record unlocked hosts save over each other and
\* wherever they crash, a record, a grant or an audit file says "consumed"
\* only of an effect that was executed successfully.
THEOREM ConsumedIsTruthful == Spec => []ConsumedMeansExecuted
<1>1. IInv => ConsumedMeansExecuted
  BY DEF IInv
<1> QED BY InitInv, StepKeepsInv, <1>1, PTL DEF Spec

-----------------------------------------------------------------------------
(* One host at a time.  Nothing in the code keeps two hosts from working on *)
(* the same token; as long as no two do, a token has at most one worker,    *)
(* whose position and copy say how its record stands, and the record says   *)
(* what the effect has come to when nobody works on it.                     *)

\* No two hosts work on the same token.
OneAtATime ==
  \A h, g \in Hosts : tok[h] = tok[g] /\ tok[h] # NoToken => h = g

Approvable == Active \cup {"execution_failed"}
\* A token in one of these states is never run any more.
Over == {"execution_in_progress", "grant_consumed", "rejected", "expired"}
Voided == {"rejected", "expired"}

\* The states s of the record and b of the copy while its worker stands at p.
Copy(p, s, b) ==
  /\ p \in {"attach_save", "validate", "invalidate", "invalidate_save", "start", "start_save"}
       => s \in Approvable
  /\ p = "attach_save" => b = "grant_attached"
  /\ p = "reload" => s = "grant_attached"
  /\ p = "invalidate_save" => b = "grant_invalidated"
  /\ p \in {"checkpoint", "open", "write", "run", "wait", "consume", "consume_save",
             "fail", "fail_save"} => s = "execution_in_progress"
  /\ p \in {"start_save", "checkpoint"} => b = "execution_in_progress"
  /\ p = "fail_save" => b = "execution_failed"
  /\ p = "consume_save" => b = "grant_consumed"
  /\ p = "expire_save" => b = "expired"
  /\ p = "reject_save" => b = "rejected"
  /\ p \in {"audit", "audit_save"} => b = s

\* On the way to an execution and to recording a failure nothing was executed;
\* on the way to recording a success it was, once.
Counted(p, n) ==
  /\ p \in {"attach_save", "reload", "validate", "invalidate", "invalidate_save", "start",
             "start_save", "checkpoint", "open", "write", "run", "wait", "fail",
             "fail_save"} => n = 0
  /\ p \in {"consume", "consume_save"} => n = 1

AtWork(h) ==
  /\ pc[h] = "idle" <=> tok[h] = NoToken
  /\ tok[h] # NoToken =>
       /\ Copy(pc[h], rec[tok[h]].state, buf[h].state)
       /\ Counted(pc[h], done[tok[h]])
       /\ pc[h] \in {"expire", "expire_save"} => tok[h] \in late

Settled(t) ==
  /\ done[t] \in {0, 1}
  /\ done[t] = 1 => rec[t].state \in Over
  /\ t \in refused => rec[t].state \in Voided
  /\ t \in late => rec[t].state # "unstaged"

LInv == (\A h \in Hosts : AtWork(h)) /\ (\A t \in Tokens : Settled(t))

\* Status from the position of the only worker, the state of the record, the
\* number of executions and whether the token has expired.
View(t, p, s, n) ==
  IF n = 1 THEN "used"
  ELSE IF p \in {"write", "wait"} THEN "running"
  ELSE IF s = "unstaged" THEN "unasked"
  ELSE IF \/ p \in {"attach_save", "reload", "validate", "start", "start_save",
                    "checkpoint", "open", "run", "fail", "fail_save"}
          \/ s \in Approvable /\ t \notin late
  THEN "waiting" ELSE "void"

\* What the abstract specification lets happen to a token.
Allowed(x, y) ==
  \/ x = y
  \/ x = "unasked" /\ y = "waiting"
  \/ x = "waiting" /\ y \in {"running", "void"}
  \/ x = "running" /\ y \in {"used", "waiting", "void"}

\* The worker's position decides the status of its token, the record that of a
\* token nobody works on.
Seen ==
  \A t \in Tokens :
    /\ \A h \in Hosts : tok[h] = t =>
         Status(t) = View(t, pc[h], rec[t].state, done[t])
    /\ (\A h \in Hosts : tok[h] # t) =>
         Status(t) = View(t, "idle", rec[t].state, done[t])

\* The status is what the worker and the record show, whoever the worker is.
LEMMA Viewed == TypeOK /\ OneAtATime /\ LInv => Seen
<1> SUFFICES ASSUME TypeOK, OneAtATime, LInv, NEW t \in Tokens
             PROVE  /\ \A h \in Hosts : tok[h] = t =>
                         Status(t) = View(t, pc[h], rec[t].state, done[t])
                    /\ (\A h \in Hosts : tok[h] # t) =>
                         Status(t) = View(t, "idle", rec[t].state, done[t])
  BY DEF Seen
<1>1. done[t] \in {0, 1} /\ t # NoToken /\ (t \notin Staged <=> rec[t].state = "unstaged")
  BY EffectsAssumption DEF LInv, Settled, Staged
<1>2. ASSUME NEW h \in Hosts, tok[h] = t
      PROVE  Status(t) = View(t, pc[h], rec[t].state, done[t])
  <2>1. \A g \in Hosts : tok[g] = t <=> g = h
    BY <1>1, <1>2 DEF OneAtATime
  <2> DEFINE Holds(P) == \E g \in Hosts : tok[g] = t /\ pc[g] \in P
  <2>2. \A P : Holds(P) <=> pc[h] \in P
    BY <1>2, <2>1
  <2>3. CASE done[t] = 1
    BY <1>1, <2>3 DEF Status, View
  <2>4. CASE done[t] = 0 /\ pc[h] \in {"write", "wait"}
    BY <1>1, <1>2, <2>4 DEF Status, View
  <2>5. CASE done[t] = 0 /\ pc[h] \notin {"write", "wait"} /\ t \notin Staged
    BY <1>1, <2>1, <2>5 DEF Status, View
  <2>6. CASE done[t] = 0 /\ pc[h] \notin {"write", "wait"} /\ t \in Staged
    BY <1>1, <1>2, <2>1, <2>6 DEF Status, View, Approvable
  <2> QED
    BY <1>1, <2>3, <2>4, <2>5, <2>6
<1>3. ASSUME \A h \in Hosts : tok[h] # t
      PROVE  Status(t) = View(t, "idle", rec[t].state, done[t])
  <2>1. CASE done[t] = 1
    BY <1>1, <2>1 DEF Status, View
  <2>2. CASE done[t] = 0 /\ t \notin Staged
    BY <1>1, <1>3, <2>2 DEF Status, View
  <2>3. CASE done[t] = 0 /\ t \in Staged
    BY <1>1, <1>3, <2>3 DEF Status, View, Approvable
  <2> QED
    BY <1>1, <2>1, <2>2, <2>3
<1> QED
  BY <1>2, <1>3 DEF Seen

\* One token makes an allowed move, the others none, and the invariant goes on.
Moves(t) ==
  /\ LInv'
  /\ \A u \in Tokens \ {t} : Status(u)' = Status(u)
  /\ Allowed(Status(t), Status(t)')

\* A token whose record, worker and expiry stay the same keeps its status.
LEMMA Bystander ==
  ASSUME Seen, Seen', NEW u \in Tokens,
         \A g \in Hosts : /\ tok[g] = u <=> tok'[g] = u
                          /\ tok[g] = u => pc'[g] = pc[g],
         rec'[u] = rec[u], done'[u] = done[u], u \in late' <=> u \in late
  PROVE  Status(u)' = Status(u)
<1>1. CASE \E g \in Hosts : tok[g] = u
  <2>1. PICK g \in Hosts : tok[g] = u
    BY <1>1
  <2>2. Status(u) = View(u, pc[g], rec[u].state, done[u])
    BY <2>1 DEF Seen
  <2>3. Status(u)' = View(u, pc'[g], rec'[u].state, done'[u])
    BY <2>1 DEF Seen, View
  <2> QED
    BY <2>1, <2>2, <2>3
<1>2. CASE \A g \in Hosts : tok[g] # u
  <2>1. Status(u) = View(u, "idle", rec[u].state, done[u])
    BY <1>2 DEF Seen
  <2>2. Status(u)' = View(u, "idle", rec'[u].state, done'[u])
    BY <1>2 DEF Seen, View
  <2> QED
    BY <2>1, <2>2
<1> QED
  BY <1>1, <1>2

\* The step of the worker h of t concerns nobody else and no other token.
OnlyOf(h, t) ==
  /\ tok' = tok /\ late' = late
  /\ \A g \in Hosts \ {h} : pc'[g] = pc[g] /\ buf'[g] = buf[g]
  /\ \A u \in Tokens \ {t} : rec'[u] = rec[u] /\ done'[u] = done[u]

\* A worker goes on with the token it works on.
LEMMA Stay ==
  ASSUME TypeOK, TypeOK', OneAtATime, LInv, NEW h \in Hosts, NEW t \in Tokens, tok[h] = t,
         OnlyOf(h, t), pc'[h] # "idle", refused' \in {refused, refused \cup {t}},
         done'[t] \in {0, 1}, Copy(pc'[h], rec'[t].state, buf'[h].state),
         Counted(pc'[h], done'[t]), done'[t] = 1 => rec'[t].state \in Over,
         pc'[h] \in {"expire", "expire_save"} => t \in late,
         t \in refused' => rec'[t].state \in Voided, rec'[t].state # "unstaged",
         Allowed(View(t, pc[h], rec[t].state, done[t]),
                 View(t, pc'[h], rec'[t].state, done'[t]))
  PROVE  Moves(t)
<1>1. /\ t # NoToken
      /\ \A g \in Hosts \ {h} : pc'[g] = pc[g] /\ buf'[g] = buf[g]
      /\ \A u \in Tokens \ {t} : rec'[u] = rec[u] /\ done'[u] = done[u]
      /\ tok' = tok /\ late' = late
  BY EffectsAssumption DEF OnlyOf
<1>2. \A g \in Hosts \ {h} : tok[g] # t /\ tok[g] \in Tokens \cup {NoToken}
  BY <1>1 DEF OneAtATime, TypeOK
<1>3. ASSUME NEW g \in Hosts PROVE AtWork(g)'
  <2>1. CASE g = h
    BY <1>1, <2>1 DEF AtWork
  <2>2. CASE g # h
    BY <1>1, <1>2, <2>2 DEF AtWork, LInv
  <2> QED
    BY <2>1, <2>2
<1>4. ASSUME NEW u \in Tokens PROVE Settled(u)'
  <2>1. CASE u = t
    BY <1>1, <2>1 DEF Settled
  <2>2. CASE u # t
    BY <1>1, <2>2 DEF Settled, LInv
  <2> QED
    BY <2>1, <2>2
<1>5. LInv' /\ OneAtATime'
  BY <1>1, <1>3, <1>4 DEF LInv, OneAtATime
<1>6. Seen'
  BY <1>5, Viewed, PTL
<1>7. Status(t) = View(t, pc[h], rec[t].state, done[t])
  BY Viewed DEF Seen
<1>8. Status(t)' = View(t, pc'[h], rec'[t].state, done'[t])
  BY <1>1, <1>6 DEF Seen, View
<1>9. ASSUME NEW u \in Tokens \ {t} PROVE Status(u)' = Status(u)
  <2>1. \A g \in Hosts : tok[g] = u => pc'[g] = pc[g]
    BY <1>1
  <2>2. Seen
    BY Viewed
  <2> QED
    BY <1>1, <1>6, <2>1, <2>2, Bystander
<1> QED
  BY <1>5, <1>7, <1>8, <1>9 DEF Moves

\* A worker leaves the token alone, with the record r behind.
LEMMA Quit ==
  ASSUME TypeOK, TypeOK', OneAtATime, LInv, NEW h \in Hosts, NEW t \in Tokens, tok[h] = t,
         NEW r \in Record, Release(h), rec' = [rec EXCEPT ![t] = r],
         UNCHANGED <<done, late, refused>>,
         done[t] = 1 => r.state \in Over, t \in refused => r.state \in Voided,
         r.state # "unstaged",
         Allowed(View(t, pc[h], rec[t].state, done[t]), View(t, "idle", r.state, done[t]))
  PROVE  Moves(t)
<1>1. /\ pc'[h] = "idle" /\ tok'[h] = NoToken /\ rec'[t] = r /\ t # NoToken
      /\ \A g \in Hosts \ {h} : pc'[g] = pc[g] /\ buf'[g] = buf[g] /\ tok'[g] = tok[g]
      /\ \A u \in Tokens \ {t} : rec'[u] = rec[u]
  BY EffectsAssumption DEF TypeOK, Release, Goto
<1>2. \A g \in Hosts \ {h} : tok[g] # t /\ tok[g] \in Tokens \cup {NoToken}
  BY <1>1 DEF OneAtATime, TypeOK
<1>3. ASSUME NEW g \in Hosts PROVE AtWork(g)'
  <2>1. CASE g = h
    BY <1>1, <2>1 DEF AtWork
  <2>2. CASE g # h
    BY <1>1, <1>2, <2>2 DEF AtWork, LInv
  <2> QED
    BY <2>1, <2>2
<1>4. ASSUME NEW u \in Tokens PROVE Settled(u)'
  BY <1>1 DEF Settled, LInv
<1>5. LInv' /\ OneAtATime'
  BY <1>1, <1>3, <1>4 DEF LInv, OneAtATime
<1>6. Seen /\ Seen'
  BY <1>5, Viewed, PTL
<1>7. Status(t) = View(t, pc[h], rec[t].state, done[t])
  BY <1>6 DEF Seen
<1>8. Status(t)' = View(t, "idle", r.state, done[t])
  <2>1. \A g \in Hosts : tok'[g] # t
    BY <1>1, <1>2
  <2> QED
    BY <1>1, <1>6, <2>1 DEF Seen, View
<1>9. ASSUME NEW u \in Tokens \ {t} PROVE Status(u)' = Status(u)
  <2>1. \A g \in Hosts : /\ tok[g] = u <=> tok'[g] = u
                         /\ tok[g] = u => pc'[g] = pc[g]
    BY <1>1, EffectsAssumption
  <2> QED
    BY <1>1, <1>6, <2>1, Bystander
<1> QED
  BY <1>5, <1>7, <1>8, <1>9 DEF Moves

\* An idle host takes the token t up, and loads a copy b of its record.
LEMMA TakeUp ==
  ASSUME TypeOK, TypeOK', OneAtATime, OneAtATime', LInv, NEW h \in Hosts, NEW t \in Tokens,
         pc[h] = "idle", NEW p \in Pcs \ {"idle"}, NEW b \in Record,
         pc' = [pc EXCEPT ![h] = p], tok' = [tok EXCEPT ![h] = t],
         buf' = [buf EXCEPT ![h] = b], UNCHANGED <<rec, done, late, refused>>,
         Copy(p, rec[t].state, b.state), Counted(p, done[t]),
         p \in {"expire", "expire_save"} => t \in late,
         Allowed(View(t, "idle", rec[t].state, done[t]), View(t, p, rec[t].state, done[t]))
  PROVE  Moves(t)
<1>1. /\ pc'[h] = p /\ tok'[h] = t /\ buf'[h] = b /\ t # NoToken
      /\ \A g \in Hosts \ {h} : pc'[g] = pc[g] /\ buf'[g] = buf[g] /\ tok'[g] = tok[g]
  BY EffectsAssumption DEF TypeOK
<1>2. tok[h] = NoToken /\ \A g \in Hosts \ {h} : tok[g] # t
  BY <1>1 DEF OneAtATime, LInv, AtWork
<1>3. ASSUME NEW g \in Hosts PROVE AtWork(g)'
  <2>1. CASE g = h
    BY <1>1, <2>1 DEF AtWork
  <2>2. CASE g # h
    BY <1>1, <2>2 DEF AtWork, LInv
  <2> QED
    BY <2>1, <2>2
<1>4. LInv'
  BY <1>3 DEF LInv, Settled
<1>5. Seen /\ Seen'
  BY <1>4, Viewed, PTL
<1>6. \A g \in Hosts : tok[g] # t
  BY <1>1, <1>2
<1>7. Status(t) = View(t, "idle", rec[t].state, done[t])
  BY <1>5, <1>6 DEF Seen
<1>8. Status(t)' = View(t, p, rec[t].state, done[t])
  BY <1>1, <1>5 DEF Seen, View
<1>9. ASSUME NEW u \in Tokens \ {t} PROVE Status(u)' = Status(u)
  <2>1. \A g \in Hosts : /\ tok[g] = u <=> tok'[g] = u
                         /\ tok[g] = u => pc'[g] = pc[g]
    BY <1>1, <1>2, EffectsAssumption
  <2> QED
    BY <1>5, <2>1, Bystander
<1> QED
  BY <1>4, <1>7, <1>8, <1>9 DEF Moves

\* Nobody's position changes: a token is staged, expires or is left alone.
LEMMA Aside ==
  ASSUME TypeOK, TypeOK', OneAtATime, LInv, NEW t \in Tokens,
         UNCHANGED <<local, done, refused>>, late \subseteq late', late' \subseteq late \cup {t},
         NEW r \in Record, rec' = [rec EXCEPT ![t] = r],
         r = rec[t] \/ (rec[t].state = "unstaged" /\ r.state # "unstaged" /\ late' = late),
         rec[t].state = "unstaged" => t \notin late' /\ \A h \in Hosts : tok[h] # t,
         rec[t].state = "unstaged" /\ r # rec[t] => r.state \in Approvable
  PROVE  Moves(t)
<1>1. /\ rec'[t] = r /\ \A u \in Tokens \ {t} : rec'[u] = rec[u]
      /\ \A g \in Hosts : pc'[g] = pc[g] /\ tok'[g] = tok[g] /\ buf'[g] = buf[g]
  BY DEF TypeOK, local
<1>2. ASSUME NEW g \in Hosts PROVE AtWork(g)'
  BY <1>1 DEF LInv, AtWork, TypeOK
<1>3. ASSUME NEW u \in Tokens PROVE Settled(u)'
  BY <1>1 DEF LInv, Settled, Over, Voided
<1>4. LInv' /\ OneAtATime'
  BY <1>1, <1>2, <1>3 DEF LInv, OneAtATime
<1>5. Seen /\ Seen'
  BY <1>4, Viewed, PTL
<1>6. ASSUME NEW u \in Tokens \ {t} PROVE Status(u)' = Status(u)
  <2>1. u \in late' <=> u \in late
    OBVIOUS
  <2> QED
    BY <1>1, <1>5, <2>1, Bystander
<1>7. Allowed(Status(t), Status(t)')
  <2>1. CASE \E g \in Hosts : tok[g] = t
    <3>1. PICK g \in Hosts : tok[g] = t
      BY <2>1
    <3>2. Status(t) = View(t, pc[g], rec[t].state, done[t])
      BY <1>5, <3>1 DEF Seen
    <3>3. Status(t)' = View(t, pc[g], rec[t].state, done[t])'
      BY <1>1, <1>5, <3>1 DEF Seen
    <3>4. rec'[t] = rec[t] /\ done' = done /\ pc'[g] = pc[g]
      BY <1>1, <3>1
    <3> QED
      BY <3>2, <3>3, <3>4 DEF View, Allowed
  <2>2. CASE \A g \in Hosts : tok[g] # t
    <3>1. Status(t) = View(t, "idle", rec[t].state, done[t])
      BY <1>5, <2>2 DEF Seen
    <3>2. Status(t)' = View(t, "idle", rec[t].state, done[t])'
      BY <1>1, <1>5, <2>2 DEF Seen
    <3>3. done' = done /\ rec'[t] = r
      BY <1>1
    <3>4. CASE r = rec[t]
      BY <3>1, <3>2, <3>3, <3>4 DEF View, Allowed
    <3>5. CASE rec[t].state = "unstaged" /\ r.state \in Approvable /\ r.state # "unstaged" /\ late' = late
      <4>1. done[t] = 0 /\ t \notin late'
        BY <3>5 DEF LInv, Settled, Over
      <4> QED
        BY <3>1, <3>2, <3>3, <3>5, <4>1 DEF View, Allowed
    <3> QED
      BY <3>4, <3>5
  <2> QED
    BY <2>1, <2>2
<1> QED
  BY <1>4, <1>6, <1>7 DEF Moves

-----------------------------------------------------------------------------
\* What is known of a worker and of its token before it makes a step.
LEMMA Worker ==
  ASSUME IInv, LInv, NEW h \in Hosts, pc[h] # "idle"
  PROVE  /\ tok[h] \in Tokens /\ rec[tok[h]] \in Record /\ buf[h] \in Record
         /\ rec[tok[h]].state # "unstaged" /\ buf[h].state # "unstaged"
         /\ Copy(pc[h], rec[tok[h]].state, buf[h].state) /\ Counted(pc[h], done[tok[h]])
         /\ pc[h] \in {"expire", "expire_save"} => tok[h] \in late
         /\ Settled(tok[h])
         /\ rec = [rec EXCEPT ![tok[h]] = rec[tok[h]]]
         /\ buf = [buf EXCEPT ![h] = buf[h]]
         /\ done = [done EXCEPT ![tok[h]] = done[tok[h]]]
<1>1. TypeOK /\ AtWork(h) /\ Holding
  BY DEF IInv, LInv
<1>2. tok[h] \in Tokens /\ tok[h] # NoToken /\ rec[tok[h]].state # "unstaged" /\ buf[h].state # "unstaged"
  BY <1>1, EffectsAssumption DEF Holding
<1>3. /\ rec[tok[h]] \in Record /\ buf[h] \in Record
      /\ rec = [rec EXCEPT ![tok[h]] = rec[tok[h]]]
      /\ buf = [buf EXCEPT ![h] = buf[h]]
      /\ done = [done EXCEPT ![tok[h]] = done[tok[h]]]
  BY <1>1, <1>2 DEF TypeOK
<1> QED
  BY <1>1, <1>2, <1>3 DEF AtWork, LInv

\* A step of a worker moves its own token, and in a way that is allowed.
LEMMA WorkerMoves ==
  ASSUME IInv, IInv', OneAtATime, LInv, NEW h \in Hosts, pc[h] # "idle", HostStep(h)
  PROVE  Moves(tok[h])
<1> DEFINE t == tok[h]
<1>typ. TypeOK /\ TypeOK' /\ OneAtATime /\ LInv
  BY DEF IInv
<1>tok. /\ t \in Tokens /\ rec[t] \in Record /\ buf[h] \in Record
        /\ rec[t].state # "unstaged" /\ buf[h].state # "unstaged"
  BY Worker
<1>work. /\ Copy(pc[h], rec[t].state, buf[h].state) /\ Counted(pc[h], done[t])
         /\ pc[h] \in {"expire", "expire_save"} => t \in late
  BY Worker
<1>set. /\ done[t] \in {0, 1} /\ (done[t] = 1 => rec[t].state \in Over)
        /\ t \in refused => rec[t].state \in Voided
  BY Worker DEF Settled
<1>same. /\ rec = [rec EXCEPT ![t] = rec[t]] /\ buf = [buf EXCEPT ![h] = buf[h]]
         /\ done = [done EXCEPT ![t] = done[t]]
  BY Worker
<1>dom. DOMAIN pc = Hosts /\ DOMAIN buf = Hosts /\ DOMAIN rec = Tokens /\ DOMAIN done = Tokens
  BY <1>typ DEF TypeOK
<1>1. CASE ExpireLoad(h)
  <2>1. SetExpired(rec[t]) \in Record /\ SetExpired(rec[t]).state = "expired"
    BY <1>tok, Alterations DEF SetExpired, Record
  <2>2. /\ pc[h] = "expire" /\ pc'[h] = "expire_save" /\ buf'[h].state = "expired"
        /\ rec' = rec /\ done' = done /\ refused' = refused /\ OnlyOf(h, t)
    BY <1>1, <2>1, <1>dom DEF ExpireLoad, LoadThen, OnDisk, Goto, store, hist, OnlyOf
  <2>3. /\ Copy(pc'[h], rec[t].state, buf'[h].state) /\ Counted(pc'[h], done[t])
        /\ Allowed(View(t, pc[h], rec[t].state, done[t]), View(t, pc'[h], rec[t].state, done[t]))
        /\ pc'[h] \in {"expire", "expire_save"} => t \in late
    BY <1>work, <1>set, <1>tok, <2>2 DEF Copy, Counted, Allowed, View, Approvable, Active
  <2> QED
    BY <1>typ, <1>tok, <1>set, <2>2, <2>3, Stay
<1>2. CASE Reload(h)
  <2>1. rec[t] \in Record /\ rec[t].state = rec[t].state
    BY <1>tok, Alterations DEF Record
  <2>2. /\ pc[h] = "reload" /\ pc'[h] = "validate" /\ buf'[h].state = rec[t].state
        /\ rec' = rec /\ done' = done /\ refused' = refused /\ OnlyOf(h, t)
    BY <1>2, <2>1, <1>dom DEF Reload, LoadThen, OnDisk, Goto, store, hist, OnlyOf
  <2>3. /\ Copy(pc'[h], rec[t].state, buf'[h].state) /\ Counted(pc'[h], done[t])
        /\ Allowed(View(t, pc[h], rec[t].state, done[t]), View(t, pc'[h], rec[t].state, done[t]))
        /\ pc'[h] \in {"expire", "expire_save"} => t \in late
    BY <1>work, <1>set, <1>tok, <2>2 DEF Copy, Counted, Allowed, View, Approvable, Active
  <2> QED
    BY <1>typ, <1>tok, <1>set, <2>2, <2>3, Stay
<1>3. CASE InvalidateLoad(h)
  <2>1. SetInvalidated(rec[t]) \in Record /\ SetInvalidated(rec[t]).state = "grant_invalidated"
    BY <1>tok, Alterations DEF SetInvalidated, Record
  <2>2. /\ pc[h] = "invalidate" /\ pc'[h] = "invalidate_save" /\ buf'[h].state = "grant_invalidated"
        /\ rec' = rec /\ done' = done /\ refused' = refused /\ OnlyOf(h, t)
    BY <1>3, <2>1, <1>dom DEF InvalidateLoad, LoadThen, OnDisk, Goto, store, hist, OnlyOf
  <2>3. /\ Copy(pc'[h], rec[t].state, buf'[h].state) /\ Counted(pc'[h], done[t])
        /\ Allowed(View(t, pc[h], rec[t].state, done[t]), View(t, pc'[h], rec[t].state, done[t]))
        /\ pc'[h] \in {"expire", "expire_save"} => t \in late
    BY <1>work, <1>set, <1>tok, <2>2 DEF Copy, Counted, Allowed, View, Approvable, Active
  <2> QED
    BY <1>typ, <1>tok, <1>set, <2>2, <2>3, Stay
<1>4. CASE StartLoad(h)
  <2>1. SetStarted(rec[t]) \in Record /\ SetStarted(rec[t]).state = "execution_in_progress"
    BY <1>tok, Alterations DEF SetStarted, Record
  <2>2. /\ pc[h] = "start" /\ pc'[h] = "start_save" /\ buf'[h].state = "execution_in_progress"
        /\ rec' = rec /\ done' = done /\ refused' = refused /\ OnlyOf(h, t)
    BY <1>4, <2>1, <1>dom DEF StartLoad, LoadThen, OnDisk, Goto, store, hist, OnlyOf
  <2>3. /\ Copy(pc'[h], rec[t].state, buf'[h].state) /\ Counted(pc'[h], done[t])
        /\ Allowed(View(t, pc[h], rec[t].state, done[t]), View(t, pc'[h], rec[t].state, done[t]))
        /\ pc'[h] \in {"expire", "expire_save"} => t \in late
    BY <1>work, <1>set, <1>tok, <2>2 DEF Copy, Counted, Allowed, View, Approvable, Active
  <2> QED
    BY <1>typ, <1>tok, <1>set, <2>2, <2>3, Stay
<1>5. CASE FailLoad(h)
  <2>1. SetFailed(rec[t]) \in Record /\ SetFailed(rec[t]).state = "execution_failed"
    BY <1>tok, Alterations DEF SetFailed, Record
  <2>2. /\ pc[h] = "fail" /\ pc'[h] = "fail_save" /\ buf'[h].state = "execution_failed"
        /\ rec' = rec /\ done' = done /\ refused' = refused /\ OnlyOf(h, t)
    BY <1>5, <2>1, <1>dom DEF FailLoad, LoadThen, OnDisk, Goto, store, hist, OnlyOf
  <2>3. /\ Copy(pc'[h], rec[t].state, buf'[h].state) /\ Counted(pc'[h], done[t])
        /\ Allowed(View(t, pc[h], rec[t].state, done[t]), View(t, pc'[h], rec[t].state, done[t]))
        /\ pc'[h] \in {"expire", "expire_save"} => t \in late
    BY <1>work, <1>set, <1>tok, <2>2 DEF Copy, Counted, Allowed, View, Approvable, Active
  <2> QED
    BY <1>typ, <1>tok, <1>set, <2>2, <2>3, Stay
<1>6. CASE ConsumeLoad(h)
  <2>1. SetConsumed(rec[t]) \in Record /\ SetConsumed(rec[t]).state = "grant_consumed"
    BY <1>tok, Alterations DEF SetConsumed, Record
  <2>2. /\ pc[h] = "consume" /\ pc'[h] = "consume_save" /\ buf'[h].state = "grant_consumed"
        /\ rec' = rec /\ done' = done /\ refused' = refused /\ OnlyOf(h, t)
    BY <1>6, <2>1, <1>dom DEF ConsumeLoad, LoadThen, OnDisk, Goto, store, hist, OnlyOf
  <2>3. /\ Copy(pc'[h], rec[t].state, buf'[h].state) /\ Counted(pc'[h], done[t])
        /\ Allowed(View(t, pc[h], rec[t].state, done[t]), View(t, pc'[h], rec[t].state, done[t]))
        /\ pc'[h] \in {"expire", "expire_save"} => t \in late
    BY <1>work, <1>set, <1>tok, <2>2 DEF Copy, Counted, Allowed, View, Approvable, Active
  <2> QED
    BY <1>typ, <1>tok, <1>set, <2>2, <2>3, Stay
<1>7. CASE AuditLoad(h)
  <2>1. rec[t] \in Record /\ rec[t].state = rec[t].state
    BY <1>tok, Alterations DEF Record
  <2>2. /\ pc[h] = "audit" /\ pc'[h] = "audit_save" /\ buf'[h].state = rec[t].state
        /\ rec' = rec /\ done' = done /\ refused' = refused /\ OnlyOf(h, t)
    BY <1>7, <2>1, <1>dom DEF AuditLoad, LoadThen, OnDisk, Goto, store, hist, OnlyOf
  <2>3. /\ Copy(pc'[h], rec[t].state, buf'[h].state) /\ Counted(pc'[h], done[t])
        /\ Allowed(View(t, pc[h], rec[t].state, done[t]), View(t, pc'[h], rec[t].state, done[t]))
        /\ pc'[h] \in {"expire", "expire_save"} => t \in late
    BY <1>work, <1>set, <1>tok, <2>2 DEF Copy, Counted, Allowed, View, Approvable, Active
  <2> QED
    BY <1>typ, <1>tok, <1>set, <2>2, <2>3, Stay
<1>8. CASE AttachGrant(h)
  <2>1. /\ pc[h] = "attach_save" /\ pc'[h] = "reload" /\ rec'[t] = buf[h]
        /\ buf' = buf /\ done' = done /\ refused' = refused /\ OnlyOf(h, t)
    BY <1>8, <1>dom, <1>tok DEF AttachGrant, SaveThen, Goto, Save, hist, OnlyOf
  <2>2. /\ Copy(pc'[h], buf[h].state, buf[h].state) /\ Counted(pc'[h], done[t])
        /\ Allowed(View(t, pc[h], rec[t].state, done[t]), View(t, pc'[h], buf[h].state, done[t]))
        /\ done[t] = 1 => buf[h].state \in Over
        /\ t \in refused => buf[h].state \in Voided
    BY <1>work, <1>tok, <1>set, <2>1 DEF Copy, Counted, Allowed, View, Over, Voided, Approvable, Active
  <2> QED
    BY <1>typ, <1>tok, <1>set, <2>1, <2>2, Stay
<1>9. CASE InvalidateSave(h)
  <2>1. /\ pc[h] = "invalidate_save" /\ pc'[h] = "audit" /\ rec'[t] = buf[h]
        /\ buf' = buf /\ done' = done /\ refused' = refused /\ OnlyOf(h, t)
    BY <1>9, <1>dom, <1>tok DEF InvalidateSave, SaveThen, Goto, Save, hist, OnlyOf
  <2>2. /\ Copy(pc'[h], buf[h].state, buf[h].state) /\ Counted(pc'[h], done[t])
        /\ Allowed(View(t, pc[h], rec[t].state, done[t]), View(t, pc'[h], buf[h].state, done[t]))
        /\ done[t] = 1 => buf[h].state \in Over
        /\ t \in refused => buf[h].state \in Voided
    BY <1>work, <1>tok, <1>set, <2>1 DEF Copy, Counted, Allowed, View, Over, Voided, Approvable, Active
  <2> QED
    BY <1>typ, <1>tok, <1>set, <2>1, <2>2, Stay
<1>10. CASE StartSave(h) /\ IsFile(t)
  <2>1. /\ pc[h] = "start_save" /\ pc'[h] = "checkpoint" /\ rec'[t] = buf[h]
        /\ buf' = buf /\ done' = done /\ refused' = refused /\ OnlyOf(h, t)
    BY <1>10, <1>dom, <1>tok DEF StartSave, SaveThen, Goto, Save, hist, OnlyOf
  <2>2. /\ Copy(pc'[h], buf[h].state, buf[h].state) /\ Counted(pc'[h], done[t])
        /\ Allowed(View(t, pc[h], rec[t].state, done[t]), View(t, pc'[h], buf[h].state, done[t]))
        /\ done[t] = 1 => buf[h].state \in Over
        /\ t \in refused => buf[h].state \in Voided
    BY <1>work, <1>tok, <1>set, <2>1 DEF Copy, Counted, Allowed, View, Over, Voided, Approvable, Active
  <2> QED
    BY <1>typ, <1>tok, <1>set, <2>1, <2>2, Stay
<1>11. CASE StartSave(h) /\ ~IsFile(t)
  <2>1. /\ pc[h] = "start_save" /\ pc'[h] = "run" /\ rec'[t] = buf[h]
        /\ buf' = buf /\ done' = done /\ refused' = refused /\ OnlyOf(h, t)
    BY <1>11, <1>dom, <1>tok DEF StartSave, SaveThen, Goto, Save, hist, OnlyOf
  <2>2. /\ Copy(pc'[h], buf[h].state, buf[h].state) /\ Counted(pc'[h], done[t])
        /\ Allowed(View(t, pc[h], rec[t].state, done[t]), View(t, pc'[h], buf[h].state, done[t]))
        /\ done[t] = 1 => buf[h].state \in Over
        /\ t \in refused => buf[h].state \in Voided
    BY <1>work, <1>tok, <1>set, <2>1 DEF Copy, Counted, Allowed, View, Over, Voided, Approvable, Active
  <2> QED
    BY <1>typ, <1>tok, <1>set, <2>1, <2>2, Stay
<1>12. CASE ConsumeSave(h)
  <2>1. /\ pc[h] = "consume_save" /\ pc'[h] = "audit" /\ rec'[t] = buf[h]
        /\ buf' = buf /\ done' = done /\ refused' = refused /\ OnlyOf(h, t)
    BY <1>12, <1>dom, <1>tok DEF ConsumeSave, SaveThen, Goto, Save, hist, OnlyOf
  <2>2. /\ Copy(pc'[h], buf[h].state, buf[h].state) /\ Counted(pc'[h], done[t])
        /\ Allowed(View(t, pc[h], rec[t].state, done[t]), View(t, pc'[h], buf[h].state, done[t]))
        /\ done[t] = 1 => buf[h].state \in Over
        /\ t \in refused => buf[h].state \in Voided
    BY <1>work, <1>tok, <1>set, <2>1 DEF Copy, Counted, Allowed, View, Over, Voided, Approvable, Active
  <2> QED
    BY <1>typ, <1>tok, <1>set, <2>1, <2>2, Stay
<1>13. CASE FailSave(h)
  <2>1. /\ pc[h] = "fail_save" /\ pc'[h] = "audit" /\ rec'[t] = buf[h]
        /\ buf' = buf /\ done' = done /\ refused' = refused /\ OnlyOf(h, t)
    BY <1>13, <1>dom, <1>tok DEF FailSave, SaveThen, Goto, Save, hist, OnlyOf
  <2>2. /\ Copy(pc'[h], buf[h].state, buf[h].state) /\ Counted(pc'[h], done[t])
        /\ Allowed(View(t, pc[h], rec[t].state, done[t]), View(t, pc'[h], buf[h].state, done[t]))
        /\ done[t] = 1 => buf[h].state \in Over
        /\ t \in refused => buf[h].state \in Voided
    BY <1>work, <1>tok, <1>set, <2>1 DEF Copy, Counted, Allowed, View, Over, Voided, Approvable, Active
  <2> QED
    BY <1>typ, <1>tok, <1>set, <2>1, <2>2, Stay
<1>14. CASE Checkpoint(h)
  <2>1. /\ pc[h] = "checkpoint" /\ pc'[h] = "open" /\ rec'[t] = buf[h]
        /\ buf' = buf /\ done' = done /\ refused' = refused /\ OnlyOf(h, t)
    BY <1>14, <1>dom, <1>tok DEF Checkpoint, Goto, Save, hist, OnlyOf
  <2>2. /\ Copy(pc'[h], buf[h].state, buf[h].state) /\ Counted(pc'[h], done[t])
        /\ Allowed(View(t, pc[h], rec[t].state, done[t]), View(t, pc'[h], buf[h].state, done[t]))
        /\ done[t] = 1 => buf[h].state \in Over
        /\ t \in refused => buf[h].state \in Voided
    BY <1>work, <1>tok, <1>set, <2>1 DEF Copy, Counted, Allowed, View, Over, Voided, Approvable, Active
  <2> QED
    BY <1>typ, <1>tok, <1>set, <2>1, <2>2, Stay
<1>15. CASE Validate(h) /\ GrantValid(h)
  <2>1. /\ pc[h] \in {"validate"} /\ pc'[h] = "start" /\ done'[t] = done[t]
        /\ rec' = rec /\ buf' = buf /\ refused' = refused /\ OnlyOf(h, t)
    BY <1>15, <1>dom, <1>tok DEF Validate, Goto, store, world, hist, OnlyOf
  <2>2. /\ Copy(pc'[h], rec[t].state, buf[h].state) /\ Counted(pc'[h], done[t]) /\ done[t] \in {0, 1}
        /\ Allowed(View(t, pc[h], rec[t].state, done[t]), View(t, pc'[h], rec[t].state, done[t]))
        /\ done[t] = 1 => rec[t].state \in Over
    BY <1>work, <1>tok, <1>set, <2>1 DEF Copy, Counted, Allowed, View, Over, Approvable, Active
  <2> QED
    BY <1>typ, <1>tok, <1>set, <2>1, <2>2, Stay
<1>16. CASE Validate(h) /\ ~GrantValid(h)
  <2>1. /\ pc[h] \in {"validate"} /\ pc'[h] = "invalidate" /\ done'[t] = done[t]
        /\ rec' = rec /\ buf' = buf /\ refused' = refused /\ OnlyOf(h, t)
    BY <1>16, <1>dom, <1>tok DEF Validate, Goto, store, world, hist, OnlyOf
  <2>2. /\ Copy(pc'[h], rec[t].state, buf[h].state) /\ Counted(pc'[h], done[t]) /\ done[t] \in {0, 1}
        /\ Allowed(View(t, pc[h], rec[t].state, done[t]), View(t, pc'[h], rec[t].state, done[t]))
        /\ done[t] = 1 => rec[t].state \in Over
    BY <1>work, <1>tok, <1>set, <2>1 DEF Copy, Counted, Allowed, View, Over, Approvable, Active
  <2> QED
    BY <1>typ, <1>tok, <1>set, <2>1, <2>2, Stay
<1>17. CASE OpenFile(h)
  <2>1. /\ pc[h] \in {"open"} /\ pc'[h] = "write" /\ done'[t] = done[t]
        /\ rec' = rec /\ buf' = buf /\ refused' = refused /\ OnlyOf(h, t)
    BY <1>17, <1>dom, <1>tok DEF OpenFile, Goto, store, world, hist, OnlyOf
  <2>2. /\ Copy(pc'[h], rec[t].state, buf[h].state) /\ Counted(pc'[h], done[t]) /\ done[t] \in {0, 1}
        /\ Allowed(View(t, pc[h], rec[t].state, done[t]), View(t, pc'[h], rec[t].state, done[t]))
        /\ done[t] = 1 => rec[t].state \in Over
    BY <1>work, <1>tok, <1>set, <2>1 DEF Copy, Counted, Allowed, View, Over, Approvable, Active
  <2> QED
    BY <1>typ, <1>tok, <1>set, <2>1, <2>2, Stay
<1>18. CASE WriteFile(h)
  <2>1. /\ pc[h] \in {"write"} /\ pc'[h] = "consume" /\ done'[t] = done[t] + 1
        /\ rec' = rec /\ buf' = buf /\ refused' = refused /\ OnlyOf(h, t)
    BY <1>18, <1>dom, <1>tok DEF WriteFile, Goto, store, world, hist, OnlyOf
  <2>2. /\ Copy(pc'[h], rec[t].state, buf[h].state) /\ Counted(pc'[h], done[t] + 1) /\ done[t] + 1 \in {0, 1}
        /\ Allowed(View(t, pc[h], rec[t].state, done[t]), View(t, pc'[h], rec[t].state, done[t] + 1))
        /\ done[t] + 1 = 1 => rec[t].state \in Over
    BY <1>work, <1>tok, <1>set, <2>1 DEF Copy, Counted, Allowed, View, Over, Approvable, Active
  <2> QED
    BY <1>typ, <1>tok, <1>set, <2>1, <2>2, Stay
<1>19. CASE BeginRun(h)
  <2>1. /\ pc[h] \in {"run"} /\ pc'[h] = "wait" /\ done'[t] = done[t]
        /\ rec' = rec /\ buf' = buf /\ refused' = refused /\ OnlyOf(h, t)
    BY <1>19, <1>dom, <1>tok DEF BeginRun, Goto, store, world, hist, OnlyOf
  <2>2. /\ Copy(pc'[h], rec[t].state, buf[h].state) /\ Counted(pc'[h], done[t]) /\ done[t] \in {0, 1}
        /\ Allowed(View(t, pc[h], rec[t].state, done[t]), View(t, pc'[h], rec[t].state, done[t]))
        /\ done[t] = 1 => rec[t].state \in Over
    BY <1>work, <1>tok, <1>set, <2>1 DEF Copy, Counted, Allowed, View, Over, Approvable, Active
  <2> QED
    BY <1>typ, <1>tok, <1>set, <2>1, <2>2, Stay
<1>20. CASE RunSucceeds(h)
  <2>1. /\ pc[h] \in {"wait"} /\ pc'[h] = "consume" /\ done'[t] = done[t] + 1
        /\ rec' = rec /\ buf' = buf /\ refused' = refused /\ OnlyOf(h, t)
    BY <1>20, <1>dom, <1>tok DEF RunSucceeds, Goto, store, world, hist, OnlyOf
  <2>2. /\ Copy(pc'[h], rec[t].state, buf[h].state) /\ Counted(pc'[h], done[t] + 1) /\ done[t] + 1 \in {0, 1}
        /\ Allowed(View(t, pc[h], rec[t].state, done[t]), View(t, pc'[h], rec[t].state, done[t] + 1))
        /\ done[t] + 1 = 1 => rec[t].state \in Over
    BY <1>work, <1>tok, <1>set, <2>1 DEF Copy, Counted, Allowed, View, Over, Approvable, Active
  <2> QED
    BY <1>typ, <1>tok, <1>set, <2>1, <2>2, Stay
<1>21. CASE ExecutorFails(h)
  <2>1. /\ pc[h] \in {"checkpoint", "open", "write", "wait"} /\ pc'[h] = "fail" /\ done'[t] = done[t]
        /\ rec' = rec /\ buf' = buf /\ refused' = refused /\ OnlyOf(h, t)
    BY <1>21, <1>dom, <1>tok DEF ExecutorFails, Goto, store, world, hist, OnlyOf
  <2>2. /\ Copy(pc'[h], rec[t].state, buf[h].state) /\ Counted(pc'[h], done[t]) /\ done[t] \in {0, 1}
        /\ Allowed(View(t, pc[h], rec[t].state, done[t]), View(t, pc'[h], rec[t].state, done[t]))
        /\ done[t] = 1 => rec[t].state \in Over
    BY <1>work, <1>tok, <1>set, <2>1 DEF Copy, Counted, Allowed, View, Over, Approvable, Active
  <2> QED
    BY <1>typ, <1>tok, <1>set, <2>1, <2>2, Stay
<1>22. CASE ExpireSave(h)
  <2>1. /\ pc[h] = "expire_save" /\ rec' = [rec EXCEPT ![t] = buf[h]] /\ Release(h)
        /\ UNCHANGED <<late, done, refused>>
    BY <1>22, <1>same DEF ExpireSave, Save, hist
  <2>2. /\ Allowed(View(t, pc[h], rec[t].state, done[t]), View(t, "idle", buf[h].state, done[t]))
        /\ done[t] = 1 => buf[h].state \in Over
        /\ t \in refused => buf[h].state \in Voided
    BY <1>work, <1>tok, <1>set, <2>1 DEF Copy, Counted, Allowed, View, Over, Voided, Approvable, Active
  <2> QED
    BY <1>typ, <1>tok, <2>1, <2>2, Quit
<1>23. CASE AuditSave(h)
  <2>1. /\ pc[h] = "audit_save" /\ rec' = [rec EXCEPT ![t] = buf[h]] /\ Release(h)
        /\ UNCHANGED <<late, done, refused>>
    BY <1>23, <1>same DEF AuditSave, Save, hist
  <2>2. /\ Allowed(View(t, pc[h], rec[t].state, done[t]), View(t, "idle", buf[h].state, done[t]))
        /\ done[t] = 1 => buf[h].state \in Over
        /\ t \in refused => buf[h].state \in Voided
    BY <1>work, <1>tok, <1>set, <2>1 DEF Copy, Counted, Allowed, View, Over, Voided, Approvable, Active
  <2> QED
    BY <1>typ, <1>tok, <2>1, <2>2, Quit
<1>24. CASE ShellBlocked(h)
  <2>1. /\ pc[h] = "start" /\ rec' = [rec EXCEPT ![t] = rec[t]] /\ Release(h)
        /\ UNCHANGED <<late, done, refused>>
    BY <1>24, <1>same DEF ShellBlocked, store, hist
  <2>2. /\ Allowed(View(t, pc[h], rec[t].state, done[t]), View(t, "idle", rec[t].state, done[t]))
        /\ done[t] = 1 => rec[t].state \in Over
        /\ t \in refused => rec[t].state \in Voided
    BY <1>work, <1>tok, <1>set, <2>1 DEF Copy, Counted, Allowed, View, Over, Voided, Approvable, Active
  <2> QED
    BY <1>typ, <1>tok, <2>1, <2>2, Quit
<1>25. CASE RejectSave(h)
  <2>1. /\ pc[h] = "reject_save" /\ pc'[h] = "audit" /\ rec'[t] = buf[h]
        /\ buf' = buf /\ done' = done /\ refused' = refused \cup {t} /\ OnlyOf(h, t)
    BY <1>25, <1>dom, <1>tok DEF RejectSave, Goto, Save, OnlyOf
  <2>2. /\ Copy(pc'[h], buf[h].state, buf[h].state) /\ Counted(pc'[h], done[t])
        /\ Allowed(View(t, pc[h], rec[t].state, done[t]), View(t, pc'[h], buf[h].state, done[t]))
        /\ buf[h].state \in Over /\ buf[h].state \in Voided
    BY <1>work, <1>tok, <2>1 DEF Copy, Counted, Allowed, View, Over, Voided, Approvable, Active
  <2> QED
    BY <1>typ, <1>tok, <1>set, <2>1, <2>2, Stay
<1> QED
  BY <1>1, <1>2, <1>3, <1>4, <1>5, <1>6, <1>7, <1>8, <1>9, <1>10, <1>11, <1>12, <1>13, <1>14,
     <1>15, <1>16, <1>17, <1>18, <1>19, <1>20, <1>21, <1>22, <1>23, <1>24, <1>25 DEF HostStep

\* An approval or a rejection is begun by a host with nothing else to do.
LEMMA Begun ==
  ASSUME IInv, IInv', OneAtATime, OneAtATime', LInv, NEW h \in Hosts, NEW t \in Tokens,
         Approve(h, t) \/ Reject(h, t)
  PROVE  Moves(t)
<1>typ. TypeOK /\ TypeOK'
  BY DEF IInv
<1>rec. /\ rec[t] \in Record /\ rec[t].state # "unstaged" /\ pc[h] = "idle"
        /\ UNCHANGED <<rec, done, late, refused>> /\ tok' = [tok EXCEPT ![h] = t]
  BY <1>typ DEF TypeOK, Approve, Reject, Staged, store, hist
<1>set. done[t] \in {0, 1} /\ (done[t] = 1 => rec[t].state \in Over)
  BY DEF LInv, Settled
<1>pcs. \A p \in {"expire", "attach_save", "validate", "reject_save"} : p \in Pcs \ {"idle"}
  BY DEF Pcs
<1>1. CASE Approve(h, t) /\ t \in late
  <2>1. pc' = [pc EXCEPT ![h] = "expire"] /\ buf' = [buf EXCEPT ![h] = rec[t]]
    BY <1>1 DEF Approve, Goto
  <2>2. /\ Copy("expire", rec[t].state, rec[t].state) /\ Counted("expire", done[t])
        /\ Allowed(View(t, "idle", rec[t].state, done[t]), View(t, "expire", rec[t].state, done[t]))
    BY <1>1, <1>rec DEF Copy, Counted, Allowed, View
  <2> QED
    BY <1>1, <1>typ, <1>rec, <1>pcs, <2>1, <2>2, TakeUp
<1>2. CASE Approve(h, t) /\ t \notin late
  <2> DEFINE g == [state |-> "grant_attached", grant |-> "active"]
  <2>1. /\ \/ pc' = [pc EXCEPT ![h] = "attach_save"] /\ buf' = [buf EXCEPT ![h] = g]
           \/ pc' = [pc EXCEPT ![h] = "validate"] /\ buf' = [buf EXCEPT ![h] = rec[t]]
        /\ rec[t].state \notin Refused \cup {"grant_consumed"}
    BY <1>2 DEF Approve, Goto
  <2>2. g \in Record /\ g.state = "grant_attached"
    BY DEF Record, States, Active, Grants
  <2>3. rec[t].state \in Approvable /\ done[t] = 0
    BY <1>rec, <1>set, <2>1 DEF Record, States, Active, Approvable, Refused, Over
  <2> HIDE DEF g
  <2>4. CASE pc' = [pc EXCEPT ![h] = "attach_save"] /\ buf' = [buf EXCEPT ![h] = g]
    <3>1. /\ Copy("attach_save", rec[t].state, g.state) /\ Counted("attach_save", done[t])
          /\ Allowed(View(t, "idle", rec[t].state, done[t]),
                     View(t, "attach_save", rec[t].state, done[t]))
      BY <1>2, <1>rec, <2>2, <2>3 DEF Copy, Counted, Allowed, View
    <3> QED
      BY <1>typ, <1>rec, <1>pcs, <2>2, <2>4, <3>1, TakeUp
  <2>5. CASE pc' = [pc EXCEPT ![h] = "validate"] /\ buf' = [buf EXCEPT ![h] = rec[t]]
    <3>1. /\ Copy("validate", rec[t].state, rec[t].state) /\ Counted("validate", done[t])
          /\ Allowed(View(t, "idle", rec[t].state, done[t]),
                     View(t, "validate", rec[t].state, done[t]))
      BY <1>2, <1>rec, <2>3 DEF Copy, Counted, Allowed, View
    <3> QED
      BY <1>typ, <1>rec, <1>pcs, <2>5, <3>1, TakeUp
  <2> QED
    BY <2>1, <2>4, <2>5
<1>3. CASE Reject(h, t)
  <2> DEFINE b == SetRejected(rec[t])
  <2>1. b \in Record /\ b.state = "rejected"
    BY <1>rec, Alterations DEF SetRejected
  <2>2. pc' = [pc EXCEPT ![h] = "reject_save"] /\ buf' = [buf EXCEPT ![h] = b]
    BY <1>3 DEF Reject, Goto
  <2> HIDE DEF b
  <2>3. /\ Copy("reject_save", rec[t].state, b.state) /\ Counted("reject_save", done[t])
        /\ Allowed(View(t, "idle", rec[t].state, done[t]),
                   View(t, "reject_save", rec[t].state, done[t]))
    BY <1>rec, <2>1 DEF Copy, Counted, Allowed, View
  <2> QED
    BY <1>typ, <1>rec, <1>pcs, <2>1, <2>2, <2>3, TakeUp
<1> QED
  BY <1>1, <1>2, <1>3

\* A host dies with a token in its hands.
LEMMA Died ==
  ASSUME IInv, IInv', OneAtATime, LInv, NEW h \in Hosts, Crash(h)
  PROVE  Moves(tok[h])
<1> DEFINE t == tok[h]
<1>typ. TypeOK /\ TypeOK'
  BY DEF IInv
<1>1. pc[h] # "idle" /\ Release(h) /\ UNCHANGED <<rec, done, late, refused>>
  BY DEF Crash, store, hist
<1>2. /\ t \in Tokens /\ rec[t] \in Record /\ rec[t].state # "unstaged"
      /\ Copy(pc[h], rec[t].state, buf[h].state) /\ Counted(pc[h], done[t])
      /\ rec = [rec EXCEPT ![t] = rec[t]] /\ Settled(t)
  BY <1>1, Worker
<1>3. /\ done[t] = 1 => rec[t].state \in Over
      /\ t \in refused => rec[t].state \in Voided
      /\ done[t] \in {0, 1}
  BY <1>2 DEF Settled
<1>4. Allowed(View(t, pc[h], rec[t].state, done[t]), View(t, "idle", rec[t].state, done[t]))
  BY <1>2, <1>3 DEF Copy, Counted, Allowed, View, Approvable
<1>5. rec' = [rec EXCEPT ![t] = rec[t]]
  BY <1>1, <1>2
<1> QED
  BY <1>typ, <1>1, <1>2, <1>3, <1>4, <1>5, Quit

\* An action is staged, or its time runs out.
LEMMA Staging ==
  ASSUME IInv, IInv', OneAtATime, LInv, NEW t \in Tokens,
         (\E e \in Effects : Stage(t, e)) \/ ExpiryPasses(t)
  PROVE  Moves(t)
<1>typ. TypeOK /\ TypeOK'
  BY DEF IInv
<1>rec. rec[t] \in Record /\ rec = [rec EXCEPT ![t] = rec[t]]
  BY <1>typ DEF TypeOK
<1>1. CASE \E e \in Effects : Stage(t, e)
  <2> DEFINE r == [state |-> "staged_not_granted", grant |-> "none"]
  <2>1. /\ rec[t].state = "unstaged" /\ rec' = [rec EXCEPT ![t] = r]
        /\ UNCHANGED <<local, done, refused, late>>
    BY <1>1 DEF Stage, Staged, hist
  <2>2. r \in Record /\ r.state \in Approvable /\ r.state # "unstaged"
    BY DEF Record, States, Active, Grants, Approvable
  <2>3. t \notin late
    BY <2>1 DEF LInv, Settled
  <2>4. \A h \in Hosts : tok[h] # t
    BY <2>1, EffectsAssumption DEF LInv, AtWork, IInv, Holding
  <2> HIDE DEF r
  <2> QED
    BY <1>typ, <2>1, <2>2, <2>3, <2>4, Aside
<1>2. CASE ExpiryPasses(t)
  <2>1. /\ rec[t].state # "unstaged" /\ rec' = [rec EXCEPT ![t] = rec[t]]
        /\ UNCHANGED <<local, done, refused>> /\ late' = late \cup {t}
    BY <1>2, <1>rec DEF ExpiryPasses, Staged, hist
  <2>2. late \subseteq late' /\ late' \subseteq late \cup {t}
    BY <2>1
  <2> QED
    BY <1>typ, <1>rec, <2>1, <2>2, Aside
<1> QED
  BY <1>1, <1>2

\* What concerns no token: edits, rollbacks and steps of something else.
LEMMA Nothing ==
  ASSUME TypeOK', OneAtATime, TypeOK, LInv, UNCHANGED <<rec, late, local, done, refused>>
  PROVE  LInv' /\ \A u \in Tokens : Status(u)' = Status(u)
<1>1. LInv' /\ OneAtATime'
  BY DEF LInv, AtWork, Settled, OneAtATime, local
<1>2. Seen /\ Seen'
  BY <1>1, Viewed, PTL
<1>3. ASSUME NEW u \in Tokens PROVE Status(u)' = Status(u)
  BY <1>2, Bystander DEF local
<1> QED
  BY <1>1, <1>3

\* Every step makes an allowed move of one token, or none.
LEMMA EveryStepMoves ==
  ASSUME IInv, IInv', OneAtATime, OneAtATime', LInv, [Next]_vars
  PROVE  \/ \E t \in Tokens : Moves(t)
         \/ LInv' /\ \A u \in Tokens : Status(u)' = Status(u)
<1>typ. TypeOK /\ TypeOK'
  BY DEF IInv
<1>1. ASSUME NEW t \in Tokens, NEW e \in Effects, Stage(t, e)
      PROVE  Moves(t)
  BY <1>1, Staging
<1>2. ASSUME NEW t \in Tokens, ExpiryPasses(t)
      PROVE  Moves(t)
  BY <1>2, Staging
<1>3. CASE ExternalEdit \/ UNCHANGED vars
  BY <1>3, <1>typ, Nothing DEF ExternalEdit, vars, store, hist
<1>4. ASSUME NEW h \in Hosts, HostStep(h)
      PROVE  \E t \in Tokens : Moves(t)
  <2>1. pc[h] # "idle"
    BY <1>4 DEF HostStep, ExpireLoad, ExpireSave, AttachGrant, Reload, Validate,
       InvalidateLoad, InvalidateSave, ShellBlocked, StartLoad, StartSave, Checkpoint,
       OpenFile, WriteFile, BeginRun, RunSucceeds, ExecutorFails, ConsumeLoad,
       ConsumeSave, FailLoad, FailSave, AuditLoad, AuditSave, RejectSave, LoadThen,
       SaveThen
  <2> QED
    BY <1>4, <2>1, WorkerMoves, Worker
<1>5. ASSUME NEW h \in Hosts, Crash(h)
      PROVE  \E t \in Tokens : Moves(t)
  <2>1. pc[h] # "idle"
    BY <1>5 DEF Crash
  <2> QED
    BY <1>5, <2>1, Died, Worker
<1>6. ASSUME NEW h \in Hosts, NEW t \in Tokens, Approve(h, t) \/ Reject(h, t)
      PROVE  Moves(t)
  BY <1>6, Begun
<1>7. ASSUME NEW h \in Hosts, NEW t \in Tokens, Rollback(h, t)
      PROVE  LInv' /\ \A u \in Tokens : Status(u)' = Status(u)
  BY <1>7, <1>typ, Nothing DEF Rollback, store, hist
<1> QED
  BY <1>1, <1>2, <1>3, <1>4, <1>5, <1>6, <1>7 DEF Next

\* The invariant holds of an empty store, where nothing was asked.
LEMMA InitLone == Init => LInv /\ \A t \in Tokens : Status(t) = "unasked"
<1> SUFFICES ASSUME Init PROVE LInv /\ \A t \in Tokens : Status(t) = "unasked"
  OBVIOUS
<1>1. LInv
  BY DEF Init, LInv, AtWork, Settled, NoRecord
<1>2. TypeOK /\ OneAtATime
  BY InitInv DEF Init, IInv, OneAtATime
<1>3. ASSUME NEW t \in Tokens PROVE Status(t) = "unasked"
  <2>1. \A h \in Hosts : tok[h] # t
    BY EffectsAssumption DEF Init
  <2>2. Status(t) = View(t, "idle", rec[t].state, done[t])
    BY <1>1, <1>2, <2>1, Viewed DEF Seen
  <2>3. rec[t].state = "unstaged" /\ done[t] = 0
    BY DEF Init, NoRecord
  <2> QED
    BY <2>2, <2>3 DEF View
<1> QED
  BY <1>1, <1>3

\* An allowed move of one token is a step of the single-use grant.
LEMMA GrantStep ==
  ASSUME \/ \E t \in Tokens : Moves(t)
         \/ LInv' /\ \A u \in Tokens : Status(u)' = Status(u)
  PROVE  [Grant!Next]_([t \in Tokens |-> Status(t)])
<1> DEFINE s == [t \in Tokens |-> Status(t)]
<1>1. CASE \A u \in Tokens : Status(u)' = Status(u)
  BY <1>1
<1>2. ASSUME NEW t \in Tokens, Moves(t)
      PROVE  [Grant!Next]_s
  <2>1. s' = [s EXCEPT ![t] = Status(t)']
    BY <1>2 DEF Moves
  <2>2. Allowed(Status(t), Status(t)') /\ s[t] = Status(t)
    BY <1>2 DEF Moves
  <2>3. CASE Status(t)' = Status(t)
    BY <2>1, <2>3
  <2>4. CASE Status(t) = "unasked" /\ Status(t)' = "waiting"
    BY <2>1, <2>4 DEF Grant!Next, Grant!Ask, Grant!Move
  <2>5. CASE Status(t) = "waiting" /\ Status(t)' = "running"
    BY <2>1, <2>5 DEF Grant!Next, Grant!Begin, Grant!Move
  <2>6. CASE Status(t) = "running" /\ Status(t)' = "used"
    BY <2>1, <2>6 DEF Grant!Next, Grant!Succeed, Grant!Move
  <2>7. CASE Status(t) = "running" /\ Status(t)' = "waiting"
    BY <2>1, <2>7 DEF Grant!Next, Grant!Fail, Grant!Move
  <2>8. CASE Status(t) \in {"waiting", "running"} /\ Status(t)' = "void"
    BY <2>1, <2>8 DEF Grant!Next, Grant!Void, Grant!Move
  <2> QED
    BY <2>2, <2>3, <2>4, <2>5, <2>6, <2>7, <2>8 DEF Allowed
<1> QED
  BY <1>1, <1>2

\* As long as no two hosts work on the same token, whatever the number of hosts
\* and of tokens and wherever hosts crash, the gate implements the single-use
\* grant: what was rejected, expired, invalidated or abandoned never runs, and
\* what ran never runs again (ApprovePendingActionTool, RejectPendingActionTool).
THEOREM SingleUse == Spec /\ []OneAtATime => ImplementsSingleUseGrant
<1>1. Init => Grant!Init
  BY InitLone DEF Grant!Init
<1>2. LInv /\ IInv /\ IInv' /\ OneAtATime /\ OneAtATime' /\ [Next]_vars
        => LInv' /\ [Grant!Next]_([t \in Tokens |-> Status(t)])
  BY EveryStepMoves, GrantStep DEF Moves
<1>3. Init => LInv
  BY InitLone
<1> QED
  BY <1>1, <1>2, <1>3, InitInv, StepKeepsInv, PTL
     DEF Spec, ImplementsSingleUseGrant, Grant!Spec

-----------------------------------------------------------------------------
(* The exact effect.  Between the validation of the grant and the execution *)
(* the handler does not look at the file again: that an effect begins only  *)
(* on the content it was staged against rests on nobody else changing the   *)
(* file meanwhile.                                                          *)

Deciding == {"start", "start_save", "checkpoint", "open"}

\* No step of anybody else changes the file while a host is between the two.
Undisturbed == \A h \in Hosts : pc[h] \in Deciding /\ pc'[h] = pc[h] => file' = file

Decided(h) ==
  /\ pc[h] \in Deciding /\ IsFile(tok[h]) => file = before[tok[h]]
  /\ pc[h] = "open" => tok[h] \in ckpts
  /\ pc[h] = "run" => ~IsFile(tok[h])

FInv == \A h \in Hosts : Decided(h)

\* A host that has something in its hands keeps the token, its effect and its baseline.
LEMMA Baseline ==
  ASSUME IInv, NEW h \in Hosts, pc[h] # "idle", pc'[h] # "idle", [Next]_vars
  PROVE  /\ tok'[h] = tok[h] /\ effect'[tok[h]] = effect[tok[h]]
         /\ before'[tok[h]] = before[tok[h]] /\ ckpts \subseteq ckpts'
<1>1. TypeOK /\ tok[h] \in Tokens /\ rec[tok[h]].state # "unstaged"
  BY DEF IInv, Holding
<1>2. ASSUME NEW t \in Tokens, NEW e \in Effects, Stage(t, e)
      PROVE  /\ tok'[h] = tok[h] /\ effect'[tok[h]] = effect[tok[h]]
             /\ before'[tok[h]] = before[tok[h]] /\ ckpts \subseteq ckpts'
  BY <1>1, <1>2 DEF Stage, Staged, TypeOK, local, world
<1>3. CASE ExternalEdit \/ UNCHANGED vars \/ \E t \in Tokens : ExpiryPasses(t)
  BY <1>3 DEF ExternalEdit, ExpiryPasses, vars, store, world, local
<1>4. ASSUME NEW g \in Hosts, HostStep(g)
      PROVE  effect' = effect /\ before' = before /\ ckpts \subseteq ckpts'
  BY <1>4
  DEF HostStep, ExpireLoad, ExpireSave, AttachGrant, Reload, Validate, InvalidateLoad,
      InvalidateSave, ShellBlocked, StartLoad, StartSave, Checkpoint, OpenFile, WriteFile,
      BeginRun, RunSucceeds, ExecutorFails, ConsumeLoad, ConsumeSave, FailLoad, FailSave,
      AuditLoad, AuditSave, RejectSave, LoadThen, SaveThen, store, world
<1>5. ASSUME NEW g \in Hosts, HostStep(g)
      PROVE  tok'[h] = tok[h]
  <2>1. tok' = tok \/ (pc'[g] = "idle" /\ tok' = [tok EXCEPT ![g] = NoToken])
    BY <1>1, <1>5
    DEF TypeOK, HostStep, ExpireLoad, ExpireSave, AttachGrant, Reload, Validate, InvalidateLoad,
        InvalidateSave, ShellBlocked, StartLoad, StartSave, Checkpoint, OpenFile, WriteFile,
        BeginRun, RunSucceeds, ExecutorFails, ConsumeLoad, ConsumeSave, FailLoad, FailSave,
        AuditLoad, AuditSave, RejectSave, LoadThen, SaveThen, Release, Goto
  <2> QED
    BY <1>1, <2>1 DEF TypeOK
<1>6. ASSUME NEW g \in Hosts, Crash(g)
      PROVE  /\ tok'[h] = tok[h] /\ effect'[tok[h]] = effect[tok[h]]
             /\ before'[tok[h]] = before[tok[h]] /\ ckpts \subseteq ckpts'
  BY <1>1, <1>6 DEF TypeOK, Crash, Release, Goto, store, world
<1>7. ASSUME NEW g \in Hosts, NEW t \in Tokens, Approve(g, t) \/ Reject(g, t) \/ Rollback(g, t)
      PROVE  /\ tok'[h] = tok[h] /\ effect'[tok[h]] = effect[tok[h]]
             /\ before'[tok[h]] = before[tok[h]] /\ ckpts \subseteq ckpts'
  BY <1>1, <1>7 DEF TypeOK, Approve, Reject, Rollback, store, world, local
<1> QED
  BY <1>2, <1>3, <1>4, <1>5, <1>6, <1>7 DEF Next

\* How a host comes to a position where it has decided to execute.
LEMMA Arrives ==
  ASSUME IInv, NEW h \in Hosts, [Next]_vars, pc'[h] # pc[h],
         pc'[h] \in Deciding \cup {"run"}
  PROVE  /\ pc[h] # "idle" /\ file' = file
         /\ \/ pc'[h] = "start" /\ GrantValid(h)
            \/ pc'[h] = "start_save" /\ pc[h] = "start"
            \/ pc'[h] = "checkpoint" /\ pc[h] = "start_save"
            \/ pc'[h] = "open" /\ pc[h] = "checkpoint" /\ tok[h] \in ckpts'
            \/ pc'[h] = "run" /\ pc[h] = "start_save" /\ ~IsFile(tok[h])
<1>1. DOMAIN pc = Hosts
  BY DEF IInv, TypeOK
<1>2. HostStep(h)
  <2>1. CASE ExternalEdit \/ UNCHANGED vars \/ (\E t \in Tokens : ExpiryPasses(t))
             \/ \E t \in Tokens, e \in Effects : Stage(t, e)
    BY <2>1 DEF ExternalEdit, ExpiryPasses, Stage, vars, local
  <2>2. ASSUME NEW g \in Hosts, HostStep(g), g # h
        PROVE  pc'[h] = pc[h]
    BY <1>1, <2>2
    DEF HostStep, ExpireLoad, ExpireSave, AttachGrant, Reload, Validate, InvalidateLoad,
        InvalidateSave, ShellBlocked, StartLoad, StartSave, Checkpoint, OpenFile, WriteFile,
        BeginRun, RunSucceeds, ExecutorFails, ConsumeLoad, ConsumeSave, FailLoad, FailSave,
        AuditLoad, AuditSave, RejectSave, LoadThen, SaveThen, Release, Goto
  <2>3. ASSUME NEW g \in Hosts, Crash(g)
        PROVE  pc'[h] \in {pc[h], "idle"}
    BY <1>1, <2>3 DEF Crash, Release, Goto
  <2>4. ASSUME NEW g \in Hosts, NEW t \in Tokens, Approve(g, t) \/ Reject(g, t) \/ Rollback(g, t)
        PROVE  pc'[h] \in {pc[h], "expire", "attach_save", "validate", "reject_save"}
    BY <1>1, <2>4 DEF Approve, Reject, Rollback, Goto, local
  <2> QED
    BY <2>1, <2>2, <2>3, <2>4 DEF Next, Deciding
<1>3. (Validate(h) /\ pc'[h] = "start") \/ StartLoad(h) \/ StartSave(h) \/ Checkpoint(h)
  BY <1>1, <1>2
  DEF Deciding, HostStep, ExpireLoad, ExpireSave, AttachGrant, Reload, Validate, InvalidateLoad,
      InvalidateSave, ShellBlocked, StartLoad, StartSave, Checkpoint, OpenFile, WriteFile,
      BeginRun, RunSucceeds, ExecutorFails, ConsumeLoad, ConsumeSave, FailLoad, FailSave,
      AuditLoad, AuditSave, RejectSave, LoadThen, SaveThen, Release, Goto
<1> QED
  BY <1>1, <1>3 DEF Validate, StartLoad, StartSave, Checkpoint, LoadThen, SaveThen, Goto, world

\* What was decided stays true until the execution begins.
LEMMA FStep ==
  ASSUME IInv, FInv, [Next]_vars, Undisturbed
  PROVE  FInv'
<1> SUFFICES ASSUME NEW h \in Hosts PROVE Decided(h)'
  BY DEF FInv
<1>1. CASE pc'[h] \notin Deciding \cup {"run"}
  BY <1>1 DEF Decided, Deciding
<1>2. CASE pc'[h] \in Deciding \cup {"run"} /\ pc'[h] = pc[h]
  <2>1. pc[h] # "idle" /\ pc'[h] # "idle"
    BY <1>2 DEF Deciding
  <2>2. /\ tok'[h] = tok[h] /\ effect'[tok[h]] = effect[tok[h]]
        /\ before'[tok[h]] = before[tok[h]] /\ ckpts \subseteq ckpts'
    BY <2>1, Baseline
  <2>3. pc[h] \in Deciding => file' = file
    BY <1>2 DEF Undisturbed
  <2> QED
    BY <1>2, <2>2, <2>3 DEF FInv, Decided, IsFile
<1>3. CASE pc'[h] \in Deciding \cup {"run"} /\ pc'[h] # pc[h]
  <2>1. /\ pc[h] # "idle" /\ file' = file
        /\ \/ pc'[h] = "start" /\ GrantValid(h)
           \/ pc'[h] = "start_save" /\ pc[h] = "start"
           \/ pc'[h] = "checkpoint" /\ pc[h] = "start_save"
           \/ pc'[h] = "open" /\ pc[h] = "checkpoint" /\ tok[h] \in ckpts'
           \/ pc'[h] = "run" /\ pc[h] = "start_save" /\ ~IsFile(tok[h])
    BY <1>3, Arrives
  <2>2. /\ tok'[h] = tok[h] /\ effect'[tok[h]] = effect[tok[h]]
        /\ before'[tok[h]] = before[tok[h]]
    BY <1>3, <2>1, Baseline DEF Deciding
  <2> QED
    BY <2>1, <2>2 DEF FInv, Decided, Deciding, IsFile, GrantValid
<1> QED
  BY <1>1, <1>2, <1>3

\* An execution begins where the file is opened or the executor is called.
LEMMA BeginsWhere ==
  ASSUME IInv, [Next]_vars, NEW t \in Tokens, Begins(t)
  PROVE  \E h \in Hosts : tok[h] = t /\ pc[h] \in {"open", "run"}
<1>1. DOMAIN runs = Tokens
  BY DEF IInv, TypeOK
<1>2. CASE \E h \in Hosts : HostStep(h)
  <2>1. PICK h \in Hosts : HostStep(h)
    BY <1>2
  <2>2. runs' = runs \/ (pc[h] \in {"open", "run"} /\ runs' = [runs EXCEPT ![tok[h]] = @ + 1])
    BY <2>1
    DEF HostStep, ExpireLoad, ExpireSave, AttachGrant, Reload, Validate, InvalidateLoad,
        InvalidateSave, ShellBlocked, StartLoad, StartSave, Checkpoint, OpenFile, WriteFile,
        BeginRun, RunSucceeds, ExecutorFails, ConsumeLoad, ConsumeSave, FailLoad, FailSave,
        AuditLoad, AuditSave, RejectSave, LoadThen, SaveThen, hist
  <2> QED
    BY <1>1, <2>2 DEF Begins
<1>3. CASE ~\E h \in Hosts : HostStep(h)
  <2>1. runs' = runs
    BY <1>3 DEF Next, Stage, ExpiryPasses, ExternalEdit, Crash, Approve, Reject, Rollback, vars, hist
  <2> QED
    BY <2>1 DEF Begins
<1> QED
  BY <1>2, <1>3

\* What the invariants say of a beginning.
LEMMA BeginsExactly ==
  ASSUME IInv, LInv, FInv, [Next]_vars, NEW t \in Tokens, Begins(t)
  PROVE  /\ t \notin refused
         /\ IsFile(t) => /\ file = before[t]
                         /\ \E u \in ckpts : before[u] = file
<1>1. PICK h \in Hosts : tok[h] = t /\ pc[h] \in {"open", "run"}
  BY BeginsWhere
<1>2. rec[t].state = "execution_in_progress" /\ Settled(t)
  BY <1>1, Worker DEF Copy
<1>3. t \notin refused
  BY <1>2 DEF Settled, Voided
<1>4. ASSUME IsFile(t)
      PROVE  file = before[t] /\ \E u \in ckpts : before[u] = file
  BY <1>1, <1>4 DEF FInv, Decided, Deciding
<1> QED
  BY <1>3, <1>4

\* For any number of hosts and tokens: as long as no two hosts work on the same
\* token and nobody else changes the file between a validation and the execution,
\* an effect is never begun once its rejection was saved, and a file effect begins
\* only on the content the user was shown, which can by then be restored
\* (ApprovePendingActionTool._validate_grant, _write_file_checkpoint).
THEOREM ExactWhenUndisturbed ==
  Spec /\ []OneAtATime /\ [][Undisturbed]_vars => ExactEffect
<1>1. Init => FInv
  BY DEF Init, FInv, Decided, Deciding
<1>2. LInv /\ IInv /\ IInv' /\ OneAtATime /\ OneAtATime' /\ [Next]_vars => LInv'
  BY EveryStepMoves DEF Moves
<1>3. IInv /\ FInv /\ [Next]_vars /\ [Undisturbed]_vars => FInv'
  <2> SUFFICES ASSUME IInv, FInv, [Next]_vars, [Undisturbed]_vars PROVE FInv'
    OBVIOUS
  <2>1. CASE Undisturbed
    BY <2>1, FStep
  <2>2. CASE UNCHANGED vars
    BY <2>2 DEF FInv, Decided, IsFile, vars, store, world, local
  <2> QED
    BY <2>1, <2>2
<1>4. IInv /\ LInv /\ FInv /\ [Next]_vars =>
        [\A t \in Tokens : Begins(t) =>
           /\ t \notin refused
           /\ IsFile(t) => /\ file = before[t]
                           /\ \E u \in ckpts : before[u] = file]_vars
  BY BeginsExactly
<1>5. Init => LInv
  BY InitLone
<1> QED
  BY <1>1, <1>2, <1>3, <1>4, <1>5, InitInv, StepKeepsInv, PTL DEF Spec, ExactEffect

\* With a single host, and a user who leaves the file alone while an approval is
\* at work, both hold without further ado, for any number of tokens.
THEOREM OneHostGate ==
  (\A h, g \in Hosts : h = g) /\ ~EditAnyTime
    => (Spec => ImplementsSingleUseGrant /\ ExactEffect)
<1> SUFFICES ASSUME \A h, g \in Hosts : h = g, ~EditAnyTime
             PROVE  Spec => ImplementsSingleUseGrant /\ ExactEffect
  OBVIOUS
<1>1. OneAtATime
  BY DEF OneAtATime
<1>2. IInv /\ [Next]_vars => [Undisturbed]_vars
  <2> SUFFICES ASSUME IInv, Next, NEW h \in Hosts, pc[h] \in Deciding, pc'[h] = pc[h]
               PROVE  file' = file
    BY DEF Undisturbed
  <2>1. pc[h] # "idle" /\ DOMAIN pc = Hosts
    BY DEF Deciding, IInv, TypeOK
  <2>2. ~ExternalEdit /\ \A t \in Tokens : ~Rollback(h, t)
    BY <2>1 DEF ExternalEdit, Rollback
  <2>3. ASSUME HostStep(h)
        PROVE  file' = file
    BY <2>1, <2>3
    DEF Deciding, HostStep, ExpireLoad, ExpireSave, AttachGrant, Reload, Validate, InvalidateLoad,
        InvalidateSave, ShellBlocked, StartLoad, StartSave, Checkpoint, OpenFile, WriteFile,
        BeginRun, RunSucceeds, ExecutorFails, ConsumeLoad, ConsumeSave, FailLoad, FailSave,
        AuditLoad, AuditSave, RejectSave, LoadThen, SaveThen, Goto, world
  <2> QED
    BY <2>2, <2>3 DEF Next, Stage, ExpiryPasses, Crash, Approve, Reject, world
<1>3. Spec => [][Undisturbed]_vars
  BY <1>2, InitInv, StepKeepsInv, PTL DEF Spec
<1> QED
  BY <1>1, <1>3, SingleUse, ExactWhenUndisturbed, PTL

=============================================================================
