---------------------------- MODULE ApprovalGate ----------------------------
(***************************************************************************)
(* The pending-action store and the host tools that approve, execute,      *)
(* reject and roll back a staged effect:                                   *)
(*   storage/approvals.py    PendingActionStore (one JSON file per token)  *)
(*   tools/file_tools.py     ApprovePendingActionTool,                     *)
(*                           RejectPendingActionTool,                      *)
(*                           RollbackFileCheckpointTool                    *)
(* No handler locks anything: every load and every save of the record is a *)
(* step of its own, and the copy a handler loaded is what it later saves.  *)
(* A host is one thread or process that runs one handler at a time: a web  *)
(* request thread or a CLI command.  A crash stands for the death of that  *)
(* host and for an exception out of a save.                                *)
(*                                                                         *)
(* All file effects edit one file.  Bounds: Tokens is the pool of uuids,   *)
(* MaxCrashes and MaxEdits bound crashes and external edits, MaxRuns the   *)
(* number of approvals of one token that start an execution.               *)
(***************************************************************************)
EXTENDS Naturals

CONSTANTS Tokens, Hosts, FileEffects, OtherEffects,
          MaxCrashes, MaxEdits, MaxRuns,
          EditAnyTime   \* may the user edit the file while an approval runs?

Effects == FileEffects \cup OtherEffects

NoToken == "none"

ASSUME EffectsAssumption ==
  /\ NoToken \notin Tokens
  /\ FileEffects \cap OtherEffects = {}
  /\ {"none", "base", "external", "torn"} \cap Effects = {}
ASSUME BoundsAssumption ==
  /\ MaxCrashes \in Nat /\ MaxEdits \in Nat /\ MaxRuns \in Nat
  /\ EditAnyTime \in BOOLEAN

Active  == {"staged_not_granted", "grant_attached"}
\* Mutant: an execution that was cut short may be approved again.
RefusedButInProgress == {"grant_invalidated", "rejected", "expired"}
Refused == {"execution_in_progress", "grant_invalidated", "rejected", "expired"}
States  == Active \cup {"execution_in_progress", "grant_invalidated", "rejected", "expired",
                         "unstaged", "execution_failed", "grant_consumed"}
Grants  == {"none", "active", "invalidated", "consumed"}
Record  == [state : States, grant : Grants]
NoRecord == [state |-> "unstaged", grant |-> "none"]

\* Where a handler stands; the two halves of a load-then-save pair are
\* named <step> and <step>_save.
Pcs == {"idle", "expire", "expire_save", "attach_save", "reload", "validate",
        "invalidate", "invalidate_save", "start", "start_save",
        "checkpoint", "open", "write", "run", "wait",
        "consume", "consume_save", "fail", "fail_save",
        "reject_save", "audit", "audit_save"}

Contents == {"base", "external", "torn"} \cup Effects

VARIABLES
  rec,      \* token -> the record on disk
  effect,   \* token -> the effect it was staged for ("none": not staged)
  before,   \* token -> the file content the effect was staged against
  late,     \* tokens whose expires_at has passed
  file,     \* content of the target file
  ckpts,    \* tokens with a file-edit checkpoint on disk
  audit,    \* token -> lifecycle states with an audit record
  pc, tok, buf,        \* host -> position, token, loaded copy
  crashes, edits,      \* bounded environment counters
  runs,     \* history: token -> executions begun
  done,     \* history: token -> executions that succeeded
  refused   \* history: tokens whose rejection was saved

store == <<rec, effect, before, late, audit>>
world == <<file, ckpts>>
local == <<pc, tok, buf>>
hist  == <<runs, done, refused>>
vars  == <<store, world, local, crashes, edits, hist>>

Init ==
  /\ rec = [t \in Tokens |-> NoRecord]
  /\ effect = [t \in Tokens |-> "none"]
  /\ before = [t \in Tokens |-> "base"]
  /\ late = {} /\ file = "base" /\ ckpts = {}
  /\ audit = [t \in Tokens |-> {}]
  /\ pc = [h \in Hosts |-> "idle"]
  /\ tok = [h \in Hosts |-> NoToken]
  /\ buf = [h \in Hosts |-> NoRecord]
  /\ crashes = 0 /\ edits = 0
  /\ runs = [t \in Tokens |-> 0] /\ done = [t \in Tokens |-> 0]
  /\ refused = {}

Staged == {t \in Tokens : rec[t].state # "unstaged"}
IsFile(t) == effect[t] \in FileEffects

-----------------------------------------------------------------------------
(* Staging, time and the environment.                                      *)

\* is_active_pending_action
IsActive(t) == rec[t].state \in Active /\ t \notin late

\* PendingActionStore._find_active_match: same effect digest, which for a
\* file effect covers the baseline.
SameDigest(t, e) == effect[t] = e /\ (e \in FileEffects => before[t] = file)

\* PendingActionStore.stage: a second staging of an active effect returns
\* the existing token and changes nothing.
Stage(t, e) ==
  /\ t \notin Staged
  /\ \A u \in Staged : ~(IsActive(u) /\ SameDigest(u, e))
  /\ rec' = [rec EXCEPT ![t] = [state |-> "staged_not_granted", grant |-> "none"]]
  /\ effect' = [effect EXCEPT ![t] = e]
  /\ before' = [before EXCEPT ![t] = file]
  /\ UNCHANGED <<late, audit, world, local, crashes, edits, hist>>

\* expires_at goes by.
ExpiryPasses(t) ==
  /\ t \in Staged \ late
  /\ late' = late \cup {t}
  /\ UNCHANGED <<rec, effect, before, audit, world, local, crashes, edits, hist>>

\* The user's editor saves the target file.
ExternalEdit ==
  /\ edits < MaxEdits
  /\ EditAnyTime \/ \A h \in Hosts : pc[h] = "idle"
  /\ edits' = edits + 1 /\ file' = "external"
  /\ UNCHANGED <<store, ckpts, local, crashes, hist>>

Goto(h, l) == pc' = [pc EXCEPT ![h] = l]
Release(h) ==
  /\ Goto(h, "idle")
  /\ tok' = [tok EXCEPT ![h] = NoToken] /\ buf' = [buf EXCEPT ![h] = NoRecord]

\* A host dies, or a save raises: whatever it had loaded is gone.
Crash(h) ==
  /\ crashes < MaxCrashes /\ pc[h] # "idle"
  /\ crashes' = crashes + 1
  /\ Release(h)
  /\ UNCHANGED <<store, world, edits, hist>>

-----------------------------------------------------------------------------
(* A handler's moves on its own position, copy and record.                 *)

\* The record as it is on disk now.
OnDisk(h) == rec[tok[h]]

\* Load the record and alter the loaded copy; the record is untouched.
LoadThen(h, from, copy, to) ==
  /\ pc[h] = from
  /\ buf' = [buf EXCEPT ![h] = copy]
  /\ Goto(h, to)
  /\ UNCHANGED <<store, world, tok, crashes, edits, hist>>

\* Write the copy over whatever the record is by now.
Save(h) == rec' = [rec EXCEPT ![tok[h]] = buf[h]]

SaveThen(h, from, to) ==
  /\ pc[h] = from /\ Save(h) /\ Goto(h, to)
  /\ UNCHANGED <<effect, before, late, audit, world, tok, buf, crashes, edits, hist>>

SetExpired(r)  == [state |-> "expired", grant |-> r.grant]
SetStarted(r)  == [state |-> "execution_in_progress", grant |-> r.grant]
\* Mutant: a failure recorded with the success routine.
SetFailedAsConsumed(r) == [state |-> "grant_consumed", grant |-> r.grant]
SetFailed(r)   == [state |-> "execution_failed", grant |-> r.grant]
SetConsumed(r) == [state |-> "grant_consumed",
                   grant |-> IF r.grant = "none" THEN "none" ELSE "consumed"]
SetInvalidated(r) == [state |-> "grant_invalidated",
                      grant |-> IF r.grant = "none" THEN "none" ELSE "invalidated"]
SetRejected(r) == [state |-> "rejected",
                   grant |-> IF r.grant = "active" THEN "invalidated" ELSE r.grant]

-----------------------------------------------------------------------------
(* ApprovePendingActionTool.execute.                                       *)

\* First load: expiry is tested before the lifecycle state, a consumed
\* action returns idempotently, the refused states raise, and a failed
\* execution may be approved again.
Approve(h, t) ==
  /\ pc[h] = "idle" /\ t \in Staged
  /\ LET r == rec[t] IN
       \/ t \in late /\ Goto(h, "expire")
          /\ buf' = [buf EXCEPT ![h] = r]
       \/ /\ t \notin late /\ r.state \notin Refused \cup {"grant_consumed"}
          /\ runs[t] < MaxRuns
          /\ \/ r.grant = "none" /\ Goto(h, "attach_save")
                /\ buf' = [buf EXCEPT ![h] = [state |-> "grant_attached",
                                              grant |-> "active"]]
             \/ r.grant # "none" /\ Goto(h, "validate")
                /\ buf' = [buf EXCEPT ![h] = r]
  /\ tok' = [tok EXCEPT ![h] = t]
  /\ UNCHANGED <<store, world, crashes, edits, hist>>

ExpireLoad(h) == LoadThen(h, "expire", SetExpired(OnDisk(h)), "expire_save")
ExpireSave(h) ==
  /\ pc[h] = "expire_save" /\ Save(h) /\ Release(h)
  /\ UNCHANGED <<effect, before, late, audit, world, crashes, edits, hist>>

AttachGrant(h) == SaveThen(h, "attach_save", "reload")
Reload(h) == LoadThen(h, "reload", OnDisk(h), "validate")

\* Mutant: the file baseline is not compared again.
GrantValidIgnoringBaseline(h) == buf[h].grant = "active"

\* _validate_grant: the grant must be active and, for a file effect, the
\* target must still be what the effect was staged against.
GrantValid(h) ==
  /\ buf[h].grant = "active"
  /\ IsFile(tok[h]) => file = before[tok[h]]

Validate(h) ==
  /\ pc[h] = "validate"
  /\ Goto(h, IF GrantValid(h) THEN "start" ELSE "invalidate")
  /\ UNCHANGED <<store, world, tok, buf, crashes, edits, hist>>

InvalidateLoad(h) == LoadThen(h, "invalidate", SetInvalidated(OnDisk(h)), "invalidate_save")
InvalidateSave(h) == SaveThen(h, "invalidate_save", "audit")

\* The shell_command guardrail refuses: the grant stays attached.
ShellBlocked(h) ==
  /\ pc[h] = "start" /\ ~IsFile(tok[h])
  /\ Release(h)
  /\ UNCHANGED <<store, world, crashes, edits, hist>>

\* store.set_lifecycle(token, "execution_in_progress")
StartLoad(h) == LoadThen(h, "start", SetStarted(OnDisk(h)), "start_save")
StartSave(h) == SaveThen(h, "start_save", IF IsFile(tok[h]) THEN "checkpoint" ELSE "run")

\* A file effect: write the checkpoint (it holds the staged "before" text),
\* save the copy of the record with the checkpoint in its details, open the
\* file for writing, which empties it, and write.
Checkpoint(h) ==
  /\ pc[h] = "checkpoint"
  /\ ckpts' = ckpts \cup {tok[h]}
  /\ Save(h) /\ Goto(h, "open")
  /\ UNCHANGED <<effect, before, late, audit, file, tok, buf, crashes, edits, hist>>

OpenFile(h) ==
  /\ pc[h] = "open"
  /\ file' = "torn" /\ runs' = [runs EXCEPT ![tok[h]] = @ + 1]
  /\ Goto(h, "write")
  /\ UNCHANGED <<store, ckpts, tok, buf, crashes, edits, done, refused>>

WriteFile(h) ==
  /\ pc[h] = "write"
  /\ file' = effect[tok[h]] /\ done' = [done EXCEPT ![tok[h]] = @ + 1]
  /\ Goto(h, "consume")
  /\ UNCHANGED <<store, ckpts, tok, buf, crashes, edits, runs, refused>>

\* Any other effect (a sandboxed command, a patch, an import, a dynamic
\* tool): the executor runs, and only then is its outcome known.  A command
\* that ran in a sandbox may stage its patch as a further token; that is the
\* action Stage.
BeginRun(h) ==
  /\ pc[h] = "run"
  /\ runs' = [runs EXCEPT ![tok[h]] = @ + 1]
  /\ Goto(h, "wait")
  /\ UNCHANGED <<store, world, tok, buf, crashes, edits, done, refused>>

RunSucceeds(h) ==
  /\ pc[h] = "wait"
  /\ done' = [done EXCEPT ![tok[h]] = @ + 1]
  /\ Goto(h, "consume")
  /\ UNCHANGED <<store, world, tok, buf, crashes, edits, runs, refused>>

\* Mutant: the exception escapes and nothing is recorded.
ExecutorFailsUnrecorded(h) ==
  /\ pc[h] \in {"checkpoint", "open", "write", "wait"}
  /\ Release(h)
  /\ UNCHANGED <<store, world, crashes, edits, hist>>

\* The executor raises, or reports a failure.
ExecutorFails(h) ==
  /\ pc[h] \in {"checkpoint", "open", "write", "wait"}
  /\ Goto(h, "fail")
  /\ UNCHANGED <<store, world, tok, buf, crashes, edits, hist>>

\* _consume_success and _record_execution_failure
ConsumeLoad(h) == LoadThen(h, "consume", SetConsumed(OnDisk(h)), "consume_save")
ConsumeSave(h) == SaveThen(h, "consume_save", "audit")
FailLoad(h) == LoadThen(h, "fail", SetFailed(OnDisk(h)), "fail_save")
FailSave(h) == SaveThen(h, "fail_save", "audit")

\* write_audit_record: load the record, write the audit file for the state
\* just saved, save the loaded copy.
AuditLoad(h) ==
  /\ pc[h] = "audit"
  /\ audit' = [audit EXCEPT ![tok[h]] = @ \cup {buf[h].state}]
  /\ buf' = [buf EXCEPT ![h] = OnDisk(h)]
  /\ Goto(h, "audit_save")
  /\ UNCHANGED <<rec, effect, before, late, world, tok, crashes, edits, hist>>
AuditSave(h) ==
  /\ pc[h] = "audit_save" /\ Save(h) /\ Release(h)
  /\ UNCHANGED <<effect, before, late, audit, world, crashes, edits, hist>>

-----------------------------------------------------------------------------
(* RejectPendingActionTool.execute and RollbackFileCheckpointTool.execute. *)

\* Any state but "rejected" is rejected, a consumed one included.
Reject(h, t) ==
  /\ pc[h] = "idle" /\ t \in Staged /\ rec[t].state # "rejected"
  /\ tok' = [tok EXCEPT ![h] = t]
  /\ buf' = [buf EXCEPT ![h] = SetRejected(rec[t])]
  /\ Goto(h, "reject_save")
  /\ UNCHANGED <<store, world, crashes, edits, hist>>

RejectSave(h) ==
  /\ pc[h] = "reject_save" /\ Save(h) /\ Goto(h, "audit")
  /\ refused' = refused \cup {tok[h]}
  /\ UNCHANGED <<effect, before, late, audit, world, tok, buf, crashes, edits, runs, done>>

\* Restores the text saved in the checkpoint, whatever the file holds now.
Rollback(h, t) ==
  /\ pc[h] = "idle" /\ t \in ckpts
  /\ file' = before[t]
  /\ UNCHANGED <<store, ckpts, local, crashes, edits, hist>>

-----------------------------------------------------------------------------
HostStep(h) ==
  \/ ExpireLoad(h) \/ ExpireSave(h) \/ AttachGrant(h) \/ Reload(h)
  \/ Validate(h) \/ InvalidateLoad(h) \/ InvalidateSave(h) \/ ShellBlocked(h)
  \/ StartLoad(h) \/ StartSave(h) \/ Checkpoint(h) \/ OpenFile(h)
  \/ WriteFile(h) \/ BeginRun(h) \/ RunSucceeds(h) \/ ExecutorFails(h)
  \/ ConsumeLoad(h) \/ ConsumeSave(h) \/ FailLoad(h) \/ FailSave(h)
  \/ AuditLoad(h) \/ AuditSave(h) \/ RejectSave(h)

Next ==
  \/ \E t \in Tokens, e \in Effects : Stage(t, e)
  \/ \E t \in Tokens : ExpiryPasses(t)
  \/ ExternalEdit
  \/ \E h \in Hosts : HostStep(h) \/ Crash(h)
  \/ \E h \in Hosts, t \in Tokens : Approve(h, t) \/ Reject(h, t) \/ Rollback(h, t)

Spec == Init /\ [][Next]_vars

\* A handler that has begun runs on: its thread is scheduled.
FairSpec == Spec /\ \A h \in Hosts : WF_vars(HostStep(h))
-----------------------------------------------------------------------------
(* Properties.                                                             *)

\* The variables keep their types.
TypeOK ==
  /\ rec \in [Tokens -> Record]
  /\ effect \in [Tokens -> Effects \cup {"none"}]
  /\ before \in [Tokens -> Contents]
  /\ late \subseteq Tokens /\ ckpts \subseteq Tokens /\ refused \subseteq Tokens
  /\ file \in Contents
  /\ audit \in [Tokens -> SUBSET States]
  /\ pc \in [Hosts -> Pcs] /\ tok \in [Hosts -> Tokens \cup {NoToken}]
  /\ buf \in [Hosts -> Record]
  /\ crashes \in Nat /\ edits \in Nat
  /\ runs \in [Tokens -> Nat] /\ done \in [Tokens -> Nat]

\* A record, a grant or an audit file that says "consumed" is about an effect
\* that was executed successfully, whatever stale copies were saved over it.
ConsumedMeansExecuted ==
  \A t \in Tokens :
    \/ rec[t].state = "grant_consumed"
    \/ rec[t].grant = "consumed"
    \/ "grant_consumed" \in audit[t]
    => done[t] > 0

Begins(t) == runs'[t] # runs[t]

\* Exact effect: an effect is not begun once the rejection of its token was
\* saved; a file effect begins only on the content it was staged against, the
\* content the user saw in the diff; and the text it empties the file of is by
\* then in a checkpoint that rollback_file_checkpoint can restore.
ExactEffect ==
  [][\A t \in Tokens : Begins(t) =>
       /\ t \notin refused
       /\ IsFile(t) => /\ file = before[t]
                       /\ \E u \in ckpts : before[u] = file]_vars

\* The abstract view of a token.  It still waits while a host is on its way
\* to run it or to record a failure, or when a later approval may run it.
Status(t) ==
  LET at(P) == \E h \in Hosts : tok[h] = t /\ pc[h] \in P
  IN CASE done[t] > 1 -> "used twice"
       [] done[t] = 1 -> "used"
       [] done[t] = 0 /\ at({"write", "wait"}) -> "running"
       [] done[t] = 0 /\ ~at({"write", "wait"}) /\ t \notin Staged -> "unasked"
       [] OTHER ->
            IF \/ at({"attach_save", "reload", "validate", "start", "start_save",
                      "checkpoint", "open", "run", "fail", "fail_save"})
               \/ rec[t].state \in Active \cup {"execution_failed"} /\ t \notin late
            THEN "waiting" ELSE "void"

Grant == INSTANCE SingleUseGrant WITH status <- [t \in Tokens |-> Status(t)]

\* One host at a time implements the single-use grant, crashes included: what
\* was rejected, expired or abandoned never runs, what ran never runs again.
ImplementsSingleUseGrant == Grant!Spec

\* An execution that was begun is settled: unless a host died, the record does
\* not stay execution_in_progress, a state from which no approval can be
\* repeated, and an effect carried out ends up in the audit trail as consumed.
StartedSettles ==
  \A t \in Tokens :
    /\ rec[t].state = "execution_in_progress"
         ~> rec[t].state # "execution_in_progress" \/ crashes > 0
    /\ done[t] > 0 ~> "grant_consumed" \in audit[t] \/ crashes > 0

=============================================================================
