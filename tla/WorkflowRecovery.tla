--------------------------- MODULE WorkflowRecovery ---------------------------
(***************************************************************************)
(* Explicit resumption of a controlled coding workflow                     *)
(* (coding/workflow_recovery.py over coding/workflow_checkpoint_store.py). *)
(* One workflow of one session: a durable checkpoint with a revision; the  *)
(* approved action the workflow waits for, owned by the pending-action     *)
(* store; and the session transcript, which alone says whether the result  *)
(* of the action and the model's continuation were recorded.               *)
(*                                                                         *)
(* A call of resume_coding_workflow inspects the three, compares and swaps *)
(* the checkpoint to "intent committed" under the workspace lock, lets the *)
(* runtime continue once, looks for the evidence of that continuation and  *)
(* swaps the checkpoint to "completed".  Calls overlap, die at any step,   *)
(* and run next to a host that uses the same session.                      *)
(***************************************************************************)
EXTENDS ApplyLock, Naturals

CONSTANTS MaxCalls,   \* bound on the number of resume calls
          MaxRounds,  \* bound on the tool rounds of an injected turn
          Prior       \* the continuation of a checkpoint created as committed

ASSUME CallsAssumption == MaxCalls \in Nat /\ MaxRounds \in Nat
ASSUME PriorAssumption == Prior \notin Proc \X Nat

Cont == Proc \X Nat   \* a fresh uuid per call

VARIABLES checkpoint,  \* the checkpoint file
          action,      \* lifecycle of the action the workflow waits for
          results,     \* copies of its result evidence in the transcript
          plan,        \* whether the session has an active pending action
          queue,       \* whether the session has a queued message
          done,        \* continuations whose evidence a lookup finds
          pc, call,    \* control point and locals of each resume call
          calls,       \* number of calls started
          told         \* history: result ever recorded, evidence ever
                       \* recorded, continuations dispatched, tool rounds run

world == <<action, results, plan, queue, done>>
recoveryVars == <<checkpoint, world, pc, call, calls, told>>
vars == <<lockFile, lk, recoveryVars>>

\* validate_checkpoint: an intent excludes a pending action reference, and a
\* completed checkpoint has no open intent.
Valid(c) == /\ c.phase = "awaiting" => c.intent = "none"
            /\ c.phase = "completed" => c.intent = "session"

Checkpoints == {c \in [rev : Nat, phase : {"awaiting", "tool_completed", "completed"},
                       intent : {"none", "committed", "session"},
                       cont : Cont \cup {Prior}] : Valid(c)}

Committing == {"commit", "replace", "release"}
Continuing == {"call", "model", "turn", "persist", "confirm", "clear"}
Points == {"idle", "read", "judge", "reread", "rejudge", "finalize"} \cup Committing \cup Continuing

\* Locals: the caller's expected revision, the checkpoint last read, the
\* replacement to write, and whether it was written.
Blank == [rev |-> 0, phase |-> "awaiting", intent |-> "none", cont |-> Prior]
NoCall == [expect |-> 0, seen |-> Blank, want |-> Blank, written |-> FALSE]

TypeOK == /\ LockTypeOK
          /\ checkpoint \in Checkpoints
          /\ action \in {"active", "executing", "consumed", "dead"}
          /\ results \in 0 .. 2
          /\ plan \in BOOLEAN /\ queue \in BOOLEAN
          /\ done \subseteq Cont \cup {Prior}
          /\ pc \in [Proc -> Points]
          /\ call \in [Proc -> [expect : Nat, seen : Checkpoints, want : Checkpoints, written : BOOLEAN]]
          /\ calls \in Nat
          /\ told \in [result : BOOLEAN, proved : SUBSET (Cont \cup {Prior}),
                       dispatched : Nat, rounds : Nat]

\* A checkpoint is created waiting for the approval, after the tool, or with
\* a continuation already committed to the session.
Init == /\ LockInit
        /\ \/ /\ checkpoint \in {[Blank EXCEPT !.phase = ph] : ph \in {"awaiting", "tool_completed"}}
              /\ done = {}
              /\ action = "active" /\ results = 0
           \/ /\ checkpoint = [Blank EXCEPT !.phase = "tool_completed", !.intent = "session"]
              /\ done \in {{}, {Prior}}
              /\ action = "consumed" /\ results = 1
        /\ plan \in BOOLEAN /\ queue \in BOOLEAN
        /\ pc = [p \in Proc |-> "idle"]
        /\ call = [p \in Proc |-> NoCall]
        /\ calls = 0
        /\ told = [result |-> results = 1, proved |-> done, dispatched |-> 0, rounds |-> 0]

Goto(p, point) == pc' = [pc EXCEPT ![p] = point]
\* The call returns or raises; its locals are gone.
Answer(p) == Goto(p, "idle") /\ call' = [call EXCEPT ![p] = NoCall]
See(p, point) == Goto(p, point) /\ call' = [call EXCEPT ![p].seen = checkpoint]
Want(p, c) == Goto(p, "commit") /\ call' = [call EXCEPT ![p].want = c]

-----------------------------------------------------------------------------
(* Inspection *)

\* READY_FOR_CONTINUATION_INTENT: the grant was consumed and the transcript
\* holds exactly one result for it.
Ready(c) == /\ c.phase # "completed"
            /\ c.intent = "none"
            /\ action = "consumed"
            /\ results = 1

\* CONTINUATION_COMPLETED_IN_SESSION.
InSession(c) == /\ c.phase # "completed"
                /\ c.intent = "session" \/ (c.intent = "committed" /\ c.cont \in done)

\* The caller passes a revision it saw at some time.
Begin(p) == /\ pc[p] = "idle" /\ lk[p] = "idle"
            /\ calls < MaxCalls
            /\ calls' = calls + 1
            /\ \E e \in 0 .. checkpoint.rev : call' = [call EXCEPT ![p].expect = e]
            /\ Goto(p, "read")
            /\ UNCHANGED <<lockVars, checkpoint, world, told>>

Read(p) == /\ pc[p] = "read"
           /\ See(p, "judge")
           /\ UNCHANGED <<lockVars, checkpoint, world, calls, told>>

Judge(p) == LET c == call[p].seen
                current == c.rev = call[p].expect IN
            /\ pc[p] = "judge"
            /\ \/ current /\ Ready(c) /\ Goto(p, "reread") /\ UNCHANGED call
               \/ current /\ InSession(c) /\ Goto(p, "finalize") /\ UNCHANGED call
               \/ ~(current /\ (Ready(c) \/ InSession(c))) /\ Answer(p)
            /\ UNCHANGED <<lockVars, checkpoint, world, calls, told>>

Reread(p) == /\ pc[p] = "reread"
             /\ IF checkpoint.rev = call[p].expect THEN See(p, "rejudge") ELSE Answer(p)
             /\ UNCHANGED <<lockVars, checkpoint, world, calls, told>>

Intent(p, c) == [rev |-> c.rev + 1, phase |-> "tool_completed",
                 intent |-> "committed", cont |-> <<p, calls>>]

Rejudge(p) == /\ pc[p] = "rejudge"
              /\ IF Ready(call[p].seen) THEN Want(p, Intent(p, call[p].seen)) ELSE Answer(p)
              /\ UNCHANGED <<lockVars, checkpoint, world, calls, told>>

\* _finalize_session_committed_completion re-reads; only a checkpoint whose
\* own intent says session_committed goes on.
Finalize(p) == /\ pc[p] = "finalize"
               /\ IF checkpoint.rev = call[p].expect /\ checkpoint.intent = "session"
                  THEN See(p, "confirm") ELSE Answer(p)
               /\ UNCHANGED <<lockVars, checkpoint, world, calls, told>>

-----------------------------------------------------------------------------
(* replace_checkpoint: compare and swap under the workspace lock *)

Poll(p) == /\ pc[p] = "commit"
           /\ StartPolling(p)
           /\ UNCHANGED recoveryVars

Create(p) == CreateLock(p) /\ UNCHANGED recoveryVars

\* CheckpointLockUnavailable.
NotLocked(p) == /\ GiveUp(p) \/ WriteTokenFails(p)
                /\ Answer(p)
                /\ UNCHANGED <<checkpoint, world, calls, told>>

Locked(p) == WriteToken(p) /\ UNCHANGED recoveryVars

\* CheckpointTerminal or CheckpointStaleRevision leave by way of the release.
Compare(p) == /\ pc[p] = "commit" /\ lk[p] = "held"
              /\ Goto(p, IF /\ checkpoint.phase # "completed"
                            /\ checkpoint.rev = call[p].seen.rev
                         THEN "replace" ELSE "release")
              /\ UNCHANGED <<lockVars, checkpoint, world, call, calls, told>>

\* os.replace of a complete, synced temporary file.
Replace(p) == /\ pc[p] = "replace"
              /\ checkpoint' = call[p].want
              /\ call' = [call EXCEPT ![p].written = TRUE]
              /\ Goto(p, "release")
              /\ UNCHANGED <<lockVars, world, calls, told>>

\* Disk full, permission, directory fsync: the error is raised, before or
\* after the file was replaced.
ReplaceFails(p) == /\ pc[p] = "replace"
                   /\ checkpoint' \in {checkpoint, call[p].want}
                   /\ Goto(p, "release")
                   /\ UNCHANGED <<lockVars, world, call, calls, told>>

BeginRelease(p) == /\ pc[p] = "release"
                   /\ ReadToken(p)
                   /\ UNCHANGED recoveryVars

\* The lock is released before the provider is called.
Released(p) == /\ pc[p] = "release"
               /\ UnlinkLock(p)
               /\ IF call[p].written /\ call[p].want.intent = "committed"
                  THEN /\ Goto(p, "call")
                       /\ call' = [call EXCEPT ![p].seen = call[p].want, ![p].written = FALSE]
                  ELSE Answer(p)
               /\ UNCHANGED <<checkpoint, world, calls, told>>

\* WorkspaceApplyLockReleaseError leaves resume_coding_workflow unhandled.
NotReleased(p) == /\ pc[p] = "release"
                  /\ ReleaseFails(p)
                  /\ Answer(p)
                  /\ UNCHANGED <<checkpoint, world, calls, told>>

-----------------------------------------------------------------------------
(* AgentRuntime.continue_(continuation_id, stop_after_model_boundary)       *)
(* and the confirmation of its outcome                                     *)

Sent == told' = [told EXCEPT !.dispatched = @ + 1]

\* The planner approval of the session is still pending: continue_ reports
\* an error and returns, no request is made.
Refuse(p) == /\ pc[p] = "call" /\ plan
             /\ Sent
             /\ Goto(p, "confirm")
             /\ UNCHANGED <<lockVars, checkpoint, world, call, calls>>

\* A pending action that is no planner approval does not stop the runtime.
Request(p) == /\ pc[p] = "call" /\ ~queue
              /\ Sent
              /\ Goto(p, "model")
              /\ UNCHANGED <<lockVars, checkpoint, world, call, calls>>

\* A queued message is injected instead: _inject_controller_message makes a
\* context of its own, without continuation id and without the boundary.
Inject(p) == /\ pc[p] = "call" /\ queue
             /\ Sent
             /\ queue' = FALSE
             /\ Goto(p, "turn")
             /\ UNCHANGED <<lockVars, checkpoint, action, results, plan, done, call, calls>>

\* The injected turn runs tools and asks the model again.
RunTools(p) == /\ pc[p] = "turn"
               /\ told.rounds < MaxRounds
               /\ told' = [told EXCEPT !.rounds = @ + 1]
               /\ UNCHANGED <<lockVars, checkpoint, world, pc, call, calls>>

\* Mutant: a failed continuation is tried again.
RaisesRetry(p) == /\ pc[p] \in {"model", "turn"}
                  /\ Goto(p, "call")
                  /\ UNCHANGED <<lockVars, checkpoint, world, call, calls, told>>

\* The runtime raises; resume answers CONTINUATION_RUNTIME_FAILED.
Raises(p) == /\ pc[p] \in {"model", "turn"}
             /\ Answer(p)
             /\ UNCHANGED <<lockVars, checkpoint, world, calls, told>>

\* A provider error, or the end of an injected turn: continue_ returns and
\* nothing carries the continuation id.
Returns(p) == /\ pc[p] \in {"model", "turn"}
              /\ Goto(p, "confirm")
              /\ UNCHANGED <<lockVars, checkpoint, world, call, calls, told>>

\* The message with the continuation id is written to the session.
Record(p) == /\ done' = done \cup {call[p].seen.cont}
             /\ told' = [told EXCEPT !.proved = @ \cup {call[p].seen.cont}]

Speaks(p) == /\ pc[p] = "model"
             /\ Record(p)
             /\ Goto(p, "confirm")
             /\ UNCHANGED <<lockVars, checkpoint, action, results, plan, queue, call, calls>>

\* The model asks for tools: a planner approval is staged first ...
Stages(p) == /\ pc[p] = "model"
             /\ plan' = TRUE
             /\ Goto(p, "persist")
             /\ UNCHANGED <<lockVars, checkpoint, action, results, queue, done, call, calls, told>>

\* ... and the session written afterwards.
Persist(p) == /\ pc[p] = "persist"
              /\ Record(p)
              /\ Goto(p, "confirm")
              /\ UNCHANGED <<lockVars, checkpoint, action, results, plan, queue, call, calls>>

\* Mutant: the return of the runtime is taken for its success.
ConfirmUnseen(p) == /\ pc[p] = "confirm"
                    /\ Goto(p, "clear") /\ UNCHANGED call
                    /\ UNCHANGED <<lockVars, checkpoint, world, calls, told>>

\* lookup_model_continuation_completion_evidence: found exactly once, or
\* the answer is CONTINUATION_MISSING.
Confirm(p) == /\ pc[p] = "confirm"
              /\ IF call[p].seen.cont \in done
                 THEN Goto(p, "clear") /\ UNCHANGED call ELSE Answer(p)
              /\ UNCHANGED <<lockVars, checkpoint, world, calls, told>>

\* Mutant: the completion keeps the revision it replaces.
CompletedInPlace(c) == [c EXCEPT !.phase = "completed", !.intent = "session"]

Completed(c) == [rev |-> c.rev + 1, phase |-> "completed", intent |-> "session", cont |-> c.cont]

\* An active pending action of the session blocks the completion.
Clear(p) == /\ pc[p] = "clear"
            /\ IF plan THEN Answer(p) ELSE Want(p, Completed(call[p].seen))
            /\ UNCHANGED <<lockVars, checkpoint, world, calls, told>>

-----------------------------------------------------------------------------
(* The world around *)

\* The approval gate moves the action along; a consumed one counts as dead
\* once expires_at has passed.
ActionMoves ==
    /\ \E move \in {<<"active", "executing">>, <<"executing", "consumed">>,
                    <<"active", "dead">>, <<"executing", "dead">>, <<"consumed", "dead">>} :
           action = move[1] /\ action' = move[2]
    /\ UNCHANGED <<lockVars, checkpoint, results, plan, queue, done, pc, call, calls, told>>

\* record_external_approval_result, by the host that ran the action.
RecordResult == /\ action = "consumed"
                /\ results < 2
                /\ results' = results + 1
                /\ told' = [told EXCEPT !.result = TRUE]
                /\ UNCHANGED <<lockVars, checkpoint, action, plan, queue, done, pc, call, calls>>

\* Another persist re-appends the messages of a draft turn (evidence becomes
\* ambiguous), or resets a transcript it cannot match (evidence is lost).
SessionRewritten == /\ results' \in IF results = 0 THEN {0} ELSE {0, 2}
                    /\ done' = {}
                    /\ UNCHANGED <<lockVars, checkpoint, action, plan, queue, pc, call, calls, told>>

\* The host stages or settles a pending action of the session, and queues
\* or drains a message.
HostTurn == /\ \/ plan' = ~plan /\ UNCHANGED queue
               \/ queue' = ~queue /\ UNCHANGED plan
            /\ UNCHANGED <<lockVars, checkpoint, action, results, done, pc, call, calls, told>>

Crash(p) == /\ pc[p] # "idle"
            /\ LoseHandle(p)
            /\ Answer(p)
            /\ UNCHANGED <<checkpoint, world, calls, told>>

ManualCleanUp == CleanUp /\ UNCHANGED recoveryVars

Step(p) == \/ Read(p) \/ Judge(p) \/ Reread(p) \/ Rejudge(p) \/ Finalize(p)
           \/ Poll(p) \/ Create(p) \/ NotLocked(p) \/ Locked(p)
           \/ Compare(p) \/ Replace(p) \/ ReplaceFails(p)
           \/ BeginRelease(p) \/ Released(p) \/ NotReleased(p)
           \/ Refuse(p) \/ Request(p) \/ Inject(p) \/ RunTools(p)
           \/ Raises(p) \/ Returns(p) \/ Speaks(p) \/ Stages(p) \/ Persist(p)
           \/ Confirm(p) \/ Clear(p)

Next == \/ \E p \in Proc : Begin(p) \/ Step(p) \/ Crash(p)
        \/ ActionMoves \/ RecordResult \/ SessionRewritten \/ HostTurn
        \/ ManualCleanUp

Spec == Init /\ [][Next]_vars

\* A call that started keeps running; the world owes it nothing.
FairSpec == Spec /\ \A p \in Proc : WF_vars(Step(p))

-----------------------------------------------------------------------------
(* Properties *)

\* However many calls resume the workflow, with whatever revision, crash or
\* retry, the runtime continues it at most once ("one resume call may
\* dispatch at most one ... continuation", "repeated resume does not retry
\* the model").
AtMostOneContinuation == told.dispatched <= 1

\* The continuation is dispatched only over a result that the transcript had
\* recorded, although the action and the transcript are read at two moments
\* and may both have changed since.
IntentFollowsResult == checkpoint.intent # "none" => told.result

Won(p) == /\ pc[p] \in Continuing \cup {"commit", "replace"}
          /\ call[p].seen.intent = "committed"

\* From the pre-call swap to its answer the winner owns the checkpoint: what
\* it last wrote is what the file says, so its second swap cannot be stale.
WinnerKeepsCheckpoint == \A p \in Proc : Won(p) => checkpoint = call[p].seen

\* Of all the calls one wins, and it stays the winner to its end.
OneWinner == AtMostOneContinuation /\ WinnerKeepsCheckpoint

\* The checkpoint says completed only if the transcript has recorded the
\* continuation it names.
CompletedHasEvidence == checkpoint.phase = "completed" => checkpoint.cont \in told.proved

\* The checkpoint never runs ahead of what the transcript has recorded.
EvidenceFirst == IntentFollowsResult /\ CompletedHasEvidence

\* Every write of the checkpoint moves to the next revision, none follows
\* completion, and the continuation once committed is never exchanged.
CheckpointOnlyAdvances ==
    [][checkpoint' # checkpoint =>
          /\ checkpoint.phase # "completed"
          /\ checkpoint'.rev = checkpoint.rev + 1
          /\ checkpoint.intent # "none" => checkpoint'.cont = checkpoint.cont]_checkpoint

\* Every resume call answers, also when the lock of a dead process stays.
ResumeAnswers == \A p \in Proc : pc[p] # "idle" ~> pc[p] = "idle"

=============================================================================
