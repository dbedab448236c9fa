---------------------------- MODULE CodingTasks ----------------------------
(***************************************************************************)
(* The controlled coding workflow over one workspace's pending actions:    *)
(*   coding/runtime_loop.py          run_controlled_coding_loop            *)
(*   web/coding_service.py           CodingWorkflowService (one task)      *)
(*   coding/validation_execution.py  one approval-gated pytest validation  *)
(*   coding/validation_repair.py     one repair turn, one re-validation    *)
(*   coding/pytest_provenance.py     the attestation pytest leaves behind  *)
(*   cli/commands/approvals.py       approve or reject, then resume        *)
(* A coding task (Web), a validation cycle (a library call sequence) and   *)
(* the command line share the workspace's store of pending actions, and    *)
(* each of them sees every action in it.                                   *)
(*                                                                         *)
(* An approval is its two ends: the check that marks the action running,   *)
(* and the end of the execution.  How two hosts race inside the check is   *)
(* ApprovalGate's subject.  Expiry and exact-effect digests are left out,  *)
(* for the same reason; a grant that is attached and not used is "live".   *)
(* A pytest run is its result: the exit status of the process, whether     *)
(* pytest lived to finish, and whether the plugin wrote the attestation.   *)
(*                                                                         *)
(* Bounds: Edits is the pool of tokens for file edits, MaxTurns the turns  *)
(* of the controlled loop; the cycle stages at most two validations.       *)
(***************************************************************************)
EXTENDS Naturals, FiniteSets

CONSTANTS Edits,      \* tokens of edits the model stages, in any session
          Requests,   \* web request threads that answer approvals
          MaxTurns,
          Scenes      \* who shares the workspace: sets of "task", "cycle",
                      \* "shell" and request threads; TasksInit picks one

Tests  == {"validation", "revalidation"}
Tokens == Edits \cup Tests
None   == "none"
Elsewhere == "elsewhere"   \* another host ran the test under its token

ASSUME TokensAssumption == None \notin Edits /\ Edits \cap Tests = {}
ASSUME ScenesAssumption == Scenes \subseteq SUBSET ({"task", "cycle", "shell"} \cup Requests)
ASSUME TurnsAssumption  == MaxTurns \in Nat \ {0}

\* A pytest run: its exit status, named as the category pytest_provenance gives
\* that status, and whether the attestation was written.  A process that dies
\* before pytest_sessionfinish attests nothing, whatever it exits with; one that
\* hangs afterwards is timed out with its attestation on disk.
Codes   == {"passed", "tests_failed", "usage_error"}
Results == [exit : Codes, wrote : BOOLEAN, died : {FALSE}, late : BOOLEAN]
           \cup [exit : Codes, wrote : {FALSE}, died : {TRUE}, late : {FALSE}]
Succeeds(run) == run.exit = "passed" /\ ~run.late

Statuses == {"none", "running", "awaiting_approval", "guardrail_blocked",
             "scope_blocked", "failed", "completed", "approval_failed"}
Verdicts == {"not_run", "approval_pending", "passed", "failed", "blocked",
             "validation_nonzero"}

VARIABLES
  hosts,     \* the scene, which never changes
  action,    \* token -> its state in the store
  artifact,  \* test token -> the attestation file at its path, or None
  loop,      \* the controlled loop of the task
  task,      \* the task as the service's store holds it
  request,   \* thread -> the answer it is handling
  shell,     \* the token the command line is executing, or None
  cycle,     \* the validation cycle's frozen state, and where its host stands
  \* History, which no action reads:
  undecided, \* edits the task's loop staged and nobody started or rejected
  missed,    \* those of them that the listings behind the task's state left out
  owed,      \* tokens the task listed, neither executed well nor rejected
  truth,     \* test token -> what its last run really was, or None, or Elsewhere
  runs       \* executions the cycle's host started

store     == <<action, artifact, undecided, owed, truth>>
web       == <<hosts, missed, loop, task, request>>
tasksVars == <<store, web, shell, cycle, runs>>

Live  == {t \in Tokens : action[t] = "live"}
Fresh == {e \in Edits : action[e] = "none"}
Runnable(t) == action[t] \in {"live", "failed"}

IdleRequest == [pc |-> "idle", kind |-> "approve", token |-> None,
                base |-> [status |-> "none", listed |-> {}], ok |-> FALSE]

ActionStates == {"none", "live", "running", "failed", "done", "rejected"}
LoopStates == [pc : {"turn", "decide", "report", "over"}, turn : 0..MaxTurns,
               event : {"clear", "guardrail", "scope"}, status : Statuses]
TaskStates == [status : Statuses, listed : SUBSET Tokens]
RequestStates == [pc : {"idle", "gate", "running", "update"}, ok : BOOLEAN,
                  kind : {"approve", "reject"}, token : Tokens \cup {None},
                  base : TaskStates]
CycleStates ==
  [pc : {"start", "staged", "running", "observed", "repairing", "collect", "over"},
   status : {"none", "not_repairable", "repair_pending", "repair_blocked",
             "revalidation_pending", "completed"},
   token : Tests \cup {None}, verdict : Verdicts, executions : 0..2,
   blocked : BOOLEAN, repaired : BOOLEAN, revalidated : BOOLEAN]
Truths == Codes \cup {"died", "late", None, Elsewhere}

TasksTypeOK ==
  /\ hosts \in Scenes
  /\ action \in [Tokens -> ActionStates]
  /\ artifact \in [Tests -> Codes \cup {None}]
  /\ loop \in LoopStates
  /\ task \in TaskStates
  /\ request \in [Requests -> RequestStates]
  /\ shell \in Tokens \cup {None}
  /\ cycle \in CycleStates
  /\ truth \in [Tests -> Truths]
  /\ undecided \in SUBSET Edits /\ missed \in SUBSET Edits /\ owed \in SUBSET Tokens
  /\ runs \in Nat

TasksInit ==
  /\ hosts \in Scenes
  /\ action = [t \in Tokens |-> "none"]
  /\ artifact = [t \in Tests |-> None]
  /\ loop = [pc |-> "turn", turn |-> 0, event |-> "clear", status |-> "running"]
  /\ task = [status |-> "none", listed |-> {}]
  /\ request = [r \in Requests |-> IdleRequest]
  /\ shell = None
  /\ cycle = [pc |-> "start", status |-> "none", token |-> None, verdict |-> "not_run",
              blocked |-> FALSE, repaired |-> FALSE, revalidated |-> FALSE,
              executions |-> 1]
  /\ undecided = {} /\ missed = {} /\ owed = {}
  /\ truth = [t \in Tests |-> None]
  /\ runs = 0

-----------------------------------------------------------------------------
\* The store of pending actions.

\* collect_pending_approvals.  A file that is being written is skipped, and a
\* file that vanishes under the listing turns it into an empty one.
Listings == SUBSET Live

WithLive(states, S) == [t \in Tokens |-> IF t \in S THEN "live" ELSE states[t]]

\* A model turn stages some edits.
StageEdits(S) == action' = WithLive(action, S)

Begin(t) ==
  /\ action' = [action EXCEPT ![t] = "running"]
  /\ undecided' = undecided \ {t}

\* The execution ends, well or not, whatever became of the record meanwhile;
\* the resumed agent then stages S.
End(t, good, S) ==
  /\ action' = WithLive([action EXCEPT ![t] = IF good THEN "done" ELSE "failed"], S)
  /\ owed' = IF good THEN owed \ {t} ELSE owed

\* pytest ran; the attestation is written over the last one at its path.
Attested(t, run) == IF run.wrote THEN run.exit ELSE artifact[t]
\* No longer known once another host ran the test.
Found(t, run) == IF truth[t] = Elsewhere THEN Elsewhere
                 ELSE IF run.died THEN "died"
                 ELSE IF run.late THEN "late" ELSE run.exit

\* An execution by a host other than the cycle's; S as in End.
EndElsewhere(t, S, ok) ==
  \/ /\ t \in Edits
     /\ \E good \in BOOLEAN : End(t, good, S) /\ ok = good
     /\ UNCHANGED <<artifact, truth>>
  \/ /\ t \in Tests
     /\ \E run \in Results :
          /\ End(t, Succeeds(run), S) /\ ok = Succeeds(run)
          /\ artifact' = [artifact EXCEPT ![t] = Attested(t, run)]
     /\ truth' = [truth EXCEPT ![t] = Elsewhere]

Reject(t, S) ==
  /\ action' = WithLive([action EXCEPT ![t] = "rejected"], S)
  /\ undecided' = undecided \ {t}
  /\ owed' = owed \ {t}

-----------------------------------------------------------------------------
\* The controlled loop that runs a task.

\* One prompt or continue_ of the runtime.  It stages any number of edits and
\* may meet a guardrail or the write scope.
LoopTurn ==
  /\ "task" \in hosts /\ loop.pc = "turn"
  /\ \E S \in SUBSET Fresh, event \in {"clear", "guardrail", "scope"} :
       /\ StageEdits(S)
       /\ undecided' = undecided \cup S
       /\ loop' = [loop EXCEPT !.pc = "decide", !.turn = @ + 1, !.event = event]
  /\ UNCHANGED <<hosts, missed, artifact, owed, truth, task, request, shell, cycle, runs>>

LoopRaises ==
  /\ "task" \in hosts /\ loop.pc = "turn"
  /\ \E S \in SUBSET Fresh :
       /\ StageEdits(S)
       /\ undecided' = undecided \cup S
  /\ loop' = [loop EXCEPT !.pc = "report", !.status = "failed"]
  /\ UNCHANGED <<hosts, missed, artifact, owed, truth, task, request, shell, cycle, runs>>

\* Guardrail, then scope, then any pending action the listing shows.
StopDecision(listing) ==
  CASE loop.event = "guardrail" -> "guardrail_blocked"
    [] loop.event = "scope"     -> "scope_blocked"
    [] loop.event = "clear" /\ listing # {} -> "awaiting_approval"
    [] OTHER                    -> "running"

LoopDecides ==
  /\ loop.pc = "decide"
  /\ \E listing \in Listings :
       LET decision == StopDecision(listing)
       IN /\ loop' = IF decision # "running"
                     THEN [loop EXCEPT !.pc = "report", !.status = decision]
                     ELSE IF loop.turn = MaxTurns
                     THEN [loop EXCEPT !.pc = "report", !.status = "completed"]
                     ELSE [loop EXCEPT !.pc = "turn"]
          /\ missed' = undecided \ listing
  /\ UNCHANGED <<hosts, store, task, request, shell, cycle, runs>>

\* The pending actions are collected once more, for the task's first state.  What
\* the deciding listing left out matters only if it made the task complete.
LoopReports ==
  /\ loop.pc = "report"
  /\ \E listing \in Listings :
       /\ task' = [status |-> loop.status, listed |-> listing]
       /\ owed' = listing
       /\ missed' = (IF loop.status = "completed" THEN missed ELSE {})
                      \cup (undecided \ listing)
  /\ loop' = [loop EXCEPT !.pc = "over"]
  /\ UNCHANGED <<hosts, action, artifact, undecided, truth, request, shell, cycle, runs>>

-----------------------------------------------------------------------------
\* Answers by way of the service.  A thread computes the next state from the
\* one it read before the handler ran.

Ask(r) ==
  /\ r \in hosts /\ request[r].pc = "idle"
  /\ \E t \in task.listed, kind \in {"approve", "reject"} :
       request' = [request EXCEPT ![r] = [pc |-> "gate", kind |-> kind, token |-> t,
                                          base |-> task, ok |-> FALSE]]
  /\ UNCHANGED <<hosts, missed, store, loop, task, shell, cycle, runs>>

Answered(r, ok) == request' = [request EXCEPT ![r].pc = "update", ![r].ok = ok]

ApproveBegins(r) ==
  LET t == request[r].token
  IN /\ request[r].pc = "gate" /\ request[r].kind = "approve"
     /\ Runnable(t)
     /\ Begin(t)
     /\ request' = [request EXCEPT ![r].pc = "running"]
     /\ UNCHANGED <<hosts, missed, artifact, owed, truth, loop, task, shell, cycle, runs>>

\* The session is restored and continued after an execution, good or not; an
\* error there is reported as a failed approval.
ApproveEnds(r) ==
  /\ request[r].pc = "running"
  /\ \E S \in SUBSET Fresh, good \in BOOLEAN, resumed \in BOOLEAN :
       /\ EndElsewhere(request[r].token, S, good)
       /\ Answered(r, good /\ resumed)
  /\ UNCHANGED <<hosts, missed, undecided, loop, task, shell, cycle, runs>>

\* Consumed already: the answer is success, and the session is resumed.
ApproveAgain(r) ==
  /\ request[r].pc = "gate" /\ request[r].kind = "approve"
  /\ action[request[r].token] = "done"
  /\ \E S \in SUBSET Fresh, resumed \in BOOLEAN : StageEdits(S) /\ Answered(r, resumed)
  /\ UNCHANGED <<hosts, missed, artifact, undecided, owed, truth, loop, task, shell, cycle, runs>>

\* The gate refuses the action, or a step before it fails.
ApproveFails(r) ==
  /\ request[r].pc = "gate" /\ request[r].kind = "approve"
  /\ Answered(r, FALSE)
  /\ UNCHANGED <<hosts, missed, store, loop, task, shell, cycle, runs>>

RejectStores(r) ==
  /\ request[r].pc = "gate" /\ request[r].kind = "reject"
  /\ \E S \in SUBSET Fresh : Reject(request[r].token, S)
  /\ Answered(r, TRUE)
  /\ UNCHANGED <<hosts, missed, artifact, truth, loop, task, shell, cycle, runs>>

\* The handler raises: the service rejects on its own, and says so.
RejectWaved(r) ==
  /\ request[r].pc = "gate" /\ request[r].kind = "reject"
  /\ undecided' = undecided \ {request[r].token}
  /\ owed' = owed \ {request[r].token}
  /\ Answered(r, TRUE)
  /\ UNCHANGED <<hosts, missed, action, artifact, truth, loop, task, shell, cycle, runs>>

\* Mutant of AfterAnswer: a failed answer takes the action off the list too.
AfterAnswerAlwaysRemoves(base, t, kind, ok) ==
  LET rest == base.listed \ {t}
  IN [status |-> CASE ok /\ rest = {}          -> "completed"
                   [] kind = "approve" /\ ~ok  -> "approval_failed"
                   [] OTHER                    -> base.status,
      listed |-> rest]
AfterAnswer(base, t, kind, ok) ==
  LET rest == IF ok THEN base.listed \ {t} ELSE base.listed
  IN [status |-> CASE ok /\ rest = {}          -> "completed"
                   [] kind = "approve" /\ ~ok  -> "approval_failed"
                   [] OTHER                    -> base.status,
      listed |-> rest]

Update(r) ==
  /\ request[r].pc = "update"
  /\ task' = AfterAnswer(request[r].base, request[r].token, request[r].kind, request[r].ok)
  /\ request' = [request EXCEPT ![r] = IdleRequest]
  /\ UNCHANGED <<hosts, missed, store, loop, shell, cycle, runs>>

-----------------------------------------------------------------------------
\* Another session stages an edit; the command line answers any action, and
\* resumes the session that staged it.

OthersStage ==
  /\ "shell" \in hosts
  /\ \E e \in Fresh : StageEdits({e})
  /\ UNCHANGED <<artifact, undecided, owed, truth, web, shell, cycle, runs>>

ShellBegins ==
  /\ "shell" \in hosts /\ shell = None
  /\ \E t \in Tokens : Runnable(t) /\ Begin(t) /\ shell' = t
  /\ UNCHANGED <<artifact, owed, truth, web, cycle, runs>>

ShellEnds ==
  /\ shell # None
  /\ \E S \in SUBSET Fresh, good \in BOOLEAN : EndElsewhere(shell, S, good)
  /\ shell' = None
  /\ UNCHANGED <<undecided, web, cycle, runs>>

ShellRejects ==
  /\ "shell" \in hosts /\ shell = None
  /\ \E t \in Tokens, S \in SUBSET Fresh :
       action[t] \notin {"none", "rejected"} /\ Reject(t, S)
  /\ UNCHANGED <<artifact, truth, web, shell, cycle, runs>>

-----------------------------------------------------------------------------
\* The validation cycle.

\* verify_pytest_provenance_attestation: the attestation is there and agrees
\* with the exit status of a process that was not timed out.
Verified(t, run) == ~run.late /\ Attested(t, run) = run.exit

\* Mutant of StatusOf: exit status 0 is a pass, attested or not.
StatusTrustingTheExit(t, run) ==
  CASE run.late                                          -> "blocked"
    [] run.exit = "passed" /\ ~run.late                  -> "passed"
    [] Verified(t, run) /\ run.exit = "tests_failed"      -> "failed"
    [] OTHER                                             -> "validation_nonzero"
\* validation_observation_from_result_details.
StatusOf(t, run) ==
  CASE run.late                                          -> "blocked"
    [] Verified(t, run) /\ run.exit = "passed"            -> "passed"
    [] Verified(t, run) /\ run.exit = "tests_failed"      -> "failed"
    [] OTHER                                             -> "validation_nonzero"

\* An instrumented command with a fresh nonce: nothing is at its path yet.
StageTest(t) == action' = [action EXCEPT ![t] = "live"]

StageValidation ==
  /\ "cycle" \in hosts /\ cycle.pc = "start"
  /\ \/ /\ StageTest("validation")
        /\ cycle' = [cycle EXCEPT !.pc = "staged", !.token = "validation",
                                  !.verdict = "approval_pending"]
     \/ \* no eligible command, or the instrumentation or the staging fails
        /\ \E verdict \in {"not_run", "blocked"} :
             cycle' = [cycle EXCEPT !.pc = "observed", !.verdict = verdict]
        /\ UNCHANGED action
  /\ UNCHANGED <<artifact, undecided, owed, truth, web, shell, runs>>

\* Where an approved validation leaves the cycle: the first result goes back
\* to the host, the second one ends the cycle.
AfterValidation(verdict) ==
  IF cycle.repaired
  THEN [cycle EXCEPT !.pc = "over", !.status = "completed", !.revalidated = TRUE,
                     !.verdict = verdict, !.executions = 2]
  ELSE [cycle EXCEPT !.pc = "observed", !.verdict = verdict]

RunValidation ==
  /\ Runnable(cycle.token)
  /\ Begin(cycle.token)
  /\ runs' = runs + 1
  /\ cycle' = [cycle EXCEPT !.pc = "running"]
  /\ UNCHANGED <<artifact, owed, truth>>

\* Consumed elsewhere, refused by the gate, or held back by a guardrail.
ValidationBlocked ==
  /\ cycle' = AfterValidation("blocked")
  /\ UNCHANGED <<store, runs>>

ApproveValidation ==
  /\ cycle.pc = "staged"
  /\ RunValidation \/ ValidationBlocked
  /\ UNCHANGED <<web, shell>>

RejectValidation ==
  /\ cycle.pc = "staged" /\ ~cycle.repaired
  /\ \/ Reject(cycle.token, {}) /\ UNCHANGED <<artifact, truth>>
     \/ UNCHANGED store                               \* the handler raises
  /\ cycle' = AfterValidation("blocked")
  /\ UNCHANGED <<web, shell, runs>>

\* The attestation is removed once it was looked at.  A sandboxed run that
\* succeeds may stage the changes it made.
ValidationEnds ==
  /\ cycle.pc = "running"
  /\ \E run \in Results, S \in SUBSET Fresh :
       /\ S # {} => Succeeds(run)
       /\ End(cycle.token, Succeeds(run), S)
       /\ artifact' = [artifact EXCEPT ![cycle.token] = None]
       /\ truth' = [truth EXCEPT ![cycle.token] = Found(cycle.token, run)]
       /\ cycle' = AfterValidation(StatusOf(cycle.token, run))
  /\ UNCHANGED <<undecided, web, shell, runs>>

Repair ==
  /\ cycle.pc = "observed"
  /\ cycle' = IF cycle.verdict = "failed"
              THEN [cycle EXCEPT !.pc = "repairing", !.repaired = TRUE]
              ELSE [cycle EXCEPT !.pc = "over", !.status = "not_repairable"]
  /\ UNCHANGED <<store, web, shell, runs>>

Blocked == [cycle EXCEPT !.pc = "over", !.status = "repair_blocked", !.verdict = "blocked"]

\* A re-validation was staged, or its staging failed, and none was approved.
Restaged == cycle.repaired /\ cycle.status \in {"revalidation_pending", "completed"}

\* The one repair turn: it stages edits, may be held back, may raise.
RepairTurn ==
  /\ cycle.pc = "repairing"
  /\ \E S \in SUBSET Fresh :
       /\ StageEdits(S)
       /\ \/ \E b \in BOOLEAN : cycle' = [cycle EXCEPT !.pc = "collect", !.blocked = b]
          \/ cycle' = Blocked
  /\ UNCHANGED <<artifact, undecided, owed, truth, web, shell, runs>>

\* The pending actions are listed once for the next three: some are shown, or
\* none is, because there is none or because the listing left them out.
RepairPending ==
  /\ cycle.pc = "collect" /\ \E listing \in Listings : listing # {}
  /\ cycle' = [cycle EXCEPT !.pc = "over", !.status = "repair_pending",
                            !.verdict = "approval_pending"]
  /\ UNCHANGED <<store, web, shell, runs>>

RepairBlocked ==
  /\ cycle.pc = "collect" /\ cycle.blocked
  /\ cycle' = Blocked
  /\ UNCHANGED <<store, web, shell, runs>>

StageRevalidation ==
  /\ cycle.pc = "collect" /\ ~cycle.blocked
  /\ \/ /\ StageTest("revalidation")
        /\ cycle' = [cycle EXCEPT !.pc = "over", !.status = "revalidation_pending",
                                  !.token = "revalidation", !.verdict = "approval_pending"]
     \/ /\ cycle' = [cycle EXCEPT !.pc = "over", !.status = "completed", !.verdict = "blocked",
                                  !.token = None]
        /\ UNCHANGED action
  /\ UNCHANGED <<artifact, undecided, owed, truth, web, shell, runs>>

\* Mutant of Complete: the host's second call re-validates once more.
CompleteEachTime ==
  /\ cycle.pc = "over"
  /\ IF ~Restaged
     THEN cycle' = Blocked /\ UNCHANGED <<store, runs>>
     ELSE \/ cycle.token # None /\ RunValidation
          \/ ValidationBlocked
  /\ UNCHANGED <<web, shell>>
\* complete_revalidation_after_approval, with the state of the last call: done
\* already, never staged, or the one approval of the same command.
Complete ==
  /\ cycle.pc = "over"
  /\ IF cycle.revalidated THEN UNCHANGED <<hosts, missed, store, cycle, runs>>
     ELSE IF ~Restaged THEN cycle' = Blocked /\ UNCHANGED <<store, runs>>
     ELSE \/ cycle.token # None /\ RunValidation
          \/ ValidationBlocked
  /\ UNCHANGED <<web, shell>>

-----------------------------------------------------------------------------
TasksNext ==
  \/ LoopTurn \/ LoopRaises \/ LoopDecides \/ LoopReports
  \/ \E r \in Requests : \/ Ask(r) \/ ApproveBegins(r) \/ ApproveEnds(r)
                         \/ ApproveAgain(r) \/ ApproveFails(r)
                         \/ RejectStores(r) \/ RejectWaved(r) \/ Update(r)
  \/ OthersStage \/ ShellBegins \/ ShellEnds \/ ShellRejects
  \/ StageValidation \/ ApproveValidation \/ RejectValidation \/ ValidationEnds
  \/ Repair \/ RepairTurn \/ RepairPending \/ RepairBlocked \/ StageRevalidation
  \/ Complete

TasksSpec == TasksInit /\ [][TasksNext]_tasksVars

-----------------------------------------------------------------------------
\* What the coding surface tells its user about staged actions can be relied
\* on, whatever other requests, sessions and hosts do meanwhile.  An action
\* the task once listed leaves the list only when its execution succeeded,
\* its rejection was stored, or the service said that it alone rejected it
\* (CodingWorkflowService.approve_action, reject_action).  A task is never
\* "completed" while an edit its own loop staged still waits for a decision
\* (_stop_decision, _state_with_approval_result), except an edit that one of the
\* two listings behind the task's state left out: an error of list() reads as
\* "nothing pending" (collect_pending_approvals).  The states are well typed.
TaskTellsTheTruth ==
  /\ TasksTypeOK
  /\ owed \subseteq task.listed
  /\ task.status = "completed" => undecided \subseteq missed

\* The cycle says "passed" only of a pytest run that really passed, and it
\* prompts for a repair only after a run whose tests really failed: an exit
\* status alone proves neither (verify_pytest_provenance_attestation,
\* validation_repair_trigger_allowed).  It holds of validations that no other
\* host executed under the same token.
VerdictIsProven ==
  /\ cycle.verdict = "passed" => truth[cycle.token] \in {"passed", Elsewhere}
  /\ cycle.repaired => truth["validation"] \in {"tests_failed", Elsewhere}

\* A cycle starts at most two executions (MAX_VALIDATION_EXECUTIONS), however
\* often its host repeats the last call, and the count it reports is never
\* below the number it started (complete_revalidation_after_approval).
CycleIsBounded ==
  /\ runs <= 2
  /\ cycle.pc = "over" => runs <= cycle.executions
=============================================================================
