----------------------------- MODULE Subagents -----------------------------
(* Subagent orchestration: SubAgentOrchestrator walks the task graph of a      *)
(* workflow, batch by batch, within a budget of agents; a batch of several     *)
(* nodes runs in parallel threads under one deadline, the node that edits runs *)
(* in a git worktree and leaves a staged patch.  A thread that misses its      *)
(* deadline is not stopped.  The children share the cancellation token of the  *)
(* parent's run, and a child's AgentRuntime.prompt clears it.                  *)
EXTENDS Integers, FiniteSets

CONSTANTS
    AgentRequests,  \* the values of max_agents a caller may ask for
    MaxCancels,     \* how often the user cancels
    MaxWrites       \* edits a worker makes in its worktree

ASSUME BoundsAssumption ==
    /\ AgentRequests \subseteq Int /\ IsFiniteSet(AgentRequests)
    /\ MaxCancels \in Nat /\ MaxWrites \in Nat

VARIABLES
    ask,        \* what the run was asked for, and what its goal allows
    phase,      \* where SubAgentOrchestrator.run is
    batched,    \* the nodes of the batches taken so far
    awaited,    \* the nodes whose futures the coordinator waits for
    left,       \* remaining_budget
    board,      \* the blackboard: the status of a node's manifest
    attempt,    \* the attempt of _run_worktree_node
    job,        \* every submitted call of _run_sync_step
    tree,       \* what was written into the worktrees since their baselines
    staged,     \* the patch artifacts staged for approval
    token,      \* CancellationToken.cancelled
    cancels     \* how often it was set

control == <<phase, batched, awaited, left, board, attempt>>
runVars == <<ask, control, job, tree, staged, token, cancels>>

-----------------------------------------------------------------------------
(* The task graphs.                                                            *)

Research == {"memory_lookup", "repo_research", "api_trace"}

\* workflow_template: the nodes of a workflow, listed in this order.
Template(flow) ==
    CASE flow = "code_change" -> Research \union {"implementation_plan", "code_patch", "change_review"}
      [] flow = "debug"       -> {"memory_lookup", "test_investigation", "change_review"}
      [] flow = "research"    -> Research
Order == <<"memory_lookup", "repo_research", "api_trace", "test_investigation",
           "implementation_plan", "code_patch", "change_review">>
\* runnable_batches keeps the nodes of a batch in this order.
Precedes(m, n) == \E i, j \in DOMAIN Order : i < j /\ Order[i] = m /\ Order[j] = n

DependsOn(flow, n) ==
    CASE flow = "code_change" /\ n = "implementation_plan" -> Research
      [] flow = "code_change" /\ n = "code_patch"          -> {"implementation_plan"}
      [] flow = "code_change" /\ n = "change_review"       -> {"code_patch"}
      [] OTHER                                             -> {}

Flows == {"research", "debug", "code_change"}
Nodes == UNION {Template(f) : f \in Flows}
Attempts == 1 .. 2
MaxRetries == IF ask.edits THEN 1 ELSE 0

\* The agents a run may start: the requested number, raised to 6 for an edit workflow
\* whose caller named none, and kept between 1 and 8.
AgentBudget(a) ==
    LET asked == IF a.request = 0 THEN 1 ELSE a.request
        wanted == IF a.flow = "code_change" /\ a.edits /\ ~a.explicit /\ asked = 4 THEN 6 ELSE asked
    IN  IF wanted < 1 THEN 1 ELSE IF wanted > 8 THEN 8 ELSE wanted

-----------------------------------------------------------------------------
(* Jobs: one per node, and one per attempt for the node that edits.            *)

Jobs == {j \in Nodes \X Attempts : j[2] = 1 \/ j[1] = "code_patch"}
JobOf(n) == <<n, IF n = "code_patch" THEN attempt ELSE 1>>
Phases == {"none", "queued", "ready", "running", "success", "failed", "raised", "dropped"}
Over == {"success", "failed", "raised"}
Begun(n) == \E a \in Attempts : <<n, a>> \in Jobs /\ job[<<n, a>>] # "none"

StepStatuses == {"none", "success", "failed", "raised", "timeout", "canceled", "skipped"}
\* Mutant of TreeOf: the attempts share a path.
TreeOfTask(a) == 1
\* worktree_path ends in attempt-<n>: every attempt has a tree of its own.
TreeOf(a) == a
EmptyTree == [by |-> {}, edits |-> 0]
Trees == [by : SUBSET (Attempts \union {0}), edits : 0 .. 2 * MaxWrites]
Patches == [attempt : Attempts, by : SUBSET (Attempts \union {0}), edits : 0 .. 2 * MaxWrites]

EditsInTree == ask.flow = "code_change" /\ ask.edits

RunTypeOK ==
    /\ ask \in [flow : Flows, edits : BOOLEAN, request : AgentRequests, explicit : BOOLEAN, simple : BOOLEAN]
    /\ phase \in {"batch", "parallel", "one", "create", "worktree", "finalize", "empty", "done", "raised"}
    /\ batched \subseteq Nodes /\ awaited \subseteq Nodes /\ left \in 0 .. 8
    /\ board \in [Nodes -> StepStatuses] /\ attempt \in Attempts
    /\ job \in [Jobs -> Phases] /\ tree \in [Attempts -> Trees]
    /\ staged \subseteq Patches
    /\ token \in BOOLEAN /\ cancels \in 0 .. MaxCancels

RunInit ==
    /\ ask \in {a \in [flow : Flows, edits : BOOLEAN, request : AgentRequests,
                       explicit : BOOLEAN, simple : BOOLEAN] :
                   a.simple => a.edits /\ a.flow = "code_change"}
    /\ phase = "batch" /\ batched = {} /\ awaited = {} /\ left = AgentBudget(ask)
    /\ board = [n \in Nodes |-> "none"] /\ attempt = 1
    /\ job = [j \in Jobs |-> "none"] /\ tree = [a \in Attempts |-> EmptyTree] /\ staged = {}
    /\ token = FALSE /\ cancels = 0

-----------------------------------------------------------------------------
(* The coordinator.                                                            *)

\* runnable_batches: what no batch has taken yet and depends only on what was taken.
Batch == {n \in Template(ask.flow) : n \notin batched /\ DependsOn(ask.flow, n) \subseteq batched}

\* should_skip: a node whose dependency is on the board and did not succeed; the review
\* is exempt, it has to see the failure.
Failed(n) == board[n] \notin {"none", "success"}
\* Mutant of ShouldSkip: only the patch looks at what it depends on.
ShouldSkipPatchOnly(n) == n = "code_patch" /\ Failed("implementation_plan")
ShouldSkip(n) ==
    \/ n = "code_patch" /\ Failed("implementation_plan")
    \/ n # "change_review" /\ \E d \in DependsOn(ask.flow, n) : Failed(d)

Skipped == {n \in Batch : ShouldSkip(n)}
Ready == Batch \ Skipped
\* runnable[:remaining_budget].
FirstOf(first, k) ==
    /\ Cardinality(first) <= k /\ (first = Ready \/ Cardinality(first) = k)
    /\ \A n \in first, m \in Ready : Precedes(m, n) => m \in first

Submit(js) == job' = [j \in Jobs |-> IF j \in js THEN "queued" ELSE job[j]]
\* A node's part of the run is over: its manifest goes to the board.
Put(n, status) == board' = [board EXCEPT ![n] = status]
\* future.cancel() and shutdown(cancel_futures=True) reach only what no thread has taken.
Dropped(ns) == [j \in Jobs |-> IF j[1] \in ns /\ job[j] = "queued" THEN "dropped" ELSE job[j]]

TakeBatch ==
    /\ phase = "batch" /\ left > 0 /\ Batch # {}
    /\ batched' = batched \union Batch
    /\ board' = [n \in Nodes |-> IF n \in Skipped THEN "skipped" ELSE board[n]]
    /\ \E first \in SUBSET Ready :
          /\ FirstOf(first, left)
          /\ awaited' = first /\ left' = left - Cardinality(first)
          /\ \/ first = {} /\ phase' = "batch" /\ UNCHANGED job
             \/ first = {"code_patch"} /\ ask.edits /\ phase' = "create" /\ UNCHANGED job
             \/ /\ first # {} /\ ~(first = {"code_patch"} /\ ask.edits)
                /\ phase' = IF Cardinality(first) = 1 THEN "one" ELSE "parallel"
                /\ Submit({JobOf(n) : n \in first})
    /\ UNCHANGED <<ask, attempt, tree, staged, token, cancels>>

EndRun ==
    /\ phase = "batch" /\ (left <= 0 \/ Batch = {})
    /\ phase' = "done"
    /\ UNCHANGED <<ask, batched, awaited, left, board, attempt, job, tree, staged, token, cancels>>

\* _run_parallel_nodes: wait(..., FIRST_COMPLETED) hands over what is done by then.
Collect ==
    LET done == {n \in awaited : job[JobOf(n)] \in Over}
    IN  /\ phase = "parallel" /\ done # {}
        /\ board' = [n \in Nodes |-> IF n \notin done THEN board[n]
                                     ELSE IF job[JobOf(n)] = "success" THEN "success" ELSE "failed"]
        /\ awaited' = awaited \ done
        /\ phase' = IF awaited' = {} THEN "batch" ELSE "parallel"
        /\ UNCHANGED <<ask, batched, left, attempt, job, tree, staged, token, cancels>>

\* The batch's deadline: whatever still runs is reported as timed out and left running.
Expire ==
    /\ phase = "parallel"
    /\ board' = [n \in Nodes |-> IF n \in awaited THEN "timeout" ELSE board[n]]
    /\ job' = Dropped(awaited)
    /\ awaited' = {} /\ phase' = "batch"
    /\ UNCHANGED <<ask, batched, left, attempt, tree, staged, token, cancels>>

\* _run_one ends with status s, for a plain node or for an attempt in a worktree.
Ends(s) ==
    \E n \in awaited :
        /\ Put(n, s) /\ job' = Dropped({n})
        /\ IF phase = "one" THEN awaited' = {} /\ phase' = "batch"
                         ELSE phase' = "finalize" /\ UNCHANGED awaited
        /\ UNCHANGED <<ask, batched, left, attempt, tree, staged, token, cancels>>

Waiting == phase \in {"one", "worktree"}
OneCanceled == Waiting /\ token /\ Ends("canceled")
\* Mutant of OneExpires: the executor joins its thread before the node is given up.
OneExpiresJoined == Waiting /\ ~token /\ (\A n \in awaited : job[JobOf(n)] \in Over) /\ Ends("timeout")
OneExpires  == Waiting /\ ~token /\ Ends("timeout")
OneReturns  == Waiting /\ \E s \in {"success", "failed"} :
                   (\E n \in awaited : job[JobOf(n)] = s) /\ Ends(s)
\* What fork_session raises is re-raised by future.result() and ends the whole run.
OneRaises ==
    /\ Waiting /\ \E n \in awaited : job[JobOf(n)] = "raised"
    /\ phase' = "raised"
    /\ UNCHANGED <<ask, batched, awaited, left, board, attempt, job, tree, staged, token, cancels>>

-----------------------------------------------------------------------------
(* _run_worktree_node.                                                         *)

\* WorktreeManager.create removes what an earlier tree of the same path held.
CreateTree ==
    /\ phase = "create"
    /\ tree' = [tree EXCEPT ![TreeOf(attempt)] = EmptyTree]
    /\ Submit({<<"code_patch", attempt>>}) /\ phase' = "worktree"
    /\ UNCHANGED <<ask, batched, awaited, left, board, attempt, staged, token, cancels>>

NoTree ==
    /\ phase = "create"
    /\ Put("code_patch", "skipped") /\ awaited' = {} /\ phase' = "batch"
    /\ UNCHANGED <<ask, batched, left, attempt, job, tree, staged, token, cancels>>

Stage(t) == staged' = staged \union {[attempt |-> attempt, by |-> t.by, edits |-> t.edits]}

\* finalize: a difference becomes a staged artifact, whatever the status of the step.
StagePatch ==
    /\ phase = "finalize" /\ tree[TreeOf(attempt)] # EmptyTree
    /\ Stage(tree[TreeOf(attempt)])
    /\ awaited' = {} /\ phase' = "batch"
    /\ UNCHANGED <<ask, batched, left, board, attempt, job, tree, token, cancels>>

NoDifference ==
    /\ phase = "finalize" /\ tree[TreeOf(attempt)] = EmptyTree
    /\ phase' = "empty"
    /\ UNCHANGED <<ask, batched, awaited, left, board, attempt, job, tree, staged, token, cancels>>

\* finalize raises when git fails, and nothing on the way catches it.
GitFails ==
    /\ phase = "finalize" /\ phase' = "raised"
    /\ UNCHANGED <<ask, batched, awaited, left, board, attempt, job, tree, staged, token, cancels>>

\* _apply_deterministic_patch_request: a goal that spells out a one-line edit is carried
\* out by the coordinator itself, and the step becomes a success.
Fallback ==
    /\ phase = "empty" /\ ask.simple
    /\ tree' = [tree EXCEPT ![TreeOf(attempt)].by = @ \union {0}]
    /\ Stage(tree'[TreeOf(attempt)])
    /\ Put("code_patch", "success")
    /\ awaited' = {} /\ phase' = "batch"
    /\ UNCHANGED <<ask, batched, left, attempt, job, token, cancels>>

\* No patch: a success without one is a failure; try again while retries are left.
NoPatch ==
    /\ phase = "empty"
    /\ IF board["code_patch"] = "success" THEN Put("code_patch", "failed") ELSE UNCHANGED board
    /\ IF attempt > MaxRetries
       THEN awaited' = {} /\ phase' = "batch" /\ UNCHANGED attempt
       ELSE attempt' = attempt + 1 /\ phase' = "create" /\ UNCHANGED awaited
    /\ UNCHANGED <<ask, batched, left, job, tree, staged, token, cancels>>

-----------------------------------------------------------------------------
(* A child: SubAgentManager.run_sync in a thread of the executor.              *)

Moves(j, from, to) == job[j] = from /\ job' = [job EXCEPT ![j] = to]
Aside == UNCHANGED <<ask, control, staged, cancels>>

\* run_sync refuses a cancelled token and an unusable specification before it forks, looks
\* at the token again, and reports what goes wrong while it builds the child's runtime.
Refuse(j) == Moves(j, "queued", "failed") /\ UNCHANGED <<tree, token>> /\ Aside
Fork(j) == ~token /\ Moves(j, "queued", "ready") /\ UNCHANGED <<tree, token>> /\ Aside
ForkRaises(j) == ~token /\ Moves(j, "queued", "raised") /\ UNCHANGED <<tree, token>> /\ Aside

\* AgentRuntime.prompt clears the token before anything else.
Prompt(j) == Moves(j, "ready", "running") /\ token' = FALSE /\ UNCHANGED tree /\ Aside

\* A tool of the child writes into its worktree, whether anybody waits for it or not.
WriteTree(j) ==
    /\ job[j] = "running" /\ j[1] = "code_patch" /\ EditsInTree
    /\ tree[TreeOf(j[2])].edits < MaxWrites
    /\ tree' = [tree EXCEPT ![TreeOf(j[2])] = [by |-> @.by \union {j[2]}, edits |-> @.edits + 1]]
    /\ UNCHANGED <<job, token>> /\ Aside

\* The tail of the run loop clears a cancel it has seen, so that raise_if_cancelled no
\* longer finds it; a summary that is missing or malformed makes the result a failure.
Return(j, result) == Moves(j, "running", result) /\ token' = FALSE /\ UNCHANGED tree /\ Aside
\* An exception out of the loop (a turn limit, a provider) skips the tail.
Break(j) == Moves(j, "running", "failed") /\ UNCHANGED <<tree, token>> /\ Aside

Child(j) == \/ Refuse(j) \/ Fork(j) \/ ForkRaises(j) \/ Prompt(j) \/ WriteTree(j)
            \/ Return(j, "success") \/ Return(j, "failed") \/ Break(j)

\* The user cancels the parent's run.
Cancel ==
    /\ cancels < MaxCancels /\ phase \notin {"done", "raised"}
    /\ token' = TRUE /\ cancels' = cancels + 1
    /\ UNCHANGED <<ask, control, job, tree, staged>>

Coordinate ==
    \/ TakeBatch \/ EndRun \/ Collect \/ Expire
    \/ OneCanceled \/ OneExpires \/ OneReturns \/ OneRaises
    \/ CreateTree \/ NoTree \/ StagePatch \/ NoDifference \/ GitFails \/ Fallback \/ NoPatch

RunNext == Coordinate \/ Cancel \/ \E j \in Jobs : Child(j)

RunSpec == RunInit /\ [][RunNext]_runVars
\* The coordinator's thread is scheduled and its clock runs.  Nothing is assumed of the
\* children: a model or a tool may hang for ever.
FairRunSpec == RunSpec /\ WF_runVars(Coordinate)

-----------------------------------------------------------------------------
(* Properties.                                                                 *)

\* No subagent starts on a guess: whatever the budget cut off, skipped or timed out, a
\* node is started only over the successful results of all it depends on, and the review
\* only once the patch's outcome is known; the run starts no more agents than its budget,
\* and accounts for every one it started (SubAgentOrchestrator.run, should_skip).
StartsOnResults ==
    /\ RunTypeOK
    /\ \A n \in Nodes : Begun(n) =>
          \A d \in DependsOn(ask.flow, n) :
              IF n = "change_review" THEN board[d] # "none" ELSE board[d] = "success"
    /\ Cardinality({n \in Nodes : Begun(n)}) <= AgentBudget(ask)
    /\ phase = "done" => \A n \in Nodes : Begun(n) => board[n] # "none"

\* A patch is the work of one attempt: what a worker that was given up goes on writing
\* never reaches the patch of a later attempt (WorktreeManager.create), and a run stages
\* at most one.  And a reported success is finished work: unless the coordinator made the
\* edit itself, the patch of a step that succeeded holds everything its worker ever wrote,
\* and there is one (_run_worktree_node).
PatchIsOneAttempt ==
    /\ \A p \in staged : p.by \subseteq {0, p.attempt}
    /\ Cardinality(staged) <= 1
    /\ EditsInTree /\ ~ask.simple /\ board["code_patch"] = "success" /\ phase \in {"batch", "done"} =>
          /\ staged # {}
          /\ \A p \in staged : p.edits = tree[TreeOf(p.attempt)].edits

\* An orchestration answers, although its children may hang for ever.
EveryRunAnswers == <>(phase \in {"done", "raised"})
=============================================================================
