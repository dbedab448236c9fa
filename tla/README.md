# Verification of pp-Echo

This directory holds TLA+ models of the parts of pp-Echo (`src/pp_agent`) in which
ordering, failure or concurrency decide whether the program is correct, the TLC
configurations that check them, and TLAPS proofs about ten of them. Line numbers refer to
the commit the project was written against; `PROJECT.json` gives, for every definition, the
lines it models.

1. [The system](#1-the-system)
2. [Modules](#2-modules)
3. [Runs](#3-runs)
4. [What the code does otherwise than it says](#4-what-the-code-does-otherwise-than-it-says)
5. [Proofs](#5-proofs)
6. [What is not modelled](#6-what-is-not-modelled)
7. [Plan](#7-plan)

To repeat the checks: `tlc -workers 2 -config <cfg> <module>` for the runs of section 3 (a
`MC*.cfg` without a module of its name belongs to the module it names without `MC`), and
`tlapm <module>` for the eight `*Proofs` modules. Every run takes less than three minutes.

## 1. The system

pp-Echo is a coding agent. A model proposes tool calls; the risky ones are staged and wait for
a person; the conversation is kept in a file per session. It is driven from a command line, a
terminal interface, a web server and a chat bot, all of which work on the same files under
`.pp-agent/`, possibly at the same time. There is no broker: what components share are JSON
files, one SQLite ledger, and, inside the web server, one Python object per session that
several threads touch.

| component | state it keeps | operations | interacts through |
|---|---|---|---|
| **Approval gate** `storage/approvals.py`, `tools/file_tools.py` | one JSON file per token: lifecycle state, grant, expiry, audit and checkpoint references | stage, approve (validate, execute, consume or fail), reject, expire, audit, roll back a file checkpoint | whole-file loads and saves without a lock; the workspace files |
| **Patch apply and workspace lock** `runtime/workspace_lock.py`, `tools/file_tools.py` | `.pp-agent/locks/apply.lock`, the workspace, a snapshot in memory | validate, acquire, snapshot, checked writes, restore, release | called by the gate as the executor of a patch action; editors and other processes change the same files |
| **Coding workflow recovery** `coding/workflow_recovery.py`, `coding/workflow_checkpoint_store.py` | a checkpoint file with a revision | inspect, resume (compare-and-swap to an intent, continue the model once, confirm, compare-and-swap to completed) | reads the gate's action and the session's evidence; calls `AgentRuntime.continue_`; the same lock class |
| **Coding tasks, validation and repair** `coding/runtime_loop.py`, `web/coding_service.py`, `coding/validation_*.py`, `coding/pytest_provenance.py` | a task per request loop, a chain of frozen cycle states, attestation files | controlled loop, approve and reject an action of a task, validate, repair once, re-validate once | the pending actions of the workspace, shared with the command line |
| **Turn loop** `runtime/runtime.py`, `runtime/turn_loop.py` | messages, pending plan, approval flag, queue, cancellation token, all in memory | prompt, continue, enqueue, approve and reject a plan, cancel, the loop with its nested loops, persist | threads of the web handle; the session store; the gate's token files |
| **Tool registry, policy, effects** `tools/registry.py`, `tools/policy.py`, `tools/effects.py`, `runtime/hooks.py` | registered tools and metadata, policy, guardrail counters | evaluate a call, route it (run, stage, refuse), clone for a subagent, label the action it staged | the turn loop before and after a call; the gate's store |
| **Web session handle** `web/session_manager.py`, `web/server.py` | one worker thread and a busy lock per session | prompt, continue, approve, reject, cancel | calls the runtime |
| **Session store** `storage/sessions.py`, `runtime/session_host.py` | a snapshot: the transcript, a tree of turn and compaction nodes, a head, pending plan and queue | sync a branch, recover a base, save, load, move the head, fork, rewind | the runtime's `_persist` and `restore_session_record` |
| **Subagents** `subagents/orchestrator.py`, `subagents/manager.py`, worktrees | the board of a workflow's nodes, a worktree, a staged patch | batches under a deadline, dependency and budget rules, the worktree node with one retry, fallback | child sessions in threads; the parent's cancellation token; git |
| **MCP sessions** `mcp/session.py`, `mcp/manager.py` | one process, response queue and request counter per server | negotiate by trial and restart, list, call, close | a reader thread per process |
| **Bot gateway** `integrations/qqbot/*`, `web/session_manager.py` | the keys of seen events with a time to live, a lock and a count per conversation | deliver, dedupe, queue, run under a timeout, reply, force stop | an asyncio loop, one thread per run, the session's handle |
| **Core memory** `memory/core_service.py`, `memory/core_store.py`, `memory/markdown_writer.py` | a SQLite ledger, an audit table, a Markdown file | propose, approve, reject, archive, replace, merge, compact, export | separate transactions and file accesses by any process |

The other components (safe rewind and git checkpoints, context pipeline, retrieval, learning,
capabilities, model providers, interfaces, sandbox, evaluation and so on) are listed in
`PROJECT.json`, each with the reason it is not modelled; section 6 has the ones that deserve a model.

**What is hard about it.**

* *Interleaving and atomicity.* The gate loads a record, decides, and saves its own copy
  later. `_persist` fills a snapshot in three steps while another thread appends to the queue. A
  resume inspects three stores one after the other before its compare-and-swap. A coding task
  is computed from a state read before an execution that takes minutes. Two approvals patch
  one Markdown file. Two sessions relabel one shared action.
* *Crash and restart.* Between `execution_in_progress` and `grant_consumed`; between the
  files of a patch; between the intent swap and the evidence of the continuation; between the
  removal of a plan's token file and the plan's execution; between a bullet and its ledger row.
* *Late and repeated deliveries.* A worker that outlives its deadline; an answer of a process
  that was given up; an event the platform sends again; a test attestation of another run.
* *Partial failure.* A write that truncates and raises, a rollback that stops half-way, a lock
  that cannot be removed, a listing whose error reads as an empty one, a turn that ends without a
  text, an exception that leaves the loop past its tail, a tool round that fails with a steering
  message waiting.
* *Stale state.* An approval of a diff whose file has changed; an approval flag that outlives
  its plan; a base of the session tree that no longer begins the conversation.
* *Liveness.* Cancelling nested loops; waiting for a lock whose owner is dead; an
  orchestration whose children hang; a server that never answers or never reads.

## 2. Modules

```
SingleUseGrant  <= refinement = ApprovalGate <- MCApprovalGate, ApprovalGateProofs
ApplyLock <- PatchApply <- MCPatchApply, CodingProofs
ApplyLock <- WorkflowRecovery <- WorkflowRecoveryProofs
CodingTasks <- MCCodingTasks, CodingProofs
Subagents <- CodingProofs
TurnLoop <- MCTurnLoop, TurnLoopProofs
ToolCalls <- MCToolCalls, ToolCallsProofs
SessionTree <- SessionStore <- MCSessionStore
McpSession <- McpSessionProofs
BotGateway <- MCBotGateway, BotGatewayProofs
CoreMemory <- MCCoreMemory, CoreMemoryProofs
```

CodingProofs has a part for each of PatchApply, CodingTasks and Subagents, the three ways in which
code changes come about; the three share no variable and no definition.

**ApprovalGate** has one action per load, per save and per effect of the three tools that
handle a token. `rec` is the files of the store, `buf[h]` the copy that host `h` loaded,
`pc[h]` where its handler stands; a step `x` followed by `x_save` is a load-and-save pair of the
code. A host is a web request thread or a command; a crash stands for its death and for an
exception out of a save. `runs` and `done` count the executions begun and finished.
**SingleUseGrant** is what a token promises without files: unasked, waiting, running, used,
void. `Status(t)` in ApprovalGate is the refinement mapping, and the abstract specification
is checked as a property of the concrete one.

**ApplyLock** is the lock file: created with `O_CREAT|O_EXCL`, filled in a second step, released
by reading one's own token back and unlinking. `Stale` stands for a file whose token no live
handle knows: of a process that died, of a release that failed, or of an acquisition whose token
could not be written and whose unlink failed after it (`WriteTokenFails`), which raises without a
word of the file. It is not a specification of its own; PatchApply and WorkflowRecovery are built
from its actions, as the code uses one class for both.

**PatchApply** is `apply_patch_candidate` with structured changes: a process's `pc` runs from
`validate` through `acquire`, `snapshot`, then per file `apply`, `write` and `verify`, and
`restore` after any failure, to `release`. `call[p]` holds the locals, `seen[p]` remembers the
workspace at the time of the lock and whether an editor interfered.

**WorkflowRecovery** has the checkpoint (`checkpoint`), the action it waits for (`action`),
the evidence in the transcript (`results`, `done`) and one resume call per process. Reading,
judging, re-reading, polling, comparing, replacing, releasing, continuing, confirming are
steps of their own, because all of them may see another world. The gate, the session's host
and the rewriting of the transcript are the environment (`ActionMoves`, `HostTurn`,
`RecordResult`, `SessionRewritten`).

**CodingTasks** has the store of pending actions (`action`) that everything on the workspace
shares, the controlled loop and its task, answers to the task's actions in request threads (an
answer begins, runs, and is written into the task from the state it read first), the validation
cycle as the chain of frozen states its host carries, and the command line. A `scene` says which
of them run together. What the loop decides and reports on is a listing (`Listings`), which need
not have every pending action. A pytest run is its exit status and whether it attested
(`Results`); `truth` remembers what really happened.

**TurnLoop** has the memory of the runtime (`pending`, `approvedFlag`, `queue`, `convo`,
`cancel`), the token files (`files`), the last snapshot (`disk`) and every thread's position in
the code. The thread `Worker` is the one `_start_worker` creates, `Hosts` are HTTP threads or the
user interface. `depth` counts the nested run loops of injected messages. The model, the tools and
the verification gate answer nondeterministically. The hook before a tool may raise, which is
outside the loop's `try`: `HookRaises` leaves all nested loops at once with the process alive,
past the reset of `approvedFlag` and past the persist. `setting` says which host drives the
runtime: whether calls overlap (web) or come one at a time (command line), whether there are
cancels, whether the hook may raise, and how many plans, messages and crashes occur.

**ToolCalls** is a call from the model to its effect: the hook before the call, the registry with
its second and third evaluation, the three ways of routing (built-in, dynamic, worktree),
guardrails, the staging with its search for an active twin, and the two steps in which the session
that asked is written into the action. A tool is its `ToolMetadata`; paths and commands are kinds
(`PathArgs`, `Commands`). What a call *may do* (`MayTouch`: the worktree, a workspace, what is
outside, the network, the conversation, the memory) is defined apart from what the program
*thinks* it does (`Analysis`): a shell command may do anything, however its text was classified, a
dynamic tool acts on the workspace it was built for, the safe rewind restores files and
conversation.

**SessionTree** is the session record as pure operators, written with recursive functions over
node ids: the branch of a head, segmentation into turns, normalization, sync, search for a
base, the repair at save, fork and rewind. **SessionStore** is the runtime's use of it: a turn
is the messages it adds and the moments it is saved at. `Upsets` names the circumstances
the store copes badly with, so that a run can say which of them it allows: a save inside a
turn (`inside`), a turn no user's message begins (`headless`), a conversation that begins with
none (`bare`), a move away from a pending plan (`strayed`).

**Subagents** has the coordinator (batches, deadline, one worktree node with its retry and its
fallback) and the children as jobs that start, hang, fail, and go on writing after they were
given up. `board` is what the run reports of a node, `job` what its thread really does, `tree`
what an attempt's worktree contains, `staged` the patches.

**McpSession** has the client of one server, the processes it started, each with its pipe, its
reader and what it still has to say, and the dialect the server really speaks. A restart replaces
queue and request ids, the readers stay. A request is a blocking write: it may complete, fail, or
block (`WriteBlocks`) until the server reads on (`ServerDrains`) or dies.

**BotGateway** has the tasks of the event loop, the waiters of one conversation, the threads of
the runs, and the handles of the session with their turns. Deliveries are told from the messages
they are of (`Key`), the store may forget (`Forget`), a turn may end without a text (`EndTurn`),
and what is sent back is the last text of the session, of whatever turn (`Join`). A session file
may be gone before the turn or after it.

**CoreMemory** has the ledger, the audit, the bullets of the Markdown file, and callers whose
calls are chains of single transactions and file accesses. A summary says some of the facts of its
sources, as it is cut at the limit of its section.

The modules meet at their edges. What ApprovalGate does with a token appears in WorkflowRecovery
as `ActionMoves`, in TurnLoop as `files`, in CodingTasks as the two ends of an answer and in
ToolCalls as `Resolve`; what SessionStore does to a transcript appears in WorkflowRecovery as
`SessionRewritten` and in TurnLoop as `disk`; PatchApply is what the executor step (`BeginRun` ..
`RunSucceeds`) of ApprovalGate runs for a patch; a child of Subagents is a session of ToolCalls
with a profile; BotGateway's turns are TurnLoop's, down to a last look into the queue;
`HookRaises` is the same exception in ToolCalls and TurnLoop.

## 3. Runs

| run | question | instance | states |
|---|---|---|---|
| `approval_gate` | Does the gate keep its promises if a host runs, dies and runs again? | 1 token, an edit and a shell effect, 2 crashes, 2 external edits, 2 executions | 25,439 |
| `patch_apply` | Exclusion, atomicity, left-over locks, answers | 2 processes, 3 overlapping candidates over 2 files (change, create, delete), 1 edit from outside; each process may die | 537,983 |
| `workflow_recovery` | At most one continuation; evidence before completion | 2 processes, 2 calls, 1 tool round | 141,624 |
| `coding_tasks` | Can a task, a verdict and a cycle be relied on with others on the same workspace? | pairs of a task with two requests, a cycle and the command line; 2 edits, 2 turns, every test result, every listing may fail | 3,110,956 |
| `turn_loop` | Approvals, order, durability, cancellation | five settings. Command line: 1 plan, 2 messages of both deliveries and 1 crash; 2 plans and 1 message; 3 plans and 1 crash; in each the hook may raise. Web: 2 messages and cancels at any step; 1 message, cancels and the hook | 690,310 |
| `tool_calls` | Does every effect get its review, under every policy? | 13 tools, 4 modes, 3 name rules, 2 calls; one session with and without a limit, a worktree subagent, pairs of sessions | 783,057 |
| `session_store` | Is the saved branch the conversation; do committed turns stay? | 4 messages, 4 nodes, 1 queued message, saves inside turns, headless turns | 62,385 |
| `subagents` | Who starts on what, what is in a patch, does the run answer? | every workflow, every budget it leads to, 1 cancel, 2 edits per worker | 624,524 |
| `mcp_session` | Whose answer is it, which processes stay, does a use end? | 3 uses, 4 processes, any dialect under any configuration, writes that block | 332,261 |
| `bot_gateway` | Once per event, the right answer, always settled? | 3 deliveries of 2 messages, queue of 1, 1 fault: a forced stop, keys that are forgotten, or a file that is gone | 429,215 |
| `core_memory` | Is the Markdown file what users consented to, and does the ledger know it? | 2 callers, 3 calls, 3 rows of which up to 2 are old, any cut of a summary, 1 fault (a crash or an edit) | 1,916,631 |
| `turn_flag_leaks` | section 4 | 2 plans, cancels, no message, no exception | a counterexample |

**What the properties say.**

* ApprovalGate: `ExactEffect` (an execution begins only on what the user saw, after its
  checkpoint, never after its rejection), `ConsumedMeansExecuted`, `ImplementsSingleUseGrant`
  (refinement), `StartedSettles`.
* PatchApply: `AllOrNothing`, `LockIsSound` (applies exclude each other, and a lock that guarded
  an apply is never left behind unnoticed; one that guarded none may be, section 4),
  `StaleBlocksWrites` (nobody writes under a dead process's lock), `EveryApplyAnswers`.
* WorkflowRecovery: `OneWinner` (one continuation, and its second swap cannot be stale),
  `EvidenceFirst`, `CheckpointOnlyAdvances`, `ResumeAnswers`.
* CodingTasks: `TaskTellsTheTruth` (an action leaves the list only when it was answered; no
  "completed" over an undecided edit, except one that a failed listing left out),
  `VerdictIsProven`, `CycleIsBounded`.
* TurnLoop: `OneLeakPerException` (one call at a time and no cancel: only approved plans run, but
  for one after each approved round that an exception of the hook left), `PlanRunsOnce`,
  `AckedIsDurable` (one call at a time: an acknowledged message is in the snapshot; at rest the
  snapshot has exactly memory's messages, and is all that memory holds unless an exception left
  the last loop), `HeardOnceInOrder`, `SteeringFirst`, `CancelStops`. `PlanRunsOnlyIfApproved`,
  with no exception named, is what `turn_flag_leaks` refutes.
* ToolCalls: `NothingUnreviewed` (no call has an effect without a host's review but those of
  `MayRunUnreviewed`: the tools nothing guards, the safe rewind, the proposal of a memory and the
  start of a subagent; the web and browser tools; what a session does in its worktree, where a
  tool declared "required" is not isolated), `CallsAreBounded`, `StagedForTheAsker`,
  `ReviewEndsTheTurn`.
* SessionStore: `BranchIsMemory`, `ForkHoldsBranch`, `CommittedTurnsAreKept`.
* Subagents: `StartsOnResults`, `PatchIsOneAttempt`, `EveryRunAnswers`.
* McpSession: `UseGetsItsAnswer`, `NoProcessForgotten`, `UseEnds` (unless a server lives on and never
  reads what is being written to it).
* BotGateway: `OncePerEvent` (a message is handled for one delivery, and for one more for each
  time the store lost its key; a second prompt of one delivery only after its session could not be
  shown), `AnswersTheMessage` (what is sent back is the text of the message's own turn, or an
  older one only if that turn left none; once a run was given up it may also be a later one),
  `EveryMessageSettles`.
* CoreMemory: `MarkdownIsGoverned`, `LedgerIsTruthful`, `AutomationKeepsFacts` (a fact is only
  lost by what a user rejected, archived, replaced, or by a summary without it that a user
  approved).

**Why the bounds are enough for the cases that matter.** One token suffices for the gate: its
handlers touch one record, and `MaxRuns = 2` lets a token be approved again after a failure or a
crash. Two processes and two files are the least with which applies overlap in part and a rollback
has something left to do; two resume calls are the least at which a swap can be lost; two edits
and two requests the least at which an answer overwrites another; the theorems of section 5 lift
these bounds. In TurnLoop two plans are needed for a flag that leaks from one to the next, a third
to see that it does not leak again, two messages for an order, one crash for a snapshot that
misses something. Two calls in ToolCalls are one that is staged and one made after it in the same
round, or one by each of two sessions. In SessionStore four messages allow a turn of several
messages, a queued message and a third turn; four nodes a fork of the tree next to a compaction
node; `Keep = 2` makes the compactor work at three messages. In Subagents the templates of the
three workflows are whole, and two edits are one before and one after the deadline. In McpSession
four processes are the three trials of a negotiation and a second connection. In BotGateway three
deliveries fill the lock, the queue of one, and one more that finds it full, or are a message, the
next one and the first again; with a single message no answer could be another's. In CoreMemory
three rows are two sources and their replacement.

**Fairness.** A thread that has begun keeps being scheduled (`WF(HostStep)`, `WF(Step)`): in these
modules the code of a handler runs in one Python thread without waiting for anything but bounded
operations: a lock has a deadline, providers, tools and sandboxes have timeouts. In Subagents only
the coordinator is fair, since it waits with a deadline and its children may hang; in McpSession
only the using thread, whose waits for an answer have timeouts but whose write has none: nothing
is assumed of a write that blocks, and `UseEnds` names it; in BotGateway only the event loop with
its timers. No fairness is assumed of users, crashes, edits, expiry, servers, the platform or
clean-up, nor of a particular branch (the model may call tools for ever).

**Stopping.** Deadlock checking is off where, when all calls have been made and the bounds are
used up, the system stops, as the program does.

**Environment left in.** Crashes stand for the death of a process anywhere between two modelled
steps. The exceptions the code catches are actions of their own. One it does not catch ends its
handler as a crash does and leaves the process alive, which is the same where the handler keeps
nothing in memory (the gate, the applies, the memories, each of which starts from its files); in
the turn loop it is not, since flag, conversation and queue live on: there the exception of the
before-tool hook is an action (`HookRaises`). Other exceptions out of the turn loop, of the disk
or of a malformed configuration, are not modelled.

## 4. What the code does otherwise than it says

One run ends in a counterexample to something a document says.

* `turn_flag_leaks`: `_approved_pending_plan` belongs to no plan. Approve, cancel before the
  loop looks, reject, prompt: the next risky plan runs unapproved, although
  `docs/architecture/02-turn-loop.md:54` says that an approval stops the loop.

The rest was seen while modelling. It is written down here because the properties of section 3 are
stated so that it does not disturb them (an explicit condition, an `Upset`, an exempted case), or
because a module leaves the route out.

*Approvals.*
* `docs/tool_policy.md:13` calls grants single-use. The lifecycle test and the save of
  `execution_in_progress` are separate unlocked file accesses (`file_tools.py:845`, `:878`), so two
  hosts approving one token may both execute it, a rejection by one may be overwritten by
  the other's approval, and a consumed action may be relabelled rejected or expired.
* An edit between the grant's validation and the write is overwritten (`EditAnyTime`).
* A rollback writes over what an editor saved between the snapshot and the digest check; the
  lock's release reads its token and unlinks in two steps.
* An acquisition that cannot write its token and then cannot unlink the file swallows the second
  error (`workspace_lock.py:113-122`): a lock file nobody owns stays behind, nobody died, and the
  error the caller sees is the first one. `LockIsSound` therefore allows it (`unsaid`) of an apply
  that was never inside the lock, and of no other.

*Turn loop.*
* `web/session_manager.py:248` refuses a second run ("Agent is busy"); the approval route of
  `web/server.py:376` enters the loop past that check, so two loops may work on one state.
* With overlapping calls a rejection that races the approval worker does not keep the plan from
  running, and a message appended while the loop persists may miss the snapshot.
* A host that persists copies the queue first and the conversation after it (`runtime.py:2247`). If
  the loop injects a message between the two copies, the snapshot has it in both; after a crash it
  is restored as queued and as heard, and the model hears it again. The web instance of `turn_loop`
  has no crash, and `HeardInOrder` (section 5) excludes the combination by name.
* After a crash between an approval and the plan's execution the plan is restored as pending
  but its token file is gone: it can be neither approved nor executed.
* The before-tool hook is outside the `try` of the tool round (`runtime.py:899`) and may raise: a
  pytest target that cannot be used does so, and so may the question a confirmation asks. The
  exception leaves every nested loop with the process alive, skips the reset of
  `_approved_pending_plan` and the persist, and the next risky plan runs unapproved, with no
  cancel and no overlap. `OneLeakPerException` bounds it by one plan for each such exception, and
  `PlanRunsOnce` excepts the plan let through: the file of its token stays, so that after a
  restart it is pending again and may run a second time.
* A cancel accepted before the worker reaches `clear()` (`runtime.py:339`) is lost.

*Workflow recovery and coding tasks.*
* ADR 0004 says recovery executes no tools. `continue_` runs a queued message as an ordinary
  turn before it looks at its arguments (`runtime.py:418`), and leaves no evidence.
* A crash between the recorded evidence and the completion swap leaves the checkpoint at
  `intent_committed`; every later resume returns the same answer. Pending actions are
  listed before the completion swap, so one staged in between escapes the test.
* Any exception of `list()` reads as "nothing pending" (`runtime_loop.py:168-175`), and `list()`
  raises when a file goes between its glob and the read (`storage/approvals.py:225-232`); a file
  that is just being written is skipped. A loop that has staged an edit may then be "completed",
  and its task with it. `TaskTellsTheTruth` excepts the edits a failed listing left out
  (`missed`).
* Overlapping answers lose updates: an answered action is listed again and the task never
  completes. The turn resumed inside `approve_action` may stage edits the task never lists, so a
  task may say "completed" with an undecided action of that turn; a loop may do so with one
  another session staged.
* The coding service answers in its own workspace although the task was started in another: a
  rejection there is recorded by the service alone and the action stays executable.
* `run_one_bounded` never passes `repair_attempted`, so a second call with the same initial
  result repairs again; the host has to thread the states. `repair_pending` leads nowhere but to
  `repair_blocked`, although repairs usually stage approvals; pending approvals of any other session
  make a repair pending. An edit another host is executing is not pending, so a
  re-validation may be staged over half-applied edits.
* A failed validation token that another host runs again may leave an attestation a later
  crashed run of the same token is judged by (`VerdictIsProven` exempts tokens run elsewhere).
* The validation cycle has no caller but tests and the presentation of the command line.

*Session store.*
* `_persist` says it saves all live state. A message queued from the web saves inside the
  turn; when it is then injected, the answer between the save and the injection is in the
  transcript but in no node (`sessions.py:902`), and is gone after a restart.
* A summary made after the first nodes exist never reaches the stored record
  (`sessions.py:796`), so a restart compacts anew.
* A move away from a pending plan re-attaches the draft's messages to the new head at the next
  save, or makes the save raise; a conversation that begins without a user's message is
  rewritten whole at every save and forks of it lack its beginning; a turn with a pending plan is
  appended to the transcript again at every save, after which the evidence lookup, which counts
  messages, may call the evidence ambiguous.

*Tools.*
* `clone_selected` keeps the parent's tool factories (`registry.py:539`, `:705`). A child's
  `write_file` is staged under the parent's session; a worktree child's dynamic tool of mode
  "required" acts on the parent's workspace without a review, as does its `read_file`
  (`tests/subagents/test_worktree_artifact.py:152` expects isolation, of a tool built for the
  worktree). `NothingUnreviewed` names such a call as an exception (`InIsolation`).
* `execute_safe_rewind` may be called by the model and is classified as an inspection
  (`registry.py:1225`, `:1293-1310`, `:1798-1820`): in every mode, read-only included, it restores
  files and moves the conversation, with at most a question on the console, and none under an
  approved plan. `docs/tool_policy.md:10-11` says that read-only blocks writes and that such tools
  are staged. It is one of the tools `NothingUnreviewed` names (`Unguarded`), with
  `memory_propose` and `spawn_subagent`, whose effects (a row of the ledger, a child with tools of
  its own) nothing reviews.
* A pending action is written in place (`storage/approvals.py:156`). A read between staging and
  attaching may find half of it; the exception goes to the error hook, which may let the model go
  on although an action waits. The loads and saves of ToolCalls are single steps, so it is not in
  `ReviewEndsTheTurn`.
* The browser tool is an edit (`browser/runtime.py:50`), yet `policy.py:227` allows it without
  review under workspace-write, as it does the web tools.
* The remaining calls of a round are made after one was staged. A name rule precedes the
  permission mode. `denied_tools: run_shell` also blocks `stage_test_command`.
  `danger-full-access` refuses dynamic tools that are neither required nor declared inspections.
* Relabelling is load-then-save: it may revive an answered action or take over another session's
  label; a cancel after staging leaves an unlabelled one; a clone of an answered action keeps its
  state.
* Children have no runtime context, so guardrails do not apply to them, nor to approvals
  through the web, which use a fresh registry.

*Subagents.*
* The fallback of the worktree node does not look at the cancel and reports success; after a
  cancel the node still retries; parallel batches never look at it. A child's
  `AgentRuntime.prompt` and the tail of its loop clear the cancel token it shares with its parent.
* A step that timed out has its unfinished worktree staged, with the status "timeout"; its diff and its
  list of names are two git calls while the late worker may still write.
* Exceptions of `fork_session` and `finalize` abort the whole run.

*MCP.*
* A request is written by `process.stdin.write` (`session.py:268-284`), a blocking write to a pipe
  under no timeout. A server that lives and does not read holds the using thread for ever;
  `UseEnds` excepts it (`NeverRead`).
* A failed negotiation leaves its process running. A line that is not JSON kills the reader,
  and the dead session stays cached. Concurrent callers of one client drop each other's answers.
* A late answer of a stopped process may be accepted by the next trial's initialize
  (`mcp/session.py:262`; ids start again at every restart). It can only mislead the negotiation.
* `MCPRuntime.reload` leaves the registered tools bound to the retired manager.

*Bot.*
* A message cancelled while it waits stays counted (`adapter.py:100`), so the conversation turns
  messages away although nobody waits (`docs/integrations/qqbot.md:120`); the
  bound may be exceeded between a release and the wake-up.
* The store forgets: keys older than `ttl_seconds` (`dedupe.py:22`; 600 by default,
  `docs/integrations/qqbot.md:67`) are dropped, and all of them when its file is corrupt
  (`dedupe.py:38-43`). A late redelivery is then prompted and answered again; `OncePerEvent`
  counts these losses (`forgotten`) and allows one more handling for each.
* The reply is the last text of the transcript (`adapter.py:227-230`, `:441-458`). A turn that
  ends by a provider error, an exception the worker swallows, or a cancel leaves none, so the
  previous message's answer is sent, and the message counts as answered; `AnswersTheMessage`
  allows an older text after such a turn (`Mute`) and after no other.
* A `FileNotFoundError` is taken for a session that is gone wherever it comes from: raised by the
  snapshot after the turn, it makes the adapter prompt the message a second time, in a new session
  (`adapter.py:160-170`).
* A pending artifact of an earlier message makes every later reply the notice that an approval is
  pending.
* The event's key is marked before anything is done, so a stop loses the event. A follow-up
  enqueued after the turn's last look stays queued and is sent the earlier answer.

*Core memory.*
* `approve` does not look at the status. `memory_archive` says the memory is "no longer
  injected"; its bullet stays in the file, and the same fact can never be approved again.
* `replace` passes by the safety scan and the dedupe, and one unsafe active row aborts every
  export. `write_text` truncates first, so a crash there loses the file.
* Approve against reject: the last writer wins. Two proposals at once yield twins. A summary is
  cut at the limit of its section (`core_service.py:765-780`) and approving it archives all
  sources (`:725-727`): the facts it leaves out are in no active memory afterwards.
  `AutomationKeepsFacts` counts them as retired by the user who approved that text (`LeftOut`);
  nobody tells the user what is missing. The audit of an approval says "active" before the row
  does. A bullet's text is used as a replacement template.

## 5. Proofs

All theorems are checked by TLAPS for every value of the constants; the only assumptions are those
the modules name: the special values differ from the real ones (`LockAssumption`,
`TokensAssumption`, `SessionsAssumption`, `NobodyAssumption`), candidates, setups and tools have
their types (`CandidateAssumption`, `ScenesAssumption`, `MetaAssumption`, `SetupsAssumption`),
what the scan refuses are facts (`FactsAssumption`), bounds are natural numbers and the budgets
asked for finitely many integers (`BoundsAssumption`), and `BuiltinAssumption`: the declarations
of the tools the program registers itself, such as that the shell tools are `run_shell` and
`stage_test_command`.

**ApprovalGateProofs.** `TypeCorrect` and `ConsumedIsTruthful`: with any number of racing and
crashing hosts nothing is recorded as consumed that was not executed. The property alone is not
inductive, since a save writes a copy loaded long before. The inductive invariant `IInv` adds
`CopiesTruthful` (a copy in a host's hands that claims an execution, and a host about to claim
one, are about an effect that is done) and `Holding` (a handler at work holds a token that was
staged).

`SingleUse` is the refinement of SingleUseGrant, for any number of hosts and tokens, any crashes
and any edits, on the condition `OneAtATime`: no two hosts work on the same token. Nothing in the
code ensures it (section 4), and without it a token may be executed twice. The invariant `LInv`
says what a token's record and the copy in its only worker's hands can be at each point of the handler
(`AtWork`), and what the record says of the effect when nobody works on it (`Settled`). `Viewed`
turns the refinement mapping, a choice over all hosts, into a function of one record and one
position; each action is then shown to be a step of the abstract grant or a stutter.
`ExactWhenUndisturbed` adds that nobody edits the file while a host is between the validation of
the grant and the write (`Undisturbed`), which is what `Decided` needs to carry the comparison with the
baseline to the execution. `OneHostGate` shows that the conditions are met where the program has one
host and no editor that fast, the instance the run explores.

**CodingProofs, applies.** `LockSound` (what is left silently never guarded an apply),
`StaleLockRespected`, `ApplyIsAtomic`, `TypeCorrect`. Mutual exclusion follows from
`LockInvariant`: a process owns the lock exactly if the file names it, and being inside goes with
owning it (`PhaseMatches`). `ApplyIsAtomic` rests on `WorkInv`, which says for each control point
which targets have their new version, which their old, and what the snapshot still holds, unless
somebody disturbed the workspace; mutual exclusion is what keeps it true while other processes
move.

**WorkflowRecoveryProofs.** `OneWins`, `OnlyAdvances`, `EvidenceComesFirst`, `TypeCorrect`. A
call decides on a checkpoint it read long ago. What makes the decision right when it writes is,
per call: a revision identifies a content (`Sees`), nobody else writes between the comparison
and the replacement (`Holds`, from the lock), a replacement is an intent of its own or the
completion of what it saw (`Wants`), and the call past its swap finds the checkpoint as it left it
(`Wins`). `Counts` ties the number of dispatched continuations to the intent in the file;
`Evidence` adds what the transcript had recorded when the call decided.

**CodingProofs, coding tasks.** `TaskIsTruthful`, `VerdictProven`, `CycleBounded`: every invariant
of the run, for any number of edits, request threads and turns. A task's list is computed from a
state read before an execution, so `Bases` says that every state a request still holds lists what
is owed and is not completed over more than the listings left out, `Ledger` and `Started` that
what is being executed was decided. `Reported` carries what the loop's listings left out
(`missed`) from its last decision into the task. `TruthInv` says the attestation path is empty
unless the cycle or another host has just run the test. `CycleInv` gives what each point of the
cycle knows.

**CodingProofs, subagents.** `AgentsStartOnResults` and `AgentsPatchIsOneAttempt`, for the
program's three workflows, any budget a caller may ask for, any number of cancels and any number
of edits a worker makes. `RunAccount` is the invariant (`AgentsInv`). `Taken` says that batches
are closed under dependence and that nobody waits for what a later batch needs; `Accounted` that a
node begun is awaited or on the board and that what it rests on is still what it was begun on;
`Spent` that the nodes begun or awaited and the budget left never exceed the budget, which is what
bounds a batch cut off in its middle. The patch is harder, because a worker that was given up
writes on: `Standing` says in which phases the coordinator is inside the worktree node, and
`Patched` that an attempt's tree has edits of this attempt only, that a success is reported of a
worker that has returned (`Finished`), and that the patch staged then holds all that its tree
does.

**TurnLoopProofs.** `ApprovedFirst` and `RunsOnce`, under `OneAtATime`: entries of the runtime do
not overlap and none is cancelled (the command line without Ctrl-C), with any number of plans,
messages, nested loops and restarts. Both conditions are needed: without the second
`turn_flag_leaks` is a counterexample, without the first a rejection may race the worker. The hook
may raise at any call. The invariant says that the flag is up only while the active thread is
between an approval and the end of the round it is for, and the loop then works on the approved
plan (`Sound`), or since an exception left such a round (`FlagMeans`): no plan after that one has
run, and the pending plan is a later one (`LeftUp`), so that the flag lets one plan through, is
taken down at the end of its round, and needs another exception to leak again. `Cleared` is what a
plan must be to have its calls made: approved and not yet run, or let through. The file of a plan
is gone once it was approved or rejected (`Books`), so that a restart cannot run it again.

The theorems about messages hold with overlapping entries and cancels too. `SteersFirst` needs no
condition. `AckedIsSafe` has only the condition inside the property. `HeardInOrder` assumes
`Recovers`: entries that overlap do not meet a crash. TLC finds the property violated if they do
(section 4), and the condition leaves every other setting in. All three rest on one invariant,
`MInv`. `Told` is what was heard together with the message being injected; `Story` says that it
and the queue are in order, share no message and number at most those sent; `Durable` says, for
entries that do not overlap, that the snapshot of the thread that persists is what memory held,
and that the file is behind memory only while a thread is at work or since an exception left the
loop (`unsaved`); even then a message that was heard is still queued in the file and none is lost
(`SameMessages`). A nested loop moves a message from the queue to the end of `Told` at two places.
To the order of messages all actions are moves of nine kinds (`Kind`): each action is first shown
to be one of them, and the invariant is proved for the kinds.

**ToolCallsProofs.** `Reviewed`, `Bounded`, `Stops` and `FiledRight`. The first part is about the
decisions alone: a call that is routed to run may touch nothing, or is of the unguarded tools, or
goes through the web or browser tools, or is made in a worktree by a tool that stays there or is
declared "required" (`MayRunUnreviewed`); and under the read-only mode one that is routed to run
is of an unguarded tool, and one that is staged may touch nothing, unless a rule names its tool.
The route and the analysis of effects are computed by different code from different inputs, and
the lemmas go through every pair. The second part carries the decisions through the steps:
`Admitted` (a call past the hook was not denied), `Carries` and `Fits` (the copies two sessions
write back over each other are about calls the policy let through). `Bounded` counts one call as
missing while it is in its tool (`Tally`). The third part is about staging. `Held` says of a
session that a review it was told of ends the turn as soon as the call is over, and that its
token, and the copy it is about to write back, are about the call it made; `Owned` that an
action's label is a session that asked for it, or none. Sharing, cloning and relabelling each take
an action from the store in one step and put it back in a later one, while other sessions do the
same to it: what survives is that a token never changes what it is about (`Growing`), and that any
label ever written was that of somebody who asked.

**McpSessionProofs.** `OwnAnswer` and `NoneForgotten`. Ids start over with every process and what an
earlier process wrote is still delivered, so an id does not tell whose answer a message is.
`Flight` says what does: whatever is in a queue, a pipe or an inbox of the client's processes is
either about the only request of a trial, number one, or as far from its id as the requests of
the present process are from theirs. `Stage` says that no trial gets beyond number one and that
every use is behind it: the argument would fail if a trial sent a second request.

**BotGatewayProofs.** `Once` and `Answers`, for any deliveries of any messages, any number of
forced stops, of lost keys and of files that are gone. A delivery has a task, a place in the queue
of the lock, and a thread that outlives the task. `Stage` says which prompts and replies each of
them allows, `Line` that exactly waiting tasks are in the queue, each once, so that no delivery is
handed to a second thread. `Counted` ties the deliveries of a message that were accepted to its
key: one, and one more for each time the key was lost, the next of them spent as soon as it is.
`Answers` follows the turns of the session's handles, however many were built. `Told` says of a
handle that each of its turns that is over left a text or is among its mute ones, and `Result`
carries that to the thread that joined the turn, after whose end the handle only gains (`Later`).
As long as nobody gave up on a run, the lock of the conversation is the lock of the threads as
well: `Alone` says that who runs holds it, `Serves` that a thread not at rest belongs to the
holder and that a turn it joined is still its own, `Idle` that a handle nobody is at has no open
turn and nothing queued (`Clean`).

**CoreMemoryProofs.** `GovernedMarkdown`, `TruthfulLedger` and `KeptFacts`: every property of the run,
for any facts, callers, crashes and edits by hand. A call is a chain of transactions over rows that
others change in between, so `MemoryInvariant` says of every call what it holds in its hands:

* `Checked`: the text a call is about to write was good when it was read (`GoodText`) and does not
  have the row's bullet twice; rows only grow and consent is never taken back, so it still is.
* `Approving`, `Exporting`, `Replaced`: a call that takes a row out of use knows an active row,
  later in the ledger, that says every fact of it nobody retired (`Covered`); what a summary
  leaves out was retired when it was approved. "Later" is what carries this through: a source is
  older than its summary (`Sound`), so that rows archived by two calls at once never stand for
  each other. A summary the scan refuses (`Barred`) never becomes active.
* `Truthful`: what a row, or a copy a call is about to store, claims to be written is in the file
  or in the hands of the one caller that emptied it (`Written`), unless the file was spoiled.
* `Recorded`: the rows whose status nobody recorded or is about to record are at most two for each
  call that died.

Each part is kept by a frame and a step: a call that does not move keeps what it knows
because the ledger only gains (`Grows`) and no fact is lost by anybody's step (`Stays`).

Each invariant was first checked by TLC on the run's instance. A proof of a step has one case
per action of `Next`.

*Only model-checked:* the liveness properties (`StartedSettles`, `EveryApplyAnswers`,
`ResumeAnswers`, `CancelStops`, `EveryRunAnswers`, `UseEnds`, `EveryMessageSettles`), which are
beyond the prover; `BranchIsMemory`, `ForkHoldsBranch` and `CommittedTurnsAreKept` of SessionTree
and SessionStore, whose operators recurse over the nodes of a tree, so that what they compute for
every tree needs induction over data. That the sum of all calls stays below `MaxCalls`, the bound
of ToolCalls' exploration, is such a fact as well (a fold over sessions), and no theorem needs it.

## 6. What is not modelled

Within the modelled components: several tokens with dependent effects; the legacy unified-diff
apply (the same control flow with a context match for the digest check); older checkpoint
schemas; context assembly, turn phases, hooks and memory of a turn; `stop_after_model_boundary`
in TurnLoop (it is in WorkflowRecovery); approvals by token beside the worker; two runtimes over
one session file (the later snapshot wins); the event deltas of the session file and a torn last
line; the text of commands, paths and URLs, for which kinds stand; MCP over HTTP; concurrent
callers of one MCP client; conversations of the bot beside the one, which share only the store of
seen keys; a web user in the bot's session at the same time; the retrieval side of the memories.

Without a model, and worth one: **safe rewind and git checkpoints**. The call of the rewind and
what it touches are in ToolCalls, its steps are not. Files are restored first, then the
conversation is rewound, with nothing to undo the former if the latter fails. A stash checkpoint
remembers `stash@{0}` and every later stash renumbers the list, so that a restore or a drop hits
another checkpoint; with an older stash of the same message, or nothing to stash, the wrong one is
recorded; a drop does not look at the status; a restore of a head snapshot leaves untracked files
and ignores what was uncommitted. What one could state about it and find true is less than what is
listed here, so it is described and not checked. Presentation, configuration, model providers,
retrieval, the context pipeline and evaluation are sequential or stateless.

## 7. Plan

Done, in this order: ApprovalGate and its abstract grant; TurnLoop; ApplyLock and PatchApply;
WorkflowRecovery; SessionTree and SessionStore; Subagents; McpSession; BotGateway; CoreMemory;
ToolCalls; CodingTasks; the proofs of section 5.

Next, by importance:

1. **SessionTree lemmas** that need no induction: `SyncBranch` only appends to the transcript,
   keeps every committed node, and gives new nodes ids above all old ones.
2. **Safe rewind** as a composition of SessionStore with a workspace, once its order of steps is
   settled.
