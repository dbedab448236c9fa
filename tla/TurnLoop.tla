------------------------------ MODULE TurnLoop ------------------------------
(* The agent's turn loop and the threads of the web host that drive it:        *)
(* AgentRuntime (prompt, continue_, enqueue_message, approve_pending_plan,     *)
(* reject_pending_plan, request_cancel, _run_loop, _persist) and               *)
(* WebSessionHandle.  The thread `Worker` is the one _start_worker creates;    *)
(* a Host is an HTTP thread.  A plan stands for the tool calls of a risky      *)
(* assistant message and for the token they are staged under; 0 is no plan.    *)
(* A queued message is a record of its order of arrival and its delivery.      *)
(* The model, the tools and the verification gate answer nondeterministically. *)
EXTENDS Integers, Sequences, FiniteSets

CONSTANTS
    Worker, Hosts,
    MaxCalls,         \* bound: tool calls of a round
    Settings,         \* the ways the runtime is hosted
    Steers            \* the deliveries a caller uses

\* overlap: calls may overlap (web, TUI), or come one at a time (CLI); cancels: a
\* cancel may be requested; raises: a tool is registered whose policy check may
\* raise (run_tests); plans, messages and crashes bound what a run explores.
Setting == [overlap : BOOLEAN, cancels : BOOLEAN, raises : BOOLEAN,
            plans : Nat, messages : Nat, crashes : Nat]

ASSUME ThreadsAssumption == Worker \notin Hosts /\ IsFiniteSet(Hosts)
ASSUME BoundsAssumption ==
    /\ MaxCalls \in Nat \ {0}
    /\ Settings \subseteq Setting /\ Settings # {}
    /\ Steers \subseteq {"steering", "follow_up"}

VARIABLES
    setting,    \* the way this runtime is hosted
    pending,    \* state.pending_tool_calls / state.pending_plan_token
    approvedFlag, \* _approved_pending_plan
    queue,      \* state.queued_messages
    convo,      \* the queued messages among state.messages, in the order heard
    cancel,     \* the CancellationToken
    files,      \* the planner_approval tokens in the pending-action store
    disk,       \* the session's last snapshot
    thread,     \* where every thread is
    plans, sent, crashes,               \* counters
    acked, approved, rejected, ran,     \* history: what callers were told, which calls ran,
    escaped,    \* ... the plans whose round an exception left,
    unsaved     \* ... and whether no snapshot was saved since

state == <<pending, approvedFlag, queue, convo>>
history == <<acked, approved, rejected, ran, escaped, unsaved>>
counters == <<plans, sent, crashes>>
vars == <<setting, state, cancel, files, disk, thread, counters, history>>

Threads == Hosts \union {Worker}
MaxPlans == setting.plans
MaxMessages == setting.messages
MaxCrashes == setting.crashes
Plans == 1 .. MaxPlans
Messages == [id : 1 .. MaxMessages, delivery : {"steering", "follow_up"}]
NoMessage == [id |-> 0, delivery |-> "follow_up"]
Empty == [pending |-> 0, queue |-> <<>>, convo |-> <<>>]

\* A thread: where it is, the call it makes, the nested loops to unwind, the plan or
\* token and the call it works on, the message it carries, and the loop's locals
\* (nudged, tool_failed, continue_after_error, keep_running); stopped also keeps the
\* cancel seen in the tail; snap is the record _persist is filling.
Idle == [pc |-> "idle", op |-> "none", depth |-> 0, plan |-> 0, call |-> 0,
         msg |-> NoMessage, nudged |-> FALSE, failed |-> FALSE, carryOn |-> FALSE,
         keep |-> TRUE, stopped |-> FALSE, snap |-> Empty]

pcs == {"idle", "prompt", "continue", "approve", "grant", "append", "reject", "loop",
        "take", "model", "stage", "pause", "said", "tools", "ran", "round", "inject",
        "tail", "sync", "save"}

Elements(s) == {s[i] : i \in 1 .. Len(s)}

TypeOK ==
    /\ setting \in Settings
    /\ pending \in 0 .. MaxPlans /\ approvedFlag \in BOOLEAN /\ cancel \in BOOLEAN
    /\ Elements(queue) \union Elements(convo) \subseteq Messages
    /\ files \subseteq Plans
    /\ disk.pending \in 0 .. MaxPlans
    /\ Elements(disk.queue) \union Elements(disk.convo) \subseteq Messages
    /\ \A t \in Threads : thread[t].pc \in pcs /\ thread[t].plan \in 0 .. MaxPlans
                          /\ thread[t].call \in 0 .. MaxCalls
                          /\ thread[t].depth \in 0 .. MaxMessages
    /\ plans \in 0 .. MaxPlans /\ sent \in 0 .. MaxMessages /\ crashes \in 0 .. MaxCrashes

Init ==
    /\ setting \in Settings
    /\ pending = 0 /\ approvedFlag = FALSE /\ queue = <<>> /\ convo = <<>>
    /\ cancel = FALSE /\ files = {} /\ disk = Empty
    /\ thread = [t \in Threads |-> Idle]
    /\ plans = 0 /\ sent = 0 /\ crashes = 0
    /\ acked = {} /\ approved = {} /\ rejected = {} /\ ran = {}
    /\ escaped = {} /\ unsaved = FALSE

-----------------------------------------------------------------------------
Busy == thread[Worker].pc # "idle"
AtRest == \A t \in Threads : thread[t].pc = "idle"
\* Between its first check and its tail, a thread is inside _run_loop.
LoopPcs == {"loop", "take", "model", "stage", "pause", "said", "tools", "ran", "round", "inject"}
InLoop(t) == thread[t].pc \in LoopPcs

At(t, pc) == thread[t].pc = pc
\* A call may begin on an idle thread; on the CLI only when nothing else runs.
Free(t) == At(t, "idle") /\ (setting.overlap \/ AtRest)

Goto(t, pc) == thread' = [thread EXCEPT ![t].pc = pc]
\* _run_loop begins: its locals are reset.
EnterLoop(t, depth) ==
    thread' = [thread EXCEPT ![t] = [Idle EXCEPT !.pc = "loop", !.op = "loop", !.depth = depth]]
Finish(t) == thread' = [thread EXCEPT ![t] = Idle]

-----------------------------------------------------------------------------
(* The web handle's calls.                                                     *)

\* _start_worker refuses while the worker is alive.
Begin(t, pc, op) ==
    /\ Free(t)
    /\ thread' = [thread EXCEPT ![t] = [Idle EXCEPT !.pc = pc, !.op = op, !.plan = pending]]
    /\ UNCHANGED <<state, cancel, files, disk, counters, history>>

StartPrompt == (setting.overlap => pending = 0) /\ Begin(Worker, "prompt", "prompt")

StartApprove == pending # 0 /\ Begin(Worker, "approve", "approve")

StartContinue == Begin(Worker, "continue", "continue")

\* handle.prompt while busy (web), or enqueue_message (CLI).
StartEnqueue(h, delivery) ==
    /\ Free(h)
    /\ sent + Cardinality({g \in Hosts : At(g, "append")}) < MaxMessages
    /\ setting.overlap => Busy /\ pending = 0
    /\ thread' = [thread EXCEPT ![h] = [Idle EXCEPT !.pc = "append", !.msg.delivery = delivery]]
    /\ UNCHANGED <<state, cancel, files, disk, counters, history>>

AppendMessage(h) ==
    /\ At(h, "append")
    /\ sent' = sent + 1
    /\ LET msg == [thread[h].msg EXCEPT !.id = sent + 1]
       IN  /\ queue' = Append(queue, msg)
           /\ thread' = [thread EXCEPT ![h] = [@ EXCEPT !.pc = "tail", !.op = "enqueue", !.msg = msg]]
    /\ UNCHANGED <<pending, approvedFlag, convo, cancel, files, disk, plans, crashes, history>>

\* reject_pending_plan: the token is matched, then the file and the plan go.
StartReject(h) ==
    /\ Free(h) /\ pending # 0
    /\ thread' = [thread EXCEPT ![h] = [Idle EXCEPT !.pc = "reject", !.plan = pending]]
    /\ UNCHANGED <<state, cancel, files, disk, counters, history>>

Reject(h) ==
    /\ At(h, "reject")
    /\ files' = files \ {thread[h].plan}
    /\ pending' = 0
    /\ thread' = [thread EXCEPT ![h] = [@ EXCEPT !.pc = "tail", !.op = "reject"]]
    /\ UNCHANGED <<approvedFlag, queue, convo, cancel, disk, counters, history>>

Cancel ==
    /\ setting.cancels /\ Busy /\ ~cancel
    /\ cancel' = TRUE
    /\ UNCHANGED <<state, files, disk, thread, counters, history>>

-----------------------------------------------------------------------------
(* The entries of the runtime.  Each clears the cancellation token.            *)

Prompt(t) ==
    /\ At(t, "prompt")
    /\ cancel' = FALSE
    /\ EnterLoop(t, 0)
    /\ UNCHANGED <<state, files, disk, counters, history>>

\* The message _dequeue_next_message takes: steering first, each kind in order.
IndexesOf(delivery) == {i \in 1 .. Len(queue) : queue[i].delivery = delivery}
First(indexes) == CHOOSE i \in indexes : \A j \in indexes : i <= j
\* Mutant of NextIndex: plain first in, first out.
OldestIndex == 1
NextIndex ==
    IF IndexesOf("steering") # {} THEN First(IndexesOf("steering")) ELSE 1
Without(s, i) == SubSeq(s, 1, i - 1) \o SubSeq(s, i + 1, Len(s))

\* Mutant of Dequeue: the message is read and not taken.
Peek(t, i) ==
    /\ UNCHANGED queue
    /\ thread' = [thread EXCEPT ![t] = [@ EXCEPT !.pc = "inject", !.msg = queue[i]]]

\* The message leaves the queue now and reaches the conversation in Inject.
Dequeue(t, i) ==
    /\ queue' = Without(queue, i)
    /\ thread' = [thread EXCEPT ![t] = [@ EXCEPT !.pc = "inject", !.msg = queue[i]]]

Continue(t) ==
    /\ At(t, "continue")
    /\ cancel' = FALSE
    /\ IF pending = 0 /\ queue # <<>>
       THEN Dequeue(t, NextIndex)
       ELSE EnterLoop(t, 0) /\ UNCHANGED queue
    /\ UNCHANGED <<pending, approvedFlag, convo, files, disk, counters, history>>

\* approve_pending_plan: the token must be the pending one and its file exist ...
Approve(t) ==
    /\ At(t, "approve")
    /\ cancel' = FALSE
    /\ IF thread[t].plan = pending /\ pending \in files
       THEN Goto(t, "grant")
       ELSE Finish(t)
    /\ UNCHANGED <<state, files, disk, counters, history>>

\* Mutant of Grant: the token outlives the approval.
GrantKeepsToken(t) ==
    /\ At(t, "grant")
    /\ approvedFlag' = TRUE
    /\ approved' = approved \union {thread[t].plan}
    /\ EnterLoop(t, 0)
    /\ UNCHANGED <<pending, queue, convo, cancel, files, disk, counters, acked, rejected, ran,
                   escaped, unsaved>>

\* ... then the file is removed, the flag raised and the loop entered.
Grant(t) ==
    /\ At(t, "grant")
    /\ files' = files \ {thread[t].plan}
    /\ approvedFlag' = TRUE
    /\ approved' = approved \union {thread[t].plan}
    /\ EnterLoop(t, 0)
    /\ UNCHANGED <<pending, queue, convo, cancel, disk, counters, acked, rejected, ran,
                   escaped, unsaved>>

-----------------------------------------------------------------------------
(* _run_loop                                                                   *)

\* Mutant of Turn: a pending plan is resumed whoever asks.
TurnUngated(t) ==
    /\ At(t, "loop")
    /\ IF cancel THEN Goto(t, "tail")
       ELSE IF pending = 0 THEN Goto(t, "model")
       ELSE thread' = [thread EXCEPT ![t] = [@ EXCEPT !.pc = "take", !.plan = pending]]
    /\ UNCHANGED <<state, cancel, files, disk, counters, history>>

\* The top of the loop: cancelled, an unapproved plan, an approved one, or a turn.
Turn(t) ==
    /\ At(t, "loop")
    /\ \/ cancel /\ Goto(t, "tail")
       \/ ~cancel /\ pending # 0 /\ ~approvedFlag /\ Goto(t, "tail")
       \/ /\ ~cancel /\ pending # 0 /\ approvedFlag
          /\ thread' = [thread EXCEPT ![t] = [@ EXCEPT !.pc = "take", !.plan = pending]]
       \/ ~cancel /\ pending = 0 /\ Goto(t, "model")
    /\ UNCHANGED <<state, cancel, files, disk, counters, history>>

\* A tool round begins with n calls still to make.
StartTools(t, plan, n) ==
    thread' = [thread EXCEPT ![t] = [@ EXCEPT !.pc = "tools", !.plan = plan, !.call = n,
                                             !.failed = FALSE, !.carryOn = FALSE, !.stopped = FALSE]]

Take(t) ==
    /\ At(t, "take")
    /\ pending' = 0
    /\ StartTools(t, thread[t].plan, MaxCalls)
    /\ UNCHANGED <<approvedFlag, queue, convo, cancel, files, disk, counters, history>>

\* _collect_assistant_message: cancelled, a provider error, text, safe calls, or
\* risky calls.  _should_pause_for_plan does not pause while a plan is pending.
ModelFails(t) ==
    /\ At(t, "model") /\ Goto(t, "tail")
    /\ UNCHANGED <<state, cancel, files, disk, counters, history>>

ModelSpeaks(t) ==
    /\ At(t, "model") /\ Goto(t, "said")
    /\ UNCHANGED <<state, cancel, files, disk, counters, history>>

ModelCallsSafeTools(t) ==
    /\ At(t, "model")
    /\ \E n \in 1 .. MaxCalls : StartTools(t, 0, n)
    /\ UNCHANGED <<state, cancel, files, disk, counters, history>>

ModelPlans(t) ==
    /\ At(t, "model") /\ plans < MaxPlans
    /\ plans' = plans + 1
    /\ IF pending = 0
       THEN thread' = [thread EXCEPT ![t] = [@ EXCEPT !.pc = "stage", !.plan = plans + 1]]
       ELSE StartTools(t, plans + 1, MaxCalls)
    /\ UNCHANGED <<state, cancel, files, disk, sent, crashes, history>>

\* _stage_plan_approval writes the file; then the plan becomes pending.
Stage(t) ==
    /\ At(t, "stage")
    /\ files' = files \union {thread[t].plan}
    /\ Goto(t, "pause")
    /\ UNCHANGED <<state, cancel, disk, counters, history>>

Pause(t) ==
    /\ At(t, "pause")
    /\ pending' = thread[t].plan
    /\ Goto(t, "tail")
    /\ UNCHANGED <<approvedFlag, queue, convo, cancel, files, disk, counters, history>>

\* No tool calls: the verification gate asks once more, or the queue is drained.
Nudge(t) ==
    /\ At(t, "said") /\ ~thread[t].nudged
    /\ thread' = [thread EXCEPT ![t] = [@ EXCEPT !.pc = "loop", !.nudged = TRUE]]
    /\ UNCHANGED <<state, cancel, files, disk, counters, history>>

AfterAssistant(t) ==
    /\ At(t, "said")
    /\ IF queue # <<>> THEN Dequeue(t, NextIndex) ELSE Goto(t, "tail") /\ UNCHANGED queue
    /\ UNCHANGED <<pending, approvedFlag, convo, cancel, files, disk, counters, history>>

\* The calls of a round, one by one; an unknown or refused tool does not run.
LastCall(t) == thread[t].call = 0 \/ thread[t].stopped

CancelTools(t) ==
    /\ At(t, "tools") /\ ~LastCall(t) /\ cancel
    /\ thread' = [thread EXCEPT ![t] = [@ EXCEPT !.stopped = TRUE, !.failed = TRUE, !.keep = FALSE]]
    /\ UNCHANGED <<state, cancel, files, disk, counters, history>>

RunTool(t) ==
    /\ At(t, "tools") /\ ~LastCall(t) /\ ~cancel
    /\ Goto(t, "ran")
    /\ ran' = IF thread[t].plan = 0 THEN ran ELSE ran \union {<<thread[t].plan, thread[t].call>>}
    /\ UNCHANGED <<state, cancel, files, disk, counters, acked, approved, rejected,
                   escaped, unsaved>>

\* The policy check before the call is outside the loop's try: an exception of it
\* leaves every nested loop, past the end of the round and past the tail, to the
\* caller of the runtime.  The process lives on, with the flag as it was.
HookRaises(t) ==
    /\ setting.raises
    /\ At(t, "tools") /\ ~LastCall(t)
    /\ Finish(t)
    /\ escaped' = IF thread[t].plan = 0 THEN escaped ELSE escaped \union {thread[t].plan}
    /\ unsaved' = TRUE
    /\ UNCHANGED <<state, cancel, files, disk, counters, acked, approved, rejected, ran>>

\* A refused call fails; the error hook may let the loop carry on.
ToolRefused(t) ==
    /\ At(t, "tools") /\ ~LastCall(t) /\ ~cancel
    /\ \E c \in BOOLEAN :
         /\ thread[t].carryOn => c
         /\ thread' = [thread EXCEPT ![t] = [@ EXCEPT !.call = thread[t].call - 1, !.failed = TRUE,
                                                     !.carryOn = c]]
    /\ UNCHANGED <<state, cancel, files, disk, counters, history>>

\* The call returns: cancelled meanwhile, a result, or an error.
ToolReturns(t) ==
    /\ At(t, "ran")
    /\ \/ /\ cancel
          /\ thread' = [thread EXCEPT ![t] = [@ EXCEPT !.pc = "tools", !.stopped = TRUE,
                                                       !.failed = TRUE, !.keep = FALSE]]
       \/ /\ ~cancel
          /\ \E go \in BOOLEAN :
               /\ go => thread[t].keep
               /\ thread' = [thread EXCEPT ![t] = [@ EXCEPT !.pc = "tools", !.call = thread[t].call - 1,
                                                           !.keep = go]]
       \/ \E c \in BOOLEAN :
            /\ thread[t].carryOn => c
            /\ thread' = [thread EXCEPT ![t] = [@ EXCEPT !.pc = "tools", !.call = thread[t].call - 1,
                                                        !.failed = TRUE, !.carryOn = c]]
    /\ UNCHANGED <<state, cancel, files, disk, counters, history>>

\* The round is over: the flag falls and the turn controller decides.
EndRound(t) ==
    /\ At(t, "tools") /\ LastCall(t)
    /\ approvedFlag' = FALSE
    /\ Goto(t, "round")
    /\ UNCHANGED <<pending, queue, convo, cancel, files, disk, counters, history>>

AfterToolRound(t) ==
    /\ At(t, "round")
    /\ IF ~thread[t].failed /\ IndexesOf("steering") # {}
       THEN Dequeue(t, First(IndexesOf("steering")))
       ELSE /\ Goto(t, IF thread[t].keep /\ (thread[t].failed => thread[t].carryOn)
                       THEN "loop" ELSE "tail")
            /\ UNCHANGED queue
    /\ UNCHANGED <<pending, approvedFlag, convo, cancel, files, disk, counters, history>>

\* Mutant of Inject: the nested run is entered as a new prompt.
InjectAsPrompt(t) ==
    /\ At(t, "inject")
    /\ convo' = Append(convo, thread[t].msg)
    /\ cancel' = FALSE
    /\ EnterLoop(t, IF thread[t].op = "continue" THEN 0 ELSE thread[t].depth + 1)
    /\ UNCHANGED <<pending, approvedFlag, queue, files, disk, counters, history>>

\* _inject_controller_message: the message is heard and a nested loop begins;
\* continue_ itself has no loop around it.
Inject(t) ==
    /\ At(t, "inject")
    /\ convo' = Append(convo, thread[t].msg)
    /\ EnterLoop(t, IF thread[t].op = "continue" THEN 0 ELSE thread[t].depth + 1)
    /\ UNCHANGED <<pending, approvedFlag, queue, cancel, files, disk, counters, history>>

-----------------------------------------------------------------------------
(* _persist copies the pending plan and the queue, then the messages, then     *)
(* appends the snapshot.  Tail is also the end of _run_loop.                   *)

PersistMetadata(t) ==
    /\ At(t, "tail")
    /\ thread' = [thread EXCEPT ![t] = [@ EXCEPT !.pc = "sync", !.stopped = cancel,
                                !.snap = [pending |-> pending, queue |-> queue, convo |-> <<>>]]]
    /\ UNCHANGED <<state, cancel, files, disk, counters, history>>

PersistMessages(t) ==
    /\ At(t, "sync")
    /\ thread' = [thread EXCEPT ![t] = [@ EXCEPT !.pc = "save", !.snap.convo = convo]]
    /\ UNCHANGED <<state, cancel, files, disk, counters, history>>

\* Mutant of PersistSave: an enqueue returns without writing its snapshot.
PersistNothing(t) ==
    /\ At(t, "save")
    /\ disk' = IF thread[t].op = "enqueue" THEN disk ELSE thread[t].snap
    /\ acked' = IF thread[t].op = "enqueue" THEN acked \union {thread[t].msg} ELSE acked
    /\ Finish(t)
    /\ unsaved' = FALSE
    /\ UNCHANGED <<state, cancel, files, counters, approved, rejected, ran, escaped>>

\* After the save: a loop clears the cancel it saw and unwinds, a call returns.
PersistSave(t) ==
    /\ At(t, "save")
    /\ disk' = thread[t].snap
    /\ cancel' = (cancel /\ ~(thread[t].op = "loop" /\ thread[t].stopped))
    /\ acked' = IF thread[t].op = "enqueue" THEN acked \union {thread[t].msg} ELSE acked
    /\ rejected' = IF thread[t].op = "reject" THEN rejected \union {thread[t].plan} ELSE rejected
    /\ IF thread[t].depth > 0
       THEN thread' = [thread EXCEPT ![t] = [Idle EXCEPT !.pc = "tail", !.op = "loop",
                                                     !.depth = thread[t].depth - 1]]
       ELSE Finish(t)
    /\ unsaved' = FALSE
    /\ UNCHANGED <<state, files, counters, approved, ran, escaped>>

\* The process dies; the next one starts from the snapshot.
Restart ==
    /\ crashes < MaxCrashes
    /\ crashes' = crashes + 1
    /\ pending' = disk.pending /\ queue' = disk.queue /\ convo' = disk.convo
    /\ approvedFlag' = FALSE /\ cancel' = FALSE
    /\ thread' = [t \in Threads |-> Idle]
    /\ unsaved' = FALSE
    /\ UNCHANGED <<files, disk, plans, sent, acked, approved, rejected, ran, escaped>>

-----------------------------------------------------------------------------
Loop(t) ==
    \/ Turn(t) \/ Take(t) \/ ModelFails(t) \/ ModelSpeaks(t) \/ ModelCallsSafeTools(t)
    \/ ModelPlans(t) \/ Stage(t) \/ Pause(t) \/ Nudge(t) \/ AfterAssistant(t)
    \/ CancelTools(t) \/ RunTool(t) \/ HookRaises(t) \/ ToolRefused(t) \/ ToolReturns(t) \/ EndRound(t)
    \/ AfterToolRound(t) \/ Inject(t)

Persist(t) == PersistMetadata(t) \/ PersistMessages(t) \/ PersistSave(t)

Step(t) == Prompt(t) \/ Continue(t) \/ Approve(t) \/ Grant(t) \/ Loop(t) \/ Persist(t)

Call(h) ==
    \/ \E d \in Steers : StartEnqueue(h, d)
    \/ AppendMessage(h)
    \/ StartReject(h) \/ Reject(h)

Next ==
    /\ \/ StartPrompt \/ StartContinue \/ StartApprove
       \/ \E h \in Hosts : Call(h)
       \/ \E t \in Threads : Step(t)
       \/ Cancel \/ Restart
    /\ UNCHANGED setting

Spec == Init /\ [][Next]_vars

\* Every thread that has work is scheduled: the provider, the tools and the
\* file system answer or time out.
FairSpec ==
    /\ Spec
    /\ \A t \in Threads : WF_vars(Step(t) /\ UNCHANGED setting)
    /\ \A h \in Hosts : WF_vars((AppendMessage(h) \/ Reject(h)) /\ UNCHANGED setting)
-----------------------------------------------------------------------------
(* Properties                                                                  *)

\* The tools of a risky plan run only after its own approval
\* (docs/architecture/02-turn-loop.md: an approval stops the loop).  A cancel
\* between the approval and the loop breaks it, and so does an exception that
\* leaves the round of an approved plan.
PlanRunsOnlyIfApproved == \A c \in ran : c[1] \in approved

\* The plan that a flag left up by an exception lets through: the first to run
\* after the one whose round was left.
LetThrough(p) == \E e \in escaped : e < p /\ \A c \in ran : ~(e < c[1] /\ c[1] < p)

\* Where calls come one at a time and none is cancelled, the tools of a risky plan
\* run only after its own approval, but for one plan after each approved round that
\* an exception of the before-tool hook left with the flag up (the code's fault).
OneLeakPerException ==
    \A c \in ran : c[1] \in approved \/ LetThrough(c[1])

\* A call of a plan is made at most once, across cancels, crashes and restarts: the
\* approval's file is gone before the first call starts, except where the plan was
\* let through and its file was not needed.  And once reject_pending_plan has
\* returned, no call of that plan starts.
PlanRunsOnce ==
    [][/\ \A t \in Threads :
            At(t, "tools") /\ thread'[t].pc = "ran" /\ thread[t].plan # 0
               => <<thread[t].plan, thread[t].call>> \notin ran \/ LetThrough(thread[t].plan)
       /\ \A c \in ran' \ ran : c[1] \notin rejected]_vars

\* A message waits in the queue, is being injected, or is in the conversation.
Places(id) ==
    {<<"queue", i>> : i \in {i \in 1 .. Len(queue) : queue[i].id = id}}
    \union {<<"convo", i>> : i \in {i \in 1 .. Len(convo) : convo[i].id = id}}
    \union {<<"inject", t>> : t \in {t \in Threads : At(t, "inject") /\ thread[t].msg.id = id}}
\* Where calls come one at a time, a message whose enqueue_message has returned is in
\* the last snapshot, queued or heard, so that no later crash loses it.  When every
\* call has returned the snapshot holds the messages memory holds, and is what memory
\* holds, unless the last loop was left by an exception: then a message heard in it is
\* still queued in the snapshot, and a plan taken in it still pending.
AckedIsDurable ==
    ~setting.overlap =>
        /\ acked \subseteq Elements(disk.queue) \union Elements(disk.convo)
        /\ AtRest =>
             /\ Elements(disk.queue) \union Elements(disk.convo) =
                   Elements(queue) \union Elements(convo)
             /\ unsaved \/ disk = [pending |-> pending, queue |-> queue, convo |-> convo]

\* No message is heard twice; messages of one delivery are heard in the order they
\* came, and no steering message is overtaken by a follow-up that came after it,
\* though nested loops drain the queue at two places and a web thread appends to it
\* meanwhile.
HeardOnceInOrder ==
    /\ TypeOK
    /\ \A id \in 1 .. sent : Cardinality(Places(id)) <= 1
    /\ \A i \in 1 .. Len(convo) :
         \A m \in Elements(convo) \union Elements(queue) :
             m.id < convo[i].id /\ m.delivery \in {"steering", convo[i].delivery}
                 => m \in Elements(SubSeq(convo, 1, i - 1))

\* A follow-up leaves the queue only when no steering message waits, wherever the
\* loop drains it (tests/runtime/test_runtime.py, steering priority).
SteeringFirst ==
    [][\A t \in Threads :
         ~At(t, "inject") /\ thread'[t].pc = "inject" /\ thread'[t].msg.delivery = "follow_up"
            => \A q \in Elements(queue) : q.delivery # "steering"]_vars

\* A cancel that finds the loop running stops it, however many tools the model
\* still asks for.
CancelStops == cancel /\ InLoop(Worker) ~> ~Busy
=============================================================================
