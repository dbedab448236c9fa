----------------------------- MODULE SessionStore -----------------------------
(* A session's file and the runtime that works on it: AgentRuntime._persist    *)
(* and restore_session_record, the calls that change the conversation or save  *)
(* it, and SessionHost's navigate, fork and rewind.  TurnLoop has the steps of *)
(* the loop and its threads; here a turn is the messages it adds and the       *)
(* moments it is saved at, and the record is kept whole.                       *)
EXTENDS SessionTree

CONSTANTS
    Keep,            \* keep_recent_messages of the compactor
    Upsets,          \* which of the four below may happen
    MaxMessages, MaxQueued, MaxNodes    \* bounds on what the runs explore

ASSUME SessionAssumption ==
    /\ {Keep, MaxMessages, MaxQueued, MaxNodes} \subseteq Nat
    /\ Upsets \subseteq {"inside", "headless", "bare", "strayed"}

VARIABLES
    file,       \* the last snapshot in the session's file
    memory,     \* state.messages
    summary,    \* state.compaction
    pending,    \* state.pending_plan_token / pending_tool_calls
    queued,     \* how many messages state.queued_messages holds
    cached,     \* _session_record
    base,       \* _base_head_id
    running,    \* a run loop is at work
    said,       \* how many messages were ever made: their identities
    saved,      \* history: nothing was said since the last save
    upset       \* history: the upsets so far

runtime == <<memory, summary, pending, queued, cached, base, running>>
vars == <<file, runtime, said, saved, upset>>

Message == [id : 1 .. MaxMessages, user : BOOLEAN]
\* What the store copes with badly: a save inside a turn (web, TUI), a turn no user's
\* message begins, a conversation none begins, and a move away from a pending plan.
Upset(how) == how \in Upsets /\ upset' = upset \union {how}

TypeOK ==
    /\ memory \in Seq(Message) /\ summary \in Nat
    /\ pending \in BOOLEAN /\ running \in BOOLEAN /\ saved \in BOOLEAN /\ upset \subseteq Upsets
    /\ said \in 0 .. MaxMessages /\ queued \in 0 .. MaxQueued
    /\ \A r \in {file, cached} :
          /\ r.messages \in Seq(Message)
          /\ r.next \in 1 .. MaxNodes + 1 /\ r.head < r.next
          /\ \A i \in DOMAIN r.nodes :
                /\ r.nodes[i].id < r.next /\ r.nodes[i].parent < r.nodes[i].id
                /\ r.nodes[i].last <= Len(r.messages)

\* create_session saves the new record before a runtime exists.
Init ==
    /\ file = Saved(NewRecord) /\ cached = Normalized(file) /\ base = NoNode
    /\ memory = <<>> /\ summary = 0 /\ pending = FALSE /\ queued = 0 /\ running = FALSE
    /\ said = 0 /\ saved = TRUE /\ upset = {}

-----------------------------------------------------------------------------
\* The parent of a draft head, otherwise the head.
BaseOf(r) ==
    IF r.head \in Ids(r) /\ NodeOf(r, r.head).draft THEN NodeOf(r, r.head).parent ELSE r.head

\* The record _persist saves: the cached one synced with memory, or, if the base's branch
\* does not begin memory, the file's synced at the node that does best, emptied if none
\* does.  All of them take the runtime's summary, pending plan and queue.
Live(r) == [r EXCEPT !.summary = summary', !.pending = pending', !.queued = queued']

Recover(latest, best) ==
    IF best # NoNode THEN SyncBranch(Live(latest), best, memory', pending')
    ELSE SyncBranch([Live(latest) EXCEPT !.messages = <<>>, !.nodes = <<>>, !.head = NoNode],
                    NoNode, memory', pending')

Synced ==
    IF CanSync(Live(cached), base, memory')
      THEN SyncBranch(Live(cached), base, memory', pending')
    ELSE Recover(Normalized(file), BestBase(Normalized(file), memory'))

\* _persist, of what the call leaves in memory; it raises if the record cannot be saved.
Store(r, snapshot) ==
    IF CanSave(r)
      THEN /\ snapshot.next <= MaxNodes + 1
           /\ file' = snapshot /\ cached' = r /\ base' = BaseOf(r) /\ saved' = TRUE
      ELSE /\ UNCHANGED <<file, cached, base>>
           /\ saved' = (saved /\ memory' = memory)
StoreSaved(r) == Store(r, Saved(r))
Persist == StoreSaved(Synced)

\* restore_session_record in a new runtime, of what it has loaded.
Restore(n) ==
    /\ cached' = n /\ base' = BaseOf(n) /\ memory' = Branch(n, n.head)
    /\ summary' = n.summary /\ pending' = n.pending /\ queued' = n.queued
    /\ running' = FALSE /\ saved' = TRUE

-----------------------------------------------------------------------------
(* What a turn does to memory.                                                 *)

\* A message is made and joins the conversation.
Hear(user) ==
    /\ said < MaxMessages /\ said' = said + 1
    /\ memory' = Append(memory, [id |-> said + 1, user |-> user])
Unsaved == saved' = FALSE /\ UNCHANGED <<file, cached, base>>

Prompt ==
    /\ ~running /\ running' = TRUE
    /\ Hear(TRUE) /\ Unsaved /\ UNCHANGED <<summary, pending, queued, upset>>

\* continue_: a queued message is injected; with none, or a plan pending, the loop runs.
Continue ==
    /\ ~running /\ running' = TRUE
    /\ IF queued > 0 /\ ~pending
         THEN Hear(TRUE) /\ Unsaved /\ queued' = queued - 1 /\ UNCHANGED upset
         ELSE /\ Upset(IF memory = <<>> THEN "bare" ELSE "headless")
              /\ UNCHANGED <<file, memory, queued, cached, base, said, saved>>
    /\ UNCHANGED <<summary, pending>>

\* An assistant's message, a tool's result or a runtime note; or, staged, an assistant's
\* message whose tool calls await approval.
Speak(staged) ==
    /\ running /\ ~pending /\ pending' = staged
    /\ Hear(FALSE) /\ Unsaved /\ UNCHANGED <<summary, queued, running, upset>>

\* _inject_controller_message, after an answer or a tool round.
Inject ==
    /\ running /\ ~pending /\ memory # <<>> /\ ~Last(memory).user
    /\ queued > 0 /\ queued' = queued - 1
    /\ Hear(TRUE) /\ Unsaved /\ UNCHANGED <<summary, pending, running, upset>>

\* _emit_compaction_if_needed: the messages before the recent ones, or a few less.
CompactMore == summary' \in summary + 1 .. Len(memory) - Keep
Compact ==
    /\ running /\ ~pending /\ CompactMore
    /\ UNCHANGED <<file, memory, pending, queued, cached, base, running, said, saved, upset>>

\* The tail of _run_loop.
EndTurn ==
    /\ running /\ running' = FALSE
    /\ UNCHANGED <<memory, summary, pending, queued, said, upset>> /\ Persist

-----------------------------------------------------------------------------
(* Calls from outside the turn.                                                *)

\* The call may come while a turn runs, and then its save falls inside the turn.
Beside ==
    /\ IF running THEN Upset("inside")
       ELSE IF memory = <<>> /\ memory' # memory THEN Upset("bare")
       ELSE UNCHANGED upset
    /\ UNCHANGED running

Enqueue ==
    /\ queued < MaxQueued /\ queued' = queued + 1
    /\ UNCHANGED <<memory, summary, pending, said>>
    /\ Beside /\ Persist

\* approve_pending_plan, up to the loop's taking the pending calls.
Approve ==
    /\ ~running /\ pending /\ pending' = FALSE /\ running' = TRUE
    /\ UNCHANGED <<file, memory, summary, queued, cached, base, said, saved, upset>>

Reject ==
    /\ ~running /\ pending /\ pending' = FALSE
    /\ UNCHANGED <<memory, summary, queued, running, said, upset>> /\ Persist

\* record_external_approval_result
RecordResult ==
    /\ Hear(FALSE) /\ UNCHANGED <<summary, pending, queued>>
    /\ Beside /\ Persist

CompactNow ==
    /\ ~running /\ CompactMore
    /\ UNCHANGED <<memory, pending, queued, running, said, upset>> /\ Persist

\* The process ends, anywhere, and restore_session opens the session again.
Restart ==
    /\ Restore(Normalized(file)) /\ UNCHANGED <<file, said, upset>>

\* switch_session to a node of the same session: set_active_head, then a new runtime.
Settle(r) ==
    /\ r.next <= MaxNodes + 1
    /\ file' = r /\ Restore(Normalized(r))

Navigate ==
    /\ ~running
    /\ \E head \in Ids(file) :
          LET r == [Normalized(file) EXCEPT !.head = head]
          IN  CanSave(r) /\ Settle(Saved(r))
    /\ IF \E i \in DOMAIN file.nodes : file.nodes[i].draft THEN Upset("strayed")
       ELSE UNCHANGED upset
    /\ UNCHANGED said

Turn ==
    \/ Prompt \/ Continue \/ Inject \/ Compact \/ EndTurn
    \/ \E staged \in BOOLEAN : Speak(staged)
Next ==
    \/ Turn \/ Enqueue \/ Approve \/ Reject \/ RecordResult \/ CompactNow
    \/ Restart \/ Navigate

Spec == Init /\ [][Next]_vars

-----------------------------------------------------------------------------
Users(ms) == SelectSeq(ms, LAMBDA m : m.user)
ActiveBranch(r) == Branch(r, r.head)

\* What a save leaves in the file is what is in memory: a restart restores the conversation
\* as it was ("saves all live state of the memory", AgentRuntime._persist).  It is so as
\* long as every save ends a turn that a user's message began: through rebases, recoveries,
\* drafts, compactions, restarts and moves in the tree no message is lost, repeated or
\* reordered.  When a save fell inside the turn, what was said between it and the next
\* user's message is in the transcript but in no node; but even then the saved branch has
\* every message of a user, only messages that are in memory, and in their order.
BranchIsMemory ==
    /\ TypeOK
    /\ saved =>
          /\ upset = {} => ActiveBranch(file) = memory
          /\ Users(ActiveBranch(file)) = Users(memory)
          /\ ActiveBranch(file) = SelectSeq(memory, LAMBDA m : m \in ToSet(ActiveBranch(file)))

\* A committed turn stays reachable and its branch does not change, whatever is saved after
\* it; only drafts are replaced.
CommittedTurnsAreKept ==
    [][\A i \in DOMAIN file.nodes :
          LET x == file.nodes[i]
          IN  ~x.draft => /\ x.id \in Ids(file')
                          /\ Branch(file', x.id) = Branch(file, x.id)]_file

\* A fork at any node holds the branch of that node, and a rewind the first messages of the
\* active branch, after the new session has cut them into turns of its own.
ForkHoldsBranch ==
    saved =>
        /\ \A head \in Ids(file) : ActiveBranch(Forked(file, head)) = Branch(file, head)
        /\ \A count \in 0 .. Len(ActiveBranch(file)) :
              ActiveBranch(Rewound(file, count)) = SubSeq(ActiveBranch(file), 1, count)
===============================================================================
