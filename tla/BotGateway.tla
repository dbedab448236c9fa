----------------------------- MODULE BotGateway -----------------------------
(* The QQ bot in front of a web session: the webhook starts an asyncio task    *)
(* for every event; QQBotAdapter drops duplicates, queues the messages of a    *)
(* conversation behind one asyncio lock, runs each of them in a thread against *)
(* the session's handle under a timeout, and replies.  A run that is given up  *)
(* - timed out, or cancelled by a forced stop - goes on in its thread.  What is *)
(* sent back is the last text of the session, whoever it was written for.  One *)
(* conversation is modelled; conversations share only the store of seen keys.  *)
EXTENDS Integers, Sequences, FiniteSets, SequencesExt

CONSTANTS
    Events,         \* deliveries of the platform, each of which may be accepted once
    Keys,           \* the event keys: the messages of the conversation
    Key,            \* which message a delivery is of
    MaxQueue,       \* max_queue_per_conversation
    MaxFaults       \* how often the bot is stopped by force, the store forgets, a file is gone

ASSUME BoundsAssumption ==
    /\ IsFiniteSet(Events) /\ Key \in [Events -> Keys]
    /\ MaxQueue \in Nat \ {0} /\ MaxFaults \in Nat

VARIABLES
    seen,        \* QQEventDedupeStore: the keys it knows
    forgotten,   \* how often it lost each of them
    task,        \* the asyncio task of the accepted delivery of an event
    lock,        \* who holds the conversation's lock
    waiters,     \* who waits for it, in order
    queued,      \* _conversation_queued
    thread,      \* the worker thread of run_and_wait: where it is, its session, turn and text
    table,       \* WebSessionManager._handles, for each session the conversation had; the last
                 \* is the one of QQSessionStore, stored by an earlier server or new
    handles,     \* every handle built: its turn, what is queued in it, what it answered
    replies,     \* the replies tried for an event; the platform may refuse one, which is logged
    prompts,     \* how often an event was prompted
    givenUp,     \* somebody stopped waiting for a thread
    lost,        \* the deliveries whose session could not be shown after their turn
    faults

store == <<seen, forgotten>>
waiting == <<lock, waiters, queued>>
runtime == <<table, handles>>
vars == <<store, task, waiting, thread, runtime, replies, prompts, givenUp, lost, faults>>

None == "nobody"
ASSUME NobodyAssumption == None \notin Events
\* "again" is the second try, in a new session; "text" the turn whose text was read.
NoThread == [at |-> "none", session |-> 1, handle |-> 0, turn |-> 0, text |-> 0, again |-> FALSE]
\* "text" is the last turn that left a text, 0 if the last text is older than the handle;
\* "mute" are the turns that ended without one.
NewHandle == [turn |-> 0, open |-> FALSE, closing |-> FALSE, heard |-> {}, queue |-> {}, answered |-> {},
              text |-> 0, mute |-> {}]
Places == {"none", "lookup", "build", "check", "enqueue", "start", "join", "answer", "notice", "missing"}

TypeOK ==
    /\ seen \subseteq Keys /\ forgotten \in [Keys -> Nat]
    /\ task \in [Events -> {"none", "full", "waiting", "run", "done", "cancelled"}]
    /\ lock \in Events \union {None} /\ waiters \in Seq(Events)
    /\ queued \in Nat
    /\ thread \in [Events -> [at : Places, session : 1 .. Len(table), handle : 0 .. Len(handles), turn : Nat,
                             text : Nat, again : BOOLEAN]]
    /\ table \in Seq(0 .. Len(handles))
    /\ \A h \in DOMAIN handles : handles[h] \in [turn : Nat, open : BOOLEAN, closing : BOOLEAN, heard : SUBSET Events,
                                               queue : SUBSET Events, answered : SUBSET Events,
                                               text : Nat, mute : SUBSET Nat]
    /\ replies \in [Events -> SUBSET {"answer", "notice", "timeout", "full"}]
    /\ prompts \in [Events -> Nat] /\ givenUp \in BOOLEAN /\ lost \subseteq Events /\ faults \in 0 .. MaxFaults

Init ==
    /\ seen = {} /\ forgotten = [k \in Keys |-> 0] /\ task = [e \in Events |-> "none"]
    /\ lock = None /\ waiters = <<>> /\ queued = 0
    /\ thread = [e \in Events |-> NoThread]
    /\ \/ table = <<0>> /\ handles = <<>>
       \/ table = <<1>> /\ handles = <<NewHandle>>
    /\ replies = [e \in Events |-> {}] /\ prompts = [e \in Events |-> 0]
    /\ givenUp = FALSE /\ lost = {} /\ faults = 0

-----------------------------------------------------------------------------
(* The adapter's tasks: what runs between two awaits is one step.              *)

\* resolve and run_and_wait: the holder's message is handed to a thread.
Enter(e) ==
    /\ lock' = e
    /\ thread' = [thread EXCEPT ![e] = [NoThread EXCEPT !.at = "lookup", !.session = Len(table)]]

\* Mutant of Duplicate: the store is asked after the key is marked under another name.
DuplicateNever(e) == FALSE

\* seen_or_mark, of a delivery.
Duplicate(e) == Key[e] \in seen

\* The store drops what is older than its time to live, and all it knows when its file is
\* corrupt.
Forget ==
    /\ faults < MaxFaults /\ faults' = faults + 1
    /\ \E K \in SUBSET seen \ {{}} :
          /\ seen' = seen \ K
          /\ forgotten' = [k \in Keys |-> IF k \in K THEN forgotten[k] + 1 ELSE forgotten[k]]
    /\ UNCHANGED <<task, waiting, thread, runtime, replies, prompts, givenUp, lost>>

\* handle_payload up to its first await, however often the platform delivers an event: what
\* is not accepted leaves no trace but the mark.  Messages without the trigger and senders
\* that are not allowed are marked as seen and go no further.
Deliver(e) ==
    /\ seen' = seen \union {Key[e]}
    /\ \/ UNCHANGED <<task, waiting, thread>>
       \/ /\ ~Duplicate(e) /\ task[e] = "none"
          /\ IF lock # None /\ queued >= MaxQueue
             THEN task' = [task EXCEPT ![e] = "full"] /\ UNCHANGED <<waiting, thread>>
             ELSE IF lock = None /\ waiters = <<>>
             THEN Enter(e) /\ task' = [task EXCEPT ![e] = "run"] /\ UNCHANGED <<waiters, queued>>
             ELSE /\ task' = [task EXCEPT ![e] = "waiting"]
                  /\ waiters' = Append(waiters, e) /\ queued' = queued + 1
                  /\ UNCHANGED <<lock, thread>>
    /\ UNCHANGED <<forgotten, runtime, replies, prompts, givenUp, lost, faults>>

\* The lock is handed to the first that waits, after whatever the loop runs before it.
Acquire ==
    /\ lock = None /\ waiters # <<>>
    /\ Enter(Head(waiters)) /\ waiters' = Tail(waiters)
    /\ queued' = IF queued > 0 THEN queued - 1 ELSE 0
    /\ task' = [task EXCEPT ![Head(waiters)] = "run"]
    /\ UNCHANGED <<store, runtime, replies, prompts, givenUp, lost, faults>>

\* The reply, sent or refused; leaving the lock behind drops an empty count.
Leave(e, kind) ==
    /\ task' = [task EXCEPT ![e] = "done"] /\ lock' = None
    /\ replies' = [replies EXCEPT ![e] = @ \union {kind}]
    /\ UNCHANGED <<store, waiters, queued, runtime, prompts, lost, faults>>

Reply(e) ==
    /\ task[e] = "run" /\ thread[e].at \in {"answer", "notice"}
    /\ Leave(e, thread[e].at)
    /\ UNCHANGED <<thread, givenUp>>

\* Mutant of TimeOut: the time limit waits for the run to reach its turn.
TimeOutJoined(e) ==
    /\ task[e] = "run" /\ thread[e].at = "join"
    /\ Leave(e, "timeout")
    /\ givenUp' = TRUE
    /\ UNCHANGED thread

\* wait_for gives up; asyncio.to_thread cannot stop the thread.
TimeOut(e) ==
    /\ task[e] = "run" /\ thread[e].at \notin {"answer", "notice", "missing"}
    /\ Leave(e, "timeout")
    /\ givenUp' = TRUE
    /\ UNCHANGED thread

\* FileNotFoundError is taken for a stored session that is gone: create another, which puts
\* its handle into the table, and run once more.
Replace(e) ==
    /\ task[e] = "run" /\ thread[e].at = "missing"
    /\ handles' = Append(handles, NewHandle) /\ table' = Append(table, Len(handles'))
    /\ thread' = [thread EXCEPT ![e] = [NoThread EXCEPT !.at = "lookup", !.session = Len(table'), !.again = TRUE]]
    /\ UNCHANGED <<store, task, waiting, replies, prompts, givenUp, lost, faults>>

SendFull(e) ==
    /\ task[e] = "full"
    /\ task' = [task EXCEPT ![e] = "done"]
    /\ replies' = [replies EXCEPT ![e] = @ \union {"full"}]
    /\ UNCHANGED <<store, waiting, thread, runtime, prompts, givenUp, lost, faults>>

Live(e) == task[e] \in {"full", "waiting", "run"}

\* stop_bot(force=True) cancels every task of the bot, and the bot is started again; a
\* task that is cancelled while it waits for the lock leaves its count behind.
ForceStop ==
    /\ faults < MaxFaults /\ faults' = faults + 1
    /\ task' = [e \in Events |-> IF Live(e) THEN "cancelled" ELSE task[e]]
    /\ givenUp' = (givenUp \/ lock # None)
    /\ lock' = None /\ waiters' = <<>>
    /\ UNCHANGED <<store, queued, thread, runtime, replies, prompts, lost>>

-----------------------------------------------------------------------------
(* run_and_wait, in a thread of its own.                                       *)

InThread == UNCHANGED <<store, task, waiting, replies, givenUp>>
NoFault == UNCHANGED <<lost, faults>>

\* get_handle: the table is read, the handle built and the table written, apart.
Lookup(e) ==
    /\ thread[e].at = "lookup"
    /\ LET h == table[thread[e].session]
       IN  thread' = [thread EXCEPT ![e].at = IF h = 0 THEN "build" ELSE "check", ![e].handle = h]
    /\ UNCHANGED <<runtime, prompts>> /\ InThread /\ NoFault

Build(e) ==
    /\ thread[e].at = "build"
    /\ handles' = Append(handles, NewHandle)
    /\ table' = [table EXCEPT ![thread[e].session] = Len(handles')]
    /\ thread' = [thread EXCEPT ![e].at = "check", ![e].handle = Len(handles')]
    /\ UNCHANGED prompts /\ InThread /\ NoFault

\* The run fails.  A FileNotFoundError is taken for a session that is gone, the first time.
\* What a thread has for nobody to hear is left out: such a thread goes no further.
Fails(e) ==
    /\ task[e] = "run" /\ thread' = [thread EXCEPT ![e].at = "notice"]
    /\ UNCHANGED faults

FileGone(e) ==
    /\ task[e] = "run"
    /\ thread' = [thread EXCEPT ![e].at = IF thread[e].again THEN "notice" ELSE "missing"]
    /\ faults < MaxFaults /\ faults' = faults + 1

\* The runtime of a session whose file is gone, or that fails otherwise, cannot be built.
NotFound(e) ==
    /\ thread[e].at = "build"
    /\ FileGone(e) \/ Fails(e)
    /\ UNCHANGED <<runtime, prompts, lost>> /\ InThread

\* handle.prompt looks whether the handle is busy; it refuses while a plan waits.
Check(e) ==
    /\ thread[e].at = "check"
    /\ \/ /\ thread' = [thread EXCEPT ![e].at = IF handles[thread[e].handle].open THEN "enqueue" ELSE "start"]
          /\ UNCHANGED faults
       \/ Fails(e)
    /\ UNCHANGED <<runtime, prompts, lost>> /\ InThread

Prompted(e) == prompts' = [prompts EXCEPT ![e] = @ + 1]

Enqueue(e) ==
    /\ thread[e].at = "enqueue"
    /\ LET h == thread[e].handle
       IN  /\ handles' = [handles EXCEPT ![h].queue = @ \union {e}]
           /\ thread' = [thread EXCEPT ![e].at = "join", ![e].turn = handles[h].turn]
    /\ Prompted(e) /\ UNCHANGED table /\ InThread /\ NoFault

\* _start_worker looks again, under the handle's lock.
Start(e) ==
    /\ thread[e].at = "start"
    /\ LET h == thread[e].handle
       IN  IF handles[h].open
           THEN Fails(e) /\ UNCHANGED <<handles, prompts>>
           ELSE /\ UNCHANGED faults
                /\ handles' = [handles EXCEPT ![h].turn = @ + 1, ![h].open = TRUE, ![h].heard = {e}]
                /\ thread' = [thread EXCEPT ![e].at = "join", ![e].turn = handles'[h].turn]
                /\ Prompted(e)
    /\ UNCHANGED <<table, lost>> /\ InThread

\* Mutant of TurnIsOver: the worker of the turn is not joined.
TurnIsOverAlways(e) == TRUE

TurnIsOver(e) ==
    LET h == handles[thread[e].handle] IN h.turn > thread[e].turn \/ ~h.open

\* The snapshot is taken: the reply is the last text of an assistant in it, or that a plan
\* or an artifact waits for approval.
Join(e) ==
    /\ task[e] = "run" /\ thread[e].at = "join" /\ TurnIsOver(e)
    /\ \/ thread' = [thread EXCEPT ![e].at = "answer", ![e].text = handles[thread[e].handle].text]
       \/ thread' = [thread EXCEPT ![e].at = "notice"]
    /\ UNCHANGED <<runtime, prompts>> /\ InThread /\ NoFault

\* The snapshot fails: list_pending_patch_artifacts reads every pending action, and one that
\* is taken away meanwhile raises what Replace is for.
NoSnapshot(e) ==
    /\ thread[e].at = "join" /\ TurnIsOver(e)
    /\ \/ FileGone(e) /\ lost' = lost \union {e}
       \/ Fails(e) /\ UNCHANGED lost
    /\ UNCHANGED <<runtime, prompts>> /\ InThread

Thread(e) == Lookup(e) \/ Build(e) \/ NotFound(e) \/ Check(e) \/ Enqueue(e) \/ Start(e) \/ Join(e) \/ NoSnapshot(e)

-----------------------------------------------------------------------------
(* The worker of a handle: a turn of the runtime that hears what is queued in  *)
(* it until it looks for the last time, and may never end.  It may end without *)
(* a word: the provider fails, something raises, or it is cancelled.           *)

Others == UNCHANGED <<store, task, waiting, thread, table, replies, prompts, givenUp, lost, faults>>

Hear(h) ==
    /\ handles[h].open /\ ~handles[h].closing /\ handles[h].queue # {}
    /\ handles' = [handles EXCEPT ![h].heard = @ \union handles[h].queue, ![h].queue = {}]
    /\ Others

LastLook(h) ==
    /\ handles[h].open /\ ~handles[h].closing /\ handles[h].queue = {}
    /\ handles' = [handles EXCEPT ![h].closing = TRUE]
    /\ Others

\* A text of the assistant, for all that was heard so far.
Speak(h) ==
    /\ handles[h].open /\ ~handles[h].closing
    /\ handles' = [handles EXCEPT ![h].text = handles[h].turn, ![h].answered = @ \union handles[h].heard]
    /\ Others

EndTurn(h) ==
    /\ handles[h].open /\ handles[h].closing
    /\ handles' = [handles EXCEPT ![h].open = FALSE, ![h].closing = FALSE, ![h].heard = {},
                                  ![h].mute = IF handles[h].text = handles[h].turn THEN @
                                              ELSE @ \union {handles[h].turn}]
    /\ Others

Adapter == Acquire \/ \E e \in Events : Reply(e) \/ TimeOut(e) \/ Replace(e) \/ SendFull(e)
Threads == \E e \in Events : Thread(e)
Workers == \E h \in DOMAIN handles : Hear(h) \/ Speak(h) \/ LastLook(h) \/ EndTurn(h)

Next == Forget \/ (\E e \in Events : Deliver(e)) \/ Adapter \/ ForceStop \/ Threads \/ Workers
Spec == Init /\ [][Next]_vars
\* The event loop runs its tasks and timers.  Nothing is assumed of threads and models.
FairSpec == Spec /\ WF_vars(Adapter)

-----------------------------------------------------------------------------
(* Properties.                                                                 *)

Handled(e) == prompts[e] > 0 \/ replies[e] # {}

\* A message is handled once: however often the platform repeats it, it is prompted or
\* answered for one delivery, and for one more only for each time that the store has lost
\* its key (seen_or_mark); a delivery has at most one reply and one prompt, and a second
\* prompt only when its session could not be shown after the first (_handle_message takes
\* that for a session that is gone).  And the count that decides whether a queue is full
\* never falls below the number of messages that wait (handle_payload).
OncePerEvent ==
    /\ \A k \in Keys : Cardinality({e \in Events : Key[e] = k /\ Handled(e)}) <= 1 + forgotten[k]
    /\ \A e \in Events :
          /\ Cardinality(replies[e]) <= 1
          /\ prompts[e] <= 1 \/ (prompts[e] = 2 /\ e \in lost)
    /\ queued >= Len(waiters)

\* A turn of a message's handle that ended without a text.
Mute(e) == thread[e].turn \in handles[thread[e].handle].mute

\* An answer is the answer to its message.  Whoever was given up on, the text that is sent
\* back is never older than the turn the message was prompted in, unless that turn ended
\* without a text: then it is what was said last before (extract_reply_text).  As long as
\* nobody gave up on a run, it is exactly that turn's, written after the message was heard;
\* no two turns of the session overlap, and nothing is left queued (_conversation_locks,
\* run_and_wait).
AnswersTheMessage ==
    /\ TypeOK
    /\ \A e \in Events : "answer" \in replies[e] => thread[e].text >= thread[e].turn \/ Mute(e)
    /\ ~givenUp =>
          /\ \A e \in Events : "answer" \in replies[e] =>
                \/ thread[e].text = thread[e].turn /\ e \in handles[thread[e].handle].answered
                \/ thread[e].text < thread[e].turn /\ Mute(e)
          /\ Cardinality({h \in DOMAIN handles : handles[h].open}) <= 1
          /\ \A h \in DOMAIN handles : handles[h].queue = {}

\* Every message that was accepted is settled, although its run may never end.
EveryMessageSettles == \A e \in Events : Live(e) ~> ~Live(e)
=============================================================================
