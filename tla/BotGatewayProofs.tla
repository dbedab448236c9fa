-------------------------- MODULE BotGatewayProofs --------------------------
(***************************************************************************)
(* For any number of messages and deliveries, of forced stops, timeouts    *)
(* and lost keys, and any bound on the queue: what OncePerEvent and        *)
(* AnswersTheMessage promise holds.                                        *)
(*                                                                         *)
(* A delivery has three places that must agree: its task, its place in the *)
(* queue of the lock, and its thread, which outlives the task.  Stage says *)
(* which replies and prompts each of them allows; Line says that exactly   *)
(* the waiting tasks are in the queue, each once, so that no delivery is   *)
(* handed to a second thread; Counted counts the accepted deliveries of a  *)
(* message against what the store has forgotten.                           *)
(*                                                                         *)
(* What an answer is worth rests on the handles.  Told says that a turn    *)
(* which is over left a text or is mute; Result relates a thread to the    *)
(* turn it joined.  As long as nobody gave up on a run, Alone and Serves   *)
(* tie thread, task and lock together, and Idle says that an open turn is  *)
(* the turn of the one thread that waits for it.                           *)
(***************************************************************************)
EXTENDS BotGateway, FiniteSetTheorems, SequenceTheorems, TLAPS

\* A thread that has not prompted yet, or is to prompt again.
Before == {"none", "lookup", "build", "check", "enqueue", "start", "missing"}
Tasks == {"none", "full", "waiting", "run", "done", "cancelled"}
Replies == {"answer", "notice", "timeout", "full"}
Handle == [turn : Nat, open : BOOLEAN, closing : BOOLEAN, heard : SUBSET Events,
           queue : SUBSET Events, answered : SUBSET Events, text : Nat, mute : SUBSET Nat]
ThreadIn(s, n) == [at : Places, session : 1 .. s, handle : 0 .. n, turn : Nat, text : Nat, again : BOOLEAN]
HoldsHandle == {"check", "enqueue", "start", "join", "answer"}

Types ==
    /\ seen \subseteq Keys /\ forgotten \in [Keys -> Nat]
    /\ task \in [Events -> Tasks]
    /\ lock \in Events \union {None} /\ waiters \in Seq(Events) /\ queued \in Nat
    /\ thread \in [Events -> ThreadIn(Len(table), Len(handles))]
    /\ table \in Seq(Nat) /\ Len(table) > 0 /\ \A s \in 1 .. Len(table) : table[s] \in 0 .. Len(handles)
    /\ handles \in Seq(Handle)
    /\ replies \in [Events -> SUBSET Replies] /\ prompts \in [Events -> Nat]
    /\ givenUp \in BOOLEAN /\ lost \subseteq Events /\ faults \in 0 .. MaxFaults

Stage(e) ==
    /\ task[e] # "done" => replies[e] = {}
    /\ replies[e] = {} \/ \E kind \in Replies : replies[e] = {kind}
    /\ "answer" \in replies[e] => thread[e].at = "answer"
    /\ thread[e].at \in Before =>
          prompts[e] = 0 \/ (prompts[e] = 1 /\ e \in lost /\ (thread[e].at = "missing" \/ thread[e].again))
    /\ thread[e].at \notin Before => prompts[e] <= 1 \/ (prompts[e] = 2 /\ e \in lost /\ thread[e].again)
    /\ thread[e].at = "missing" => ~thread[e].again
    /\ task[e] \in {"none", "waiting"} => thread[e].at = "none" /\ prompts[e] = 0
    /\ thread[e].at \in HoldsHandle => thread[e].handle # 0

Line ==
    /\ queued >= Len(waiters)
    /\ \A i \in 1 .. Len(waiters) : task[waiters[i]] = "waiting"
    /\ \A i, j \in 1 .. Len(waiters) : waiters[i] = waiters[j] => i = j

Accepted(k) == {e \in Events : Key[e] = k /\ task[e] # "none"}
Counted(k) == Cardinality(Accepted(k)) + (IF k \in seen THEN 0 ELSE 1) <= 1 + forgotten[k]

\* A turn of a handle that is over.
Over(q, t) == t < q.turn \/ (t = q.turn /\ ~q.open)

Told(q) ==
    /\ q.text <= q.turn /\ q.mute \subseteq 1 .. q.turn
    /\ q.open => q.turn > 0 /\ q.turn \notin q.mute
    /\ \A t \in 1 .. q.turn : Over(q, t) => t \in q.mute \/ q.text >= t
    /\ ~q.open /\ q.turn > 0 => (q.turn \in q.mute <=> q.text # q.turn)

\* What a handle becomes: a turn that is over stays what it was.
Later(q, r) ==
    /\ q.turn <= r.turn /\ q.answered \subseteq r.answered /\ q.mute \subseteq r.mute
    /\ \A t \in Nat : Over(q, t) => Over(r, t) /\ (t \in r.mute => t \in q.mute)

\* A thread and the turn it has joined.
Result(p, q) ==
    /\ p.at = "join" => p.turn <= q.turn
    /\ p.at = "answer" => Over(q, p.turn) /\ (p.text >= p.turn \/ p.turn \in q.mute)

Work ==
    /\ \A h \in 1 .. Len(handles) : Told(handles[h])
    /\ \A e \in Events : thread[e].at \in HoldsHandle => Result(thread[e], handles[thread[e].handle])

\* As long as nobody gave up.
Resting == {"none", "answer", "notice"}

Alone(e) ==
    /\ task[e] = "run" <=> lock = e
    /\ thread[e].at \notin Resting => task[e] = "run"

Serves(e, p, q) ==
    /\ p.at # "enqueue"
    /\ p.at = "join" =>
          /\ p.turn = q.turn /\ p.turn > 0
          /\ q.open => q.heard = {e}
          /\ q.text = q.turn => e \in q.answered
    /\ p.at = "answer" =>
          IF p.turn \in q.mute THEN p.text < p.turn ELSE p.text = p.turn /\ e \in q.answered

Idle(h) ==
    /\ handles[h].queue = {}
    /\ handles[h].open => \E e \in Events : thread[e].at = "join" /\ thread[e].handle = h

Clean ==
    /\ \A e \in Events : Alone(e)
    /\ \A e \in Events : Serves(e, thread[e], handles[thread[e].handle])
    /\ \A h \in 1 .. Len(handles) : Idle(h)

Inv ==
    /\ Types
    /\ Line
    /\ \A e \in Events : Stage(e)
    /\ \A k \in Keys : Counted(k)
    /\ Work
    /\ ~givenUp => Clean

-----------------------------------------------------------------------------
\* A later handle serves the threads that have joined one of its turns as well.
LEMMA ResultKept ==
    ASSUME NEW q \in Handle, NEW r \in Handle, Later(q, r),
           NEW s \in Nat, NEW n \in Nat, NEW p \in ThreadIn(s, n), Result(p, q)
    PROVE  Result(p, r)
  <1>1. p.turn \in Nat /\ q.turn \in Nat /\ r.turn \in Nat
    BY DEF ThreadIn, Handle
  <1> QED
    BY <1>1 DEF Later, Result

\* So does a clean one the thread that has its answer.
LEMMA AnswerKept ==
    ASSUME NEW q \in Handle, NEW r \in Handle, Later(q, r),
           NEW s \in Nat, NEW n \in Nat, NEW p \in ThreadIn(s, n), NEW e \in Events,
           p.at = "answer", Result(p, q), Serves(e, p, q)
    PROVE  Serves(e, p, r)
  <1>1. p.turn \in Nat /\ q.turn \in Nat /\ r.turn \in Nat
    BY DEF ThreadIn, Handle
  <1>2. p.turn \in r.mute <=> p.turn \in q.mute
    BY <1>1 DEF Later, Result
  <1> QED
    BY <1>2 DEF Later, Serves

LEMMA SameLater ==
    ASSUME NEW q \in Handle
    PROVE  Later(q, q)
  BY DEF Handle, Later

\* At most one thread is at work, and then the lock is its own.
LEMMA Sole ==
    ASSUME Inv, ~givenUp, NEW e \in Events, NEW u \in Events,
           thread[e].at \notin Resting, thread[u].at \notin Resting
    PROVE  u = e
  BY DEF Inv, Clean, Alone

\* While its thread is not yet in a turn, no turn is open.
LEMMA Quiet ==
    ASSUME Inv, ~givenUp, NEW e \in Events, thread[e].at \notin Resting, thread[e].at # "join"
    PROVE  \A h \in 1 .. Len(handles) : ~handles[h].open /\ handles[h].queue = {}
  <1>1. \A u \in Events : thread[u].at = "join" => u = e
    BY Sole DEF Resting
  <1> QED
    BY <1>1 DEF Inv, Clean, Idle

-----------------------------------------------------------------------------
\* The step of one thread.
LEMMA ThreadFrame ==
    ASSUME Inv, NEW e \in Events, Types', UNCHANGED <<store, task, waiting, replies, givenUp>>,
           \A u \in Events \ {e} : thread'[u] = thread[u] /\ prompts'[u] = prompts[u],
           lost \subseteq lost', Stage(e)', thread[e].at \notin Resting,
           Len(handles) <= Len(handles'),
           \A h \in 1 .. Len(handles) : Later(handles[h], handles'[h]),
           \A h \in 1 .. Len(handles') : Told(handles'[h]),
           thread'[e].at \in HoldsHandle => Result(thread'[e], handles'[thread'[e].handle]),
           ~givenUp => /\ Serves(e, thread'[e], handles'[thread'[e].handle])
                       /\ \A h \in 1 .. Len(handles') : Idle(h)'
                       /\ thread'[e].at \notin Resting => thread[e].at \notin Resting
    PROVE  Inv'
  <1>1. Line' /\ \A k \in Keys : Counted(k)'
    BY DEF Inv, Line, Counted, Accepted, waiting, store
  <1>2. ASSUME NEW u \in Events
        PROVE  Stage(u)'
    <2>1. CASE u # e
      BY <2>1 DEF Inv, Stage
    <2> QED
      BY <2>1
  <1>3. /\ Len(handles) \in Nat /\ Len(table) \in Nat
        /\ \A h \in 1 .. Len(handles) : handles[h] \in Handle /\ handles'[h] \in Handle
        /\ \A u \in Events : thread[u] \in ThreadIn(Len(table), Len(handles)) /\ thread[u].handle \in 0 .. Len(handles)
    <2>0. handles' \in Seq(Handle) /\ handles \in Seq(Handle) /\ table \in Seq(Nat)
      BY Zenon DEF Inv, Types, Handle
    <2>1. Len(handles) \in Nat /\ Len(table) \in Nat /\ Len(handles') \in Nat
      BY <2>0
    <2>2. \A h \in 1 .. Len(handles) : handles[h] \in Handle /\ handles'[h] \in Handle
      BY <2>0, <2>1
    <2>3. \A u \in Events : thread[u] \in ThreadIn(Len(table), Len(handles))
      BY DEF Inv, Types
    <2> QED
      BY <2>1, <2>2, <2>3 DEF ThreadIn
  <1>4. ASSUME NEW u \in Events, u # e, thread[u].at \in HoldsHandle
        PROVE  Result(thread[u], handles'[thread[u].handle])
    <2>1. thread[u].handle \in 1 .. Len(handles)
      BY <1>3, <1>4 DEF Inv, Stage
    <2>2. Result(thread[u], handles[thread[u].handle])
      BY <1>4 DEF Inv, Work
    <2> QED
      BY <1>3, <2>1, <2>2, ResultKept
  <1>5. Work'
    BY <1>4 DEF Work
  <1>6. ASSUME ~givenUp
        PROVE  Clean'
    <2>1. task[e] = "run" /\ lock = e
      BY <1>6 DEF Inv, Clean, Alone
    <2>2. ASSUME NEW u \in Events
          PROVE  Alone(u)'
      <3>1. Alone(u) /\ UNCHANGED <<task, lock>>
        BY <1>6 DEF Inv, Clean, waiting
      <3>2. CASE u = e
        BY <2>1, <3>1, <3>2 DEF Alone
      <3>3. CASE u # e
        BY <3>1, <3>3 DEF Alone
      <3> QED
        BY <3>2, <3>3
    <2>3. ASSUME NEW u \in Events
          PROVE  Serves(u, thread[u], handles[thread[u].handle])' \/ u = e
      <3>1. CASE u # e
        <4>1. thread[u].at \in Resting /\ thread'[u] = thread[u]
          BY <1>6, <3>1, Sole
        <4>2. CASE thread[u].at = "answer"
          <5>1. thread[u].handle \in 1 .. Len(handles)
            BY <1>3, <4>2 DEF Inv, Stage, HoldsHandle
          <5>2. Result(thread[u], handles[thread[u].handle]) /\ Serves(u, thread[u], handles[thread[u].handle])
            BY <1>6, <4>2 DEF Inv, Work, Clean, HoldsHandle
          <5> QED
            BY <1>3, <4>1, <4>2, <5>1, <5>2, AnswerKept
        <4>3. CASE thread[u].at # "answer"
          BY <4>1, <4>3 DEF Serves, Resting
        <4> QED
          BY <4>2, <4>3
      <3> QED
        BY <3>1
    <2> QED
      BY <1>6, <2>2, <2>3 DEF Clean
  <1> QED
    BY <1>1, <1>2, <1>5, <1>6 DEF Inv

\* The handles stay as they are.
LEMMA SameHandles ==
    ASSUME Inv, UNCHANGED handles
    PROVE  /\ Len(handles) <= Len(handles')
           /\ \A h \in 1 .. Len(handles) : Later(handles[h], handles'[h])
           /\ \A h \in 1 .. Len(handles') : Told(handles'[h])
  <1>1. Len(handles) \in Nat /\ \A h \in 1 .. Len(handles) : handles[h] \in Handle
    BY DEF Inv, Types
  <1> QED
    BY <1>1, SameLater DEF Inv, Work

\* No turn is open in any handle: so it stays while the handles do.
LEMMA StaysIdle ==
    ASSUME Inv, UNCHANGED handles, \A h \in 1 .. Len(handles) : ~handles[h].open /\ handles[h].queue = {}
    PROVE  \A h \in 1 .. Len(handles') : Idle(h)'
  BY DEF Idle

\* What a thread that moves is, and that the others are what they were.
LEMMA Moves ==
    ASSUME Inv, NEW e \in Events
    PROVE  /\ thread[e] \in ThreadIn(Len(table), Len(handles))
           /\ thread[e].session \in 1 .. Len(table) /\ thread[e].handle \in 0 .. Len(handles)
           /\ thread[e].turn \in Nat /\ thread[e].text \in Nat /\ thread[e].again \in BOOLEAN
           /\ Len(table) \in Nat /\ Len(handles) \in Nat /\ prompts[e] \in Nat
           /\ DOMAIN thread = Events /\ Stage(e)
           /\ thread[e].at \in HoldsHandle =>
                 /\ thread[e].handle \in 1 .. Len(handles) /\ handles[thread[e].handle] \in Handle
                 /\ Told(handles[thread[e].handle]) /\ Result(thread[e], handles[thread[e].handle])
  <1>1. thread[e] \in ThreadIn(Len(table), Len(handles))
    BY DEF Inv, Types
  <1>2. Len(table) \in Nat /\ Len(handles) \in Nat /\ prompts[e] \in Nat /\ DOMAIN thread = Events
    BY DEF Inv, Types
  <1>3. /\ thread[e].session \in 1 .. Len(table) /\ thread[e].handle \in 0 .. Len(handles)
        /\ thread[e].turn \in Nat /\ thread[e].text \in Nat /\ thread[e].again \in BOOLEAN
    BY <1>1 DEF ThreadIn
  <1>4. Stage(e)
    BY DEF Inv
  <1>5. thread[e].at \in HoldsHandle => thread[e].handle \in 1 .. Len(handles)
    BY <1>2, <1>3, <1>4 DEF Stage
  <1> QED
    BY <1>1, <1>2, <1>3, <1>4, <1>5 DEF Inv, Types, Work

\* get_handle looks into the table.
LEMMA LookupStep ==
    ASSUME Inv, NEW e \in Events, Lookup(e)
    PROVE  Inv'
  <1> DEFINE h == table[thread[e].session]
             at == IF h = 0 THEN "build" ELSE "check"
  <1>1. /\ thread[e].at = "lookup" /\ UNCHANGED <<runtime, prompts, lost, faults>>
        /\ UNCHANGED <<store, task, waiting, replies, givenUp>>
        /\ thread' = [thread EXCEPT ![e].at = at, ![e].handle = h]
    BY DEF Lookup, InThread, NoFault
  <1>2. h \in 0 .. Len(handles) /\ at \in Places
    BY Moves DEF Inv, Types, Places
  <1>3. /\ thread'[e].at = at /\ thread'[e].handle = h /\ thread'[e].again = thread[e].again
        /\ thread'[e] \in ThreadIn(Len(table), Len(handles)) /\ thread' = [thread EXCEPT ![e] = thread'[e]]
    BY <1>1, <1>2, Moves DEF ThreadIn
  <1> HIDE DEF h, at
  <1>4. Types'
    BY <1>1, <1>3 DEF Inv, Types, runtime, store, waiting
  <1>5. at \in {"build", "check"} /\ (at = "check" => h # 0)
    BY DEF h, at
  <1>6. Stage(e)'
    BY <1>1, <1>3, <1>5, Moves DEF Stage, Before, HoldsHandle
  <1>7. ~givenUp => \A g \in 1 .. Len(handles') : Idle(g)'
    BY <1>1, Quiet, StaysIdle DEF Resting, runtime
  <1>8. \A u \in Events \ {e} : thread'[u] = thread[u] /\ prompts'[u] = prompts[u]
    BY <1>1, Moves
  <1> QED
    BY <1>1, <1>3, <1>4, <1>5, <1>6, <1>7, <1>8, SameHandles, ThreadFrame DEF Resting, Result, Serves, runtime

\* A thread that leaves for a place where it has nothing to say of its handle.
LEMMA Plain ==
    ASSUME Inv, NEW e \in Events, NEW at \in {"enqueue", "start", "notice", "missing"},
           thread' = [thread EXCEPT ![e].at = at],
           thread[e].at \in {"build", "check", "start", "join"},
           at = "missing" => ~thread[e].again /\ (thread[e].at = "join" => e \in lost'),
           at \in {"enqueue", "start"} => thread[e].at = "check",
           ~givenUp => at # "enqueue" /\ \A h \in 1 .. Len(handles) : ~handles[h].open /\ handles[h].queue = {},
           UNCHANGED <<runtime, prompts>>, UNCHANGED <<store, task, waiting, replies, givenUp>>,
           lost \subseteq lost', lost' \subseteq Events, faults' \in 0 .. MaxFaults
    PROVE  Inv'
  <1>1. /\ thread'[e].at = at /\ thread'[e].handle = thread[e].handle /\ thread'[e].again = thread[e].again
        /\ thread'[e] \in ThreadIn(Len(table), Len(handles)) /\ thread' = [thread EXCEPT ![e] = thread'[e]]
    BY Moves DEF ThreadIn, Places
  <1>2. Types'
    BY <1>1 DEF Inv, Types, runtime, store, waiting
  <1>3. Stage(e)'
    BY <1>1, Moves DEF Stage, Before, HoldsHandle
  <1>4. ~givenUp => \A g \in 1 .. Len(handles') : Idle(g)'
    BY StaysIdle DEF runtime
  <1>5. \A u \in Events \ {e} : thread'[u] = thread[u] /\ prompts'[u] = prompts[u]
    BY Moves
  <1> QED
    BY <1>1, <1>2, <1>3, <1>4, <1>5, SameHandles, ThreadFrame DEF Resting, Result, Serves, runtime

\* The run fails before it is in a turn.
LEMMA FailStep ==
    ASSUME Inv, NEW e \in Events, Fails(e) \/ FileGone(e), thread[e].at \in {"build", "check", "start"},
           thread[e].at # "build" => Fails(e),
           UNCHANGED <<runtime, prompts, lost>>, UNCHANGED <<store, task, waiting, replies, givenUp>>
    PROVE  Inv'
  <1>1. PICK at \in {"notice", "missing"} :
           thread' = [thread EXCEPT ![e].at = at] /\ (at = "missing" => ~thread[e].again)
    BY DEF Fails, FileGone
  <1>2. faults' \in 0 .. MaxFaults
    BY BoundsAssumption DEF Fails, FileGone, Inv, Types
  <1>3. lost' \subseteq Events
    BY DEF Inv, Types
  <1> QED
    BY <1>1, <1>2, <1>3, Quiet, Plain DEF Resting

\* handle.prompt looks whether a turn is open.
LEMMA CheckStep ==
    ASSUME Inv, NEW e \in Events, Check(e)
    PROVE  Inv'
  <1>1. /\ thread[e].at = "check" /\ UNCHANGED <<runtime, prompts, lost>>
        /\ UNCHANGED <<store, task, waiting, replies, givenUp>>
    BY DEF Check, InThread
  <1>2. CASE Fails(e)
    BY <1>1, <1>2, FailStep
  <1>3. CASE ~Fails(e)
    <2> DEFINE at == IF handles[thread[e].handle].open THEN "enqueue" ELSE "start"
    <2>1. thread' = [thread EXCEPT ![e].at = at] /\ UNCHANGED faults /\ at \in {"enqueue", "start"}
      BY <1>3 DEF Check
    <2>2. faults' \in 0 .. MaxFaults /\ lost' \subseteq Events
      BY <1>1, <2>1 DEF Inv, Types
    <2>3. thread[e].handle \in 1 .. Len(handles)
      BY <1>1, Moves DEF HoldsHandle
    <2>4. ~givenUp => at # "enqueue" /\ \A h \in 1 .. Len(handles) : ~handles[h].open /\ handles[h].queue = {}
      BY <1>1, <2>3, Quiet DEF Resting
    <2> HIDE DEF at
    <2> QED
      BY <1>1, <2>1, <2>2, <2>4, Plain
  <1> QED
    BY <1>2, <1>3

\* The runtime cannot be built.
LEMMA NotFoundStep ==
    ASSUME Inv, NEW e \in Events, NotFound(e)
    PROVE  Inv'
  BY FailStep DEF NotFound, InThread

\* When the turn of a thread is over, no other is open.
LEMMA QuietOver ==
    ASSUME Inv, NEW e \in Events, thread[e].at = "join", TurnIsOver(e)
    PROVE  /\ Over(handles[thread[e].handle], thread[e].turn)
           /\ ~givenUp => \A h \in 1 .. Len(handles) : ~handles[h].open /\ handles[h].queue = {}
  <1> DEFINE g == thread[e].handle
  <1>1. /\ g \in 1 .. Len(handles) /\ handles[g] \in Handle /\ thread[e].turn \in Nat
        /\ thread[e].turn <= handles[g].turn
    BY Moves DEF HoldsHandle, Result
  <1>2. handles[g].turn \in Nat /\ Over(handles[g], thread[e].turn)
    BY <1>1 DEF Handle, TurnIsOver, Over
  <1>3. ASSUME ~givenUp, NEW h \in 1 .. Len(handles)
        PROVE  ~handles[h].open /\ handles[h].queue = {}
    <2>1. Idle(h) /\ thread[e].turn = handles[g].turn
      BY <1>3 DEF Inv, Clean, Serves
    <2>2. ~handles[g].open
      BY <1>1, <1>2, <2>1 DEF TurnIsOver
    <2>3. \A u \in Events : thread[u].at = "join" => u = e
      BY <1>3, Sole DEF Resting
    <2> QED
      BY <2>1, <2>2, <2>3 DEF Idle
  <1> QED
    BY <1>2, <1>3

\* The answer: the turn left a text, or is mute.
LEMMA JoinStep ==
    ASSUME Inv, NEW e \in Events, Join(e)
    PROVE  Inv'
  <1> DEFINE q == handles[thread[e].handle]
  <1>1. /\ thread[e].at = "join" /\ TurnIsOver(e) /\ UNCHANGED <<runtime, prompts, lost, faults>>
        /\ UNCHANGED <<store, task, waiting, replies, givenUp>>
    BY DEF Join, InThread, NoFault
  <1>2. /\ Over(q, thread[e].turn)
        /\ ~givenUp => \A h \in 1 .. Len(handles) : ~handles[h].open /\ handles[h].queue = {}
    BY <1>1, QuietOver
  <1>3. CASE thread' = [thread EXCEPT ![e].at = "notice"]
    <2>1. faults' \in 0 .. MaxFaults /\ lost' \subseteq Events
      BY <1>1 DEF Inv, Types
    <2> QED
      BY <1>1, <1>2, <1>3, <2>1, Plain
  <1>4. CASE thread' = [thread EXCEPT ![e].at = "answer", ![e].text = q.text]
    <2>1. q \in Handle /\ Told(q) /\ thread[e].turn <= q.turn
      BY <1>1, Moves DEF HoldsHandle, Result
    <2>2. q.text \in Nat /\ q.turn \in Nat
      BY <2>1 DEF Handle
    <2>3. /\ thread'[e].at = "answer" /\ thread'[e].handle = thread[e].handle /\ thread'[e].again = thread[e].again
          /\ thread'[e].turn = thread[e].turn /\ thread'[e].text = q.text
          /\ thread'[e] \in ThreadIn(Len(table), Len(handles)) /\ thread' = [thread EXCEPT ![e] = thread'[e]]
      BY <1>4, <2>2, Moves DEF ThreadIn, Places
    <2> HIDE DEF q
    <2>4. Types'
      BY <1>1, <2>3 DEF Inv, Types, runtime, store, waiting
    <2>5. Stage(e)'
      BY <1>1, <2>3, Moves DEF Stage, Before, HoldsHandle
    <2>6. ~givenUp => \A g \in 1 .. Len(handles') : Idle(g)'
      BY <1>1, <1>2, StaysIdle DEF runtime
    <2>7. \A u \in Events \ {e} : thread'[u] = thread[u] /\ prompts'[u] = prompts[u]
      BY <1>1, <1>4, Moves
    <2>8. Result(thread'[e], q)
      <3>1. thread[e].turn \in Nat
        BY Moves
      <3>2. thread[e].turn = 0 \/ thread[e].turn \in 1 .. q.turn
        BY <2>1, <2>2, <3>1
      <3>3. q.text >= thread[e].turn \/ thread[e].turn \in q.mute
        BY <1>2, <2>1, <2>2, <3>2 DEF Told
      <3> QED
        BY <1>2, <2>3, <3>3 DEF Result
    <2>9. ASSUME ~givenUp
          PROVE  Serves(e, thread'[e], q)
      <3>1. thread[e].turn = q.turn /\ q.turn > 0 /\ (q.text = q.turn => e \in q.answered)
        BY <1>1, <2>9 DEF Inv, Clean, Serves, q
      <3>2. ~q.open
        BY <1>2, <2>2, <3>1 DEF Over
      <3>3. q.turn \in q.mute <=> q.text # q.turn
        BY <2>1, <2>2, <3>1, <3>2 DEF Told
      <3>4. q.text <= q.turn
        BY <2>1 DEF Told
      <3> QED
        BY <2>2, <2>3, <3>1, <3>3, <3>4 DEF Serves
    <2>10. handles'[thread'[e].handle] = q
      BY <1>1, <2>3 DEF runtime, q
    <2> QED
      BY <1>1, <2>3, <2>4, <2>5, <2>6, <2>7, <2>8, <2>9, <2>10, SameHandles, ThreadFrame DEF Resting, runtime
  <1> QED
    BY <1>3, <1>4 DEF Join

\* The session cannot be shown.
LEMMA NoSnapshotStep ==
    ASSUME Inv, NEW e \in Events, NoSnapshot(e)
    PROVE  Inv'
  <1>1. /\ thread[e].at = "join" /\ TurnIsOver(e) /\ UNCHANGED <<runtime, prompts>>
        /\ UNCHANGED <<store, task, waiting, replies, givenUp>>
    BY DEF NoSnapshot, InThread
  <1>2. PICK at \in {"notice", "missing"} :
           thread' = [thread EXCEPT ![e].at = at] /\ (at = "missing" => ~thread[e].again /\ e \in lost')
    BY DEF NoSnapshot, Fails, FileGone
  <1>3. faults' \in 0 .. MaxFaults /\ lost \subseteq lost' /\ lost' \subseteq Events
    BY BoundsAssumption DEF NoSnapshot, Fails, FileGone, Inv, Types
  <1> QED
    BY <1>1, <1>2, <1>3, QuietOver, Plain

-----------------------------------------------------------------------------
\* A handle that is added changes no other.
LEMMA OneAdded ==
    ASSUME Inv, handles' = Append(handles, NewHandle)
    PROVE  /\ Len(handles') = Len(handles) + 1 /\ Len(handles) \in Nat /\ handles' \in Seq(Handle)
           /\ \A h \in 1 .. Len(handles) : handles'[h] = handles[h] /\ Later(handles[h], handles'[h])
           /\ handles'[Len(handles')] = NewHandle /\ NewHandle \in Handle
           /\ \A h \in 1 .. Len(handles') : Told(handles'[h])
           /\ \A h \in 1 .. Len(handles') : h = Len(handles') \/ h \in 1 .. Len(handles)
           /\ (\A h \in 1 .. Len(handles) : ~handles[h].open /\ handles[h].queue = {}) =>
                 \A h \in 1 .. Len(handles') : Idle(h)'
  <1>1. NewHandle \in Handle
    BY DEF NewHandle, Handle
  <1>2. handles \in Seq(Handle)
    BY DEF Inv, Types
  <1>3. /\ Len(handles') = Len(handles) + 1 /\ Len(handles) \in Nat /\ handles' \in Seq(Handle)
        /\ \A h \in 1 .. Len(handles) : handles'[h] = handles[h] /\ handles[h] \in Handle
        /\ handles'[Len(handles')] = NewHandle
    BY <1>1, <1>2
  <1>4. Told(NewHandle)
    BY DEF NewHandle, Told, Over
  <1>5. \A h \in 1 .. Len(handles') : h = Len(handles') \/ h \in 1 .. Len(handles)
    BY <1>3
  <1>6. \A h \in 1 .. Len(handles) : Told(handles[h])
    BY DEF Inv, Work
  <1>7. ~NewHandle.open /\ NewHandle.queue = {}
    BY DEF NewHandle
  <1>8. \A h \in 1 .. Len(handles') : Told(handles'[h])
    BY <1>3, <1>4, <1>5, <1>6
  <1> QED
    BY <1>1, <1>3, <1>5, <1>7, <1>8, SameLater DEF Idle

\* get_handle builds a handle and puts it into the table.
LEMMA BuildStep ==
    ASSUME Inv, NEW e \in Events, Build(e)
    PROVE  Inv'
  <1>1. /\ thread[e].at = "build" /\ UNCHANGED <<prompts, lost, faults>>
        /\ UNCHANGED <<store, task, waiting, replies, givenUp>>
        /\ handles' = Append(handles, NewHandle)
        /\ table' = [table EXCEPT ![thread[e].session] = Len(handles')]
        /\ thread' = [thread EXCEPT ![e].at = "check", ![e].handle = Len(handles')]
    BY DEF Build, InThread, NoFault
  <1>2. Len(handles') = Len(handles) + 1 /\ Len(handles) \in Nat /\ handles' \in Seq(Handle)
    BY <1>1, OneAdded
  <1>3. /\ table' \in Seq(Nat) /\ Len(table') = Len(table) /\ Len(table') > 0
        /\ \A s \in 1 .. Len(table') : table'[s] \in 0 .. Len(handles')
    <2>1. table \in Seq(Nat) /\ Len(table) > 0 /\ \A s \in 1 .. Len(table) : table[s] \in 0 .. Len(handles)
      BY DEF Inv, Types
    <2>2. thread[e].session \in 1 .. Len(table) /\ Len(handles') \in Nat
      BY <1>2, Moves
    <2>3. table' \in Seq(Nat) /\ Len(table') = Len(table)
      BY <1>1, <2>1, <2>2
    <2>4. \A s \in 1 .. Len(table) : table'[s] = IF s = thread[e].session THEN Len(handles') ELSE table[s]
      BY <1>1, <2>1
    <2>5. ASSUME NEW s \in 1 .. Len(table)
          PROVE  table'[s] \in 0 .. Len(handles')
      <3>1. table'[s] = Len(handles') \/ table'[s] = table[s]
        BY <2>4
      <3>2. table[s] \in 0 .. Len(handles)
        BY <2>1
      <3> QED
        BY <1>2, <2>2, <3>1, <3>2
    <2> QED
      BY <2>1, <2>3, <2>5
  <1> DEFINE n == Len(handles')
  <1>a. n \in Nat /\ n > 0 /\ Len(table') = Len(table) /\ Len(table) \in Nat
    BY <1>2, <1>3, Moves
  <1>b. thread' = [thread EXCEPT ![e].at = "check", ![e].handle = n]
    BY <1>1
  <1>4. /\ thread'[e].at = "check" /\ thread'[e].handle = n /\ thread'[e].again = thread[e].again
        /\ thread'[e] \in ThreadIn(Len(table'), n) /\ thread' = [thread EXCEPT ![e] = thread'[e]]
    <2> HIDE DEF n
    <2>1. thread' = [thread EXCEPT ![e] = [thread[e] EXCEPT !.at = "check", !.handle = n]]
      BY <1>b, Moves
    <2>2. thread'[e] = [thread[e] EXCEPT !.at = "check", !.handle = n]
      BY <2>1, Moves
    <2>3. n \in 0 .. n /\ "check" \in Places
      BY <1>a DEF Places
    <2>4. /\ thread[e] \in ThreadIn(Len(table'), Len(handles))
      BY <1>a, Moves
    <2>5. thread'[e] \in ThreadIn(Len(table'), n) /\ thread'[e].at = "check" /\ thread'[e].handle = n /\ thread'[e].again = thread[e].again
      BY <2>2, <2>3, <2>4 DEF ThreadIn
    <2> QED
      BY <2>1, <2>2, <2>5
  <1>5. \A u \in Events : u # e => thread'[u] = thread[u] /\ thread[u] \in ThreadIn(Len(table'), Len(handles'))
    BY <1>1, <1>2, <1>3, Moves DEF ThreadIn
  <1>6. thread' \in [Events -> ThreadIn(Len(table'), Len(handles'))]
    BY <1>4, <1>5, Moves
  <1>7. Types'
    BY <1>1, <1>2, <1>3, <1>6 DEF Inv, Types, store, waiting
  <1>8. Stage(e)'
    <2>1. thread'[e].handle # 0 /\ UNCHANGED <<task, replies, prompts, lost>>
      BY <1>1, <1>4, <1>a DEF waiting
    <2>2. Stage(e) /\ thread[e].at = "build"
      BY <1>1, Moves
    <2> QED
      BY <1>4, <2>1, <2>2 DEF Stage, Before, HoldsHandle
  <1>9. ~givenUp => \A h \in 1 .. Len(handles') : Idle(h)'
    BY <1>1, Quiet, OneAdded DEF Resting
  <1>10. /\ Len(handles) <= Len(handles') /\ \A h \in 1 .. Len(handles) : Later(handles[h], handles'[h])
         /\ \A h \in 1 .. Len(handles') : Told(handles'[h])
    BY <1>1, <1>2, OneAdded
  <1>11. /\ Result(thread'[e], handles'[thread'[e].handle]) /\ Serves(e, thread'[e], handles'[thread'[e].handle])
         /\ thread[e].at \notin Resting /\ lost \subseteq lost'
    BY <1>1, <1>4 DEF Resting, Result, Serves
  <1>12. \A u \in Events \ {e} : thread'[u] = thread[u] /\ prompts'[u] = prompts[u]
    BY <1>1, <1>5
  <1>13. UNCHANGED <<store, task, waiting, replies, givenUp>>
    BY <1>1
  <1> HIDE DEF n
  <1> QED
    BY <1>7, <1>8, <1>9, <1>10, <1>11, <1>12, <1>13, ThreadFrame

\* One handle changes, and its turns that are over stay over.
LEMMA OneChanged ==
    ASSUME Inv, NEW h \in 1 .. Len(handles), NEW r \in Handle, handles' = [handles EXCEPT ![h] = r],
           Later(handles[h], r), Told(r)
    PROVE  /\ handles' \in Seq(Handle) /\ Len(handles') = Len(handles)
           /\ \A g \in 1 .. Len(handles) : handles'[g] = IF g = h THEN r ELSE handles[g]
           /\ \A g \in 1 .. Len(handles) : Later(handles[g], handles'[g]) /\ Told(handles'[g])
  <1>1. handles \in Seq(Handle)
    BY DEF Inv, Types
  <1>2. /\ handles' \in Seq(Handle) /\ Len(handles') = Len(handles)
        /\ \A g \in 1 .. Len(handles) : handles'[g] = IF g = h THEN r ELSE handles[g]
    BY <1>1
  <1>3. \A g \in 1 .. Len(handles) : Told(handles[g]) /\ handles[g] \in Handle
    BY <1>1 DEF Inv, Work
  <1> QED
    BY <1>2, <1>3, SameLater

\* What happens to a handle: a turn is opened, a message is queued in it, what is queued is
\* heard, a text is written, it looks for the last time, the turn ends.
Opened(q, e) == [q EXCEPT !.turn = @ + 1, !.open = TRUE, !.heard = {e}]
WithQueued(q, e) == [q EXCEPT !.queue = @ \union {e}]
Heard(q) == [q EXCEPT !.heard = @ \union q.queue, !.queue = {}]
Spoken(q) == [q EXCEPT !.text = q.turn, !.answered = @ \union q.heard]
Looked(q) == [q EXCEPT !.closing = TRUE]
Ended(q) == [q EXCEPT !.open = FALSE, !.closing = FALSE, !.heard = {},
                      !.mute = IF q.text = q.turn THEN @ ELSE @ \union {q.turn}]

LEMMA OpenedFields ==
    ASSUME NEW q \in Handle, NEW e \in Events
    PROVE  /\ Opened(q, e) \in Handle /\ Opened(q, e).turn = q.turn + 1 /\ Opened(q, e).open
           /\ Opened(q, e).heard = {e} /\ Opened(q, e).queue = q.queue /\ Opened(q, e).text = q.text
           /\ Opened(q, e).answered = q.answered /\ Opened(q, e).mute = q.mute
  <1> DEFINE n == q.turn + 1
  <1>1. n \in Nat /\ {e} \in SUBSET Events
    BY DEF Handle
  <1>2. Opened(q, e) = [q EXCEPT !.turn = n, !.open = TRUE, !.heard = {e}]
    BY DEF Opened
  <1> HIDE DEF n
  <1>3. Opened(q, e).turn = n
    BY <1>2 DEF Handle
  <1> QED
    BY <1>1, <1>2, <1>3 DEF Handle, n

LEMMA OpenedTold ==
    ASSUME NEW q \in Handle, NEW e \in Events, Told(q), ~q.open
    PROVE  Told(Opened(q, e)) /\ Later(q, Opened(q, e)) /\ q.turn \in Nat /\ Opened(q, e).text # Opened(q, e).turn
  <1> DEFINE r == Opened(q, e)
  <1>1. /\ r.turn = q.turn + 1 /\ r.open /\ r.text = q.text /\ r.mute = q.mute /\ r.answered = q.answered
        /\ q.turn \in Nat /\ q.text \in Nat
    BY OpenedFields DEF Handle
  <1> HIDE DEF r
  <1>2. \A t \in 1 .. r.turn : Over(r, t) => t \in 1 .. q.turn /\ Over(q, t)
    BY <1>1 DEF Over
  <1>3. Told(r)
    BY <1>1, <1>2 DEF Told
  <1>4. Later(q, r) /\ r.text # r.turn
    BY <1>1 DEF Later, Over, Told
  <1> QED
    BY <1>1, <1>3, <1>4 DEF r

LEMMA QueuedTold ==
    ASSUME NEW q \in Handle, NEW e \in Events, Told(q)
    PROVE  /\ WithQueued(q, e) \in Handle /\ WithQueued(q, e).turn = q.turn /\ q.turn \in Nat
           /\ Told(WithQueued(q, e)) /\ Later(q, WithQueued(q, e))
  <1> DEFINE r == WithQueued(q, e)
  <1>1. /\ r \in Handle /\ r.turn = q.turn /\ r.open = q.open /\ r.text = q.text /\ r.mute = q.mute
        /\ r.answered = q.answered /\ q.turn \in Nat
    BY DEF Handle, WithQueued
  <1> HIDE DEF r
  <1>2. Told(r) /\ Later(q, r)
    BY <1>1 DEF Told, Later, Over
  <1> QED
    BY <1>1, <1>2 DEF r

\* A thread prompts: it joins a turn.
LEMMA Prompts ==
    ASSUME Inv, NEW e \in Events, thread[e].at \in {"enqueue", "start"}, NEW t \in Nat,
           thread' = [thread EXCEPT ![e].at = "join", ![e].turn = t], Prompted(e),
           NEW r \in Handle, handles' = [handles EXCEPT ![thread[e].handle] = r],
           Later(handles[thread[e].handle], r), Told(r), t <= r.turn,
           ~givenUp => r.turn = t /\ t > 0 /\ r.heard = {e} /\ r.queue = {} /\ r.text # r.turn,
           UNCHANGED <<table, lost, faults>>, UNCHANGED <<store, task, waiting, replies, givenUp>>
    PROVE  Inv'
  <1> DEFINE h == thread[e].handle
  <1>1. h \in 1 .. Len(handles)
    BY Moves DEF HoldsHandle
  <1>2. /\ handles' \in Seq(Handle) /\ Len(handles') = Len(handles)
        /\ \A g \in 1 .. Len(handles) : handles'[g] = IF g = h THEN r ELSE handles[g]
        /\ \A g \in 1 .. Len(handles) : Later(handles[g], handles'[g]) /\ Told(handles'[g])
    BY <1>1, OneChanged
  <1>3. /\ thread'[e].at = "join" /\ thread'[e].handle = h /\ thread'[e].again = thread[e].again
        /\ thread'[e].turn = t
        /\ thread'[e] \in ThreadIn(Len(table), Len(handles)) /\ thread' = [thread EXCEPT ![e] = thread'[e]]
    BY Moves DEF ThreadIn, Places
  <1>4. prompts' \in [Events -> Nat] /\ prompts'[e] = prompts[e] + 1
    BY DEF Inv, Types, Prompted
  <1>5. thread' \in [Events -> ThreadIn(Len(table'), Len(handles'))]
    BY <1>2, <1>3, Zenon DEF Inv, Types
  <1>6. Types'
    BY <1>2, <1>4, <1>5 DEF Inv, Types, store, waiting
  <1>7. Stage(e)'
    <2>1. Stage(e) /\ prompts[e] \in Nat /\ h # 0
      BY <1>1, Moves
    <2> QED
      BY <1>3, <1>4, <2>1 DEF Stage, Before, HoldsHandle, waiting
  <1>8. ASSUME ~givenUp
        PROVE  \A g \in 1 .. Len(handles') : Idle(g)'
    <2>1. \A g \in 1 .. Len(handles) : ~handles[g].open /\ handles[g].queue = {}
      BY <1>8, Quiet DEF Resting
    <2>2. ASSUME NEW g \in 1 .. Len(handles)
          PROVE  Idle(g)'
      <3>1. handles'[g].queue = {}
        BY <1>2, <1>8, <2>1
      <3>2. handles'[g].open => g = h
        BY <1>2, <2>1
      <3> QED
        BY <1>3, <3>1, <3>2 DEF Idle
    <2> QED
      BY <1>2, <2>2
  <1>9. \A u \in Events \ {e} : thread'[u] = thread[u] /\ prompts'[u] = prompts[u]
    BY Moves DEF Inv, Types, Prompted
  <1>10. /\ Result(thread'[e], handles'[thread'[e].handle])
         /\ ~givenUp => Serves(e, thread'[e], handles'[thread'[e].handle])
    BY <1>1, <1>2, <1>3 DEF Result, Serves
  <1>11. Len(handles) \in Nat
    BY Moves
  <1>12. /\ Len(handles) <= Len(handles') /\ \A g \in 1 .. Len(handles) : Later(handles[g], handles'[g])
         /\ \A g \in 1 .. Len(handles') : Told(handles'[g])
    BY <1>2, <1>11
  <1>13. thread[e].at \notin Resting /\ lost \subseteq lost'
    BY DEF Resting
  <1> HIDE DEF h
  <1> QED
    BY <1>6, <1>7, <1>8, <1>9, <1>10, <1>12, <1>13, ThreadFrame

\* handle.prompt queues the message; it never does so while nobody gave up.
LEMMA EnqueueStep ==
    ASSUME Inv, NEW e \in Events, Enqueue(e)
    PROVE  Inv'
  <1> DEFINE h == thread[e].handle
             q == handles[h]
             r == WithQueued(q, e)
  <1>1. /\ thread[e].at = "enqueue" /\ handles' = [handles EXCEPT ![h] = r]
        /\ thread' = [thread EXCEPT ![e].at = "join", ![e].turn = q.turn]
        /\ Prompted(e) /\ UNCHANGED <<table, lost, faults>> /\ UNCHANGED <<store, task, waiting, replies, givenUp>>
    BY DEF Enqueue, InThread, NoFault, WithQueued
  <1>2. q \in Handle /\ Told(q)
    BY <1>1, Moves DEF HoldsHandle
  <1>3. givenUp
    BY <1>1 DEF Inv, Clean, Serves
  <1>4. r \in Handle /\ r.turn = q.turn /\ q.turn \in Nat /\ Later(q, r) /\ Told(r)
    BY <1>2, QueuedTold
  <1> HIDE DEF r
  <1>5. q.turn <= r.turn
    BY <1>4
  <1> QED
    BY <1>1, <1>3, <1>4, <1>5, Prompts

\* A turn is begun, in which nothing is said yet.
LEMMA StartStep ==
    ASSUME Inv, NEW e \in Events, Start(e)
    PROVE  Inv'
  <1> DEFINE h == thread[e].handle
             q == handles[h]
             r == Opened(q, e)
  <1>1. thread[e].at = "start" /\ UNCHANGED <<table, lost>> /\ UNCHANGED <<store, task, waiting, replies, givenUp>>
    BY DEF Start, InThread
  <1>2. q \in Handle /\ Told(q) /\ h \in 1 .. Len(handles) /\ handles \in Seq(Handle)
    BY <1>1, Moves DEF HoldsHandle, Inv, Types
  <1>3. CASE q.open
    BY <1>1, <1>3, FailStep DEF Start, runtime
  <1>4. CASE ~q.open
    <2>1. /\ handles' = [handles EXCEPT ![h] = r]
          /\ thread' = [thread EXCEPT ![e].at = "join", ![e].turn = handles'[h].turn]
          /\ Prompted(e) /\ UNCHANGED faults
      BY <1>4 DEF Start, Opened
    <2>2. /\ r \in Handle /\ r.turn = q.turn + 1 /\ r.heard = {e} /\ r.queue = q.queue
          /\ Told(r) /\ Later(q, r) /\ q.turn \in Nat /\ r.text # r.turn
      BY <1>2, <1>4, OpenedFields, OpenedTold
    <2> HIDE DEF r
    <2>3. handles'[h] = r
      BY <1>2, <2>1
    <2>4. ~givenUp => q.queue = {}
      BY <1>1, <1>2, Quiet DEF Resting
    <2>5. thread' = [thread EXCEPT ![e].at = "join", ![e].turn = r.turn]
      BY <2>1, <2>3
    <2>6. r.turn \in Nat /\ r.turn > 0 /\ r.turn <= r.turn
      BY <2>2
    <2>7. ~givenUp => r.turn = r.turn /\ r.turn > 0 /\ r.heard = {e} /\ r.queue = {} /\ r.text # r.turn
      BY <2>2, <2>4, <2>6
    <2>8. r \in Handle /\ Told(r) /\ Later(q, r)
      BY <2>2
    <2> QED
      BY <1>1, <2>1, <2>5, <2>6, <2>7, <2>8, Prompts
  <1> QED
    BY <1>3, <1>4

LEMMA ThreadStep ==
    ASSUME Inv, NEW e \in Events, Thread(e)
    PROVE  Inv'
  BY LookupStep, BuildStep, NotFoundStep, CheckStep, EnqueueStep, StartStep, JoinStep, NoSnapshotStep DEF Thread

-----------------------------------------------------------------------------
\* The worker of a handle changes nothing else.
LEMMA WorkerFrame ==
    ASSUME Inv, NEW h \in 1 .. Len(handles), NEW r \in Handle, handles' = [handles EXCEPT ![h] = r], Others,
           Later(handles[h], r), Told(r),
           ~givenUp => /\ r.queue = {} /\ (r.open => handles[h].open)
                       /\ \A e \in Events : thread[e].at = "join" /\ thread[e].handle = h => Serves(e, thread[e], r)
    PROVE  Inv'
  <1>1. /\ handles' \in Seq(Handle) /\ Len(handles') = Len(handles)
        /\ \A g \in 1 .. Len(handles) : handles'[g] = IF g = h THEN r ELSE handles[g]
        /\ \A g \in 1 .. Len(handles) : Later(handles[g], handles'[g]) /\ Told(handles'[g])
    BY OneChanged
  <1>2. UNCHANGED <<store, task, waiting, thread, table, replies, prompts, givenUp, lost, faults>>
    BY DEF Others
  <1>3. Types'
    BY <1>1, <1>2 DEF Inv, Types, store, waiting
  <1>4. Line' /\ (\A k \in Keys : Counted(k)') /\ \A e \in Events : Stage(e)'
    BY <1>2 DEF Inv, Line, Counted, Accepted, Stage, waiting, store
  <1>5. ASSUME NEW e \in Events, thread[e].at \in HoldsHandle
        PROVE  Result(thread[e], handles'[thread[e].handle])
    <2>1. /\ thread[e].handle \in 1 .. Len(handles) /\ handles[thread[e].handle] \in Handle
          /\ Result(thread[e], handles[thread[e].handle])
          /\ thread[e] \in ThreadIn(Len(table), Len(handles)) /\ Len(table) \in Nat /\ Len(handles) \in Nat
      BY <1>5, Moves
    <2>2. handles'[thread[e].handle] \in Handle /\ Later(handles[thread[e].handle], handles'[thread[e].handle])
      BY <1>1, <2>1
    <2> QED
      BY <2>1, <2>2, ResultKept
  <1>6. Work'
    BY <1>1, <1>2, <1>5 DEF Work
  <1>7. ASSUME ~givenUp
        PROVE  Clean'
    <2>1. \A e \in Events : Alone(e)'
      BY <1>2, <1>7 DEF Inv, Clean, Alone, waiting
    <2>2. ASSUME NEW e \in Events
          PROVE  Serves(e, thread[e], handles'[thread[e].handle])
      <3>1. Serves(e, thread[e], handles[thread[e].handle])
        BY <1>7 DEF Inv, Clean
      <3>2. CASE thread[e].at \in {"join", "answer"}
        <4>1. /\ thread[e].handle \in 1 .. Len(handles) /\ handles[thread[e].handle] \in Handle
              /\ Result(thread[e], handles[thread[e].handle])
              /\ thread[e] \in ThreadIn(Len(table), Len(handles)) /\ Len(table) \in Nat /\ Len(handles) \in Nat
          BY <3>2, Moves DEF HoldsHandle
        <4>2. CASE thread[e].at = "answer"
          BY <1>1, <3>1, <4>1, <4>2, AnswerKept
        <4>3. CASE thread[e].at = "join"
          BY <1>1, <1>7, <3>1, <4>1, <4>3
        <4> QED
          BY <3>2, <4>2, <4>3
      <3>3. CASE thread[e].at \notin {"join", "answer"}
        BY <3>1, <3>3 DEF Serves
      <3> QED
        BY <3>2, <3>3
    <2>3. ASSUME NEW g \in 1 .. Len(handles)
          PROVE  Idle(g)'
      <3>1. Idle(g)
        BY <1>7 DEF Inv, Clean
      <3>2. handles'[g].queue = {} /\ (handles'[g].open => handles[g].open)
        BY <1>1, <1>7, <3>1 DEF Idle
      <3> QED
        BY <1>2, <3>1, <3>2 DEF Idle
    <2> QED
      BY <1>1, <1>2, <2>1, <2>2, <2>3 DEF Clean
  <1> QED
    BY <1>2, <1>3, <1>4, <1>6, <1>7 DEF Inv

\* What a worker does to its handle.
LEMMA HeardTold ==
    ASSUME NEW q \in Handle, Told(q)
    PROVE  Heard(q) \in Handle /\ Told(Heard(q)) /\ Later(q, Heard(q))
  <1> DEFINE r == Heard(q)
  <1>1. /\ r \in Handle /\ r.turn = q.turn /\ r.open = q.open /\ r.text = q.text /\ r.mute = q.mute
        /\ r.answered = q.answered /\ q.turn \in Nat
    BY DEF Handle, Heard
  <1> HIDE DEF r
  <1>2. Told(r) /\ Later(q, r)
    BY <1>1 DEF Told, Later, Over
  <1> QED
    BY <1>1, <1>2 DEF r

LEMMA LookedTold ==
    ASSUME NEW q \in Handle, Told(q)
    PROVE  /\ Looked(q) \in Handle /\ Told(Looked(q)) /\ Later(q, Looked(q))
           /\ Looked(q).open = q.open /\ Looked(q).queue = q.queue
           /\ \A e, p : Serves(e, p, q) => Serves(e, p, Looked(q))
  <1> DEFINE r == Looked(q)
  <1>1. /\ r \in Handle /\ r.turn = q.turn /\ r.open = q.open /\ r.text = q.text /\ r.mute = q.mute
        /\ r.answered = q.answered /\ q.turn \in Nat /\ r.heard = q.heard /\ r.queue = q.queue
    BY DEF Handle, Looked
  <1> HIDE DEF r
  <1>2. Told(r) /\ Later(q, r)
    BY <1>1 DEF Told, Later, Over
  <1>3. \A e, p : Serves(e, p, q) => Serves(e, p, r)
    BY <1>1 DEF Serves
  <1> QED
    BY <1>1, <1>2, <1>3 DEF r

\* A text is written for all that was heard.
LEMMA SpokenTold ==
    ASSUME NEW q \in Handle, Told(q), q.open
    PROVE  /\ Spoken(q) \in Handle /\ Told(Spoken(q)) /\ Later(q, Spoken(q))
           /\ Spoken(q).open /\ Spoken(q).queue = q.queue
           /\ \A e \in Events : \A p : p.at = "join" /\ Serves(e, p, q) => Serves(e, p, Spoken(q))
  <1> DEFINE r == Spoken(q)
  <1>1. /\ r \in Handle /\ r.turn = q.turn /\ r.open = q.open /\ r.text = q.turn /\ r.mute = q.mute
        /\ r.answered = q.answered \union q.heard /\ q.turn \in Nat /\ r.heard = q.heard /\ r.queue = q.queue
    BY DEF Handle, Spoken
  <1> HIDE DEF r
  <1>2. Told(r)
    BY <1>1 DEF Told, Over
  <1>3. Later(q, r)
    BY <1>1 DEF Later, Over
  <1>4. \A e \in Events : \A p : p.at = "join" /\ Serves(e, p, q) => Serves(e, p, r)
    BY <1>1 DEF Serves
  <1> QED
    BY <1>1, <1>2, <1>3, <1>4 DEF r

\* A turn ends, and is mute if it left no text.
LEMMA EndedTold ==
    ASSUME NEW q \in Handle, Told(q), q.open
    PROVE  /\ Ended(q) \in Handle /\ Told(Ended(q)) /\ Later(q, Ended(q))
           /\ ~Ended(q).open /\ Ended(q).queue = q.queue
           /\ \A e \in Events : \A p : p.at = "join" /\ Serves(e, p, q) => Serves(e, p, Ended(q))
  <1> DEFINE r == Ended(q)
             m == IF q.text = q.turn THEN q.mute ELSE q.mute \union {q.turn}
  <1>1. m \in SUBSET Nat /\ q.turn \in Nat /\ q.text \in Nat
    BY DEF Handle
  <1>2. r = [q EXCEPT !.open = FALSE, !.closing = FALSE, !.heard = {}, !.mute = m]
    BY DEF Ended
  <1> HIDE DEF m, r
  <1>3. /\ r \in Handle /\ r.turn = q.turn /\ ~r.open /\ r.text = q.text /\ r.mute = m
        /\ r.answered = q.answered /\ r.queue = q.queue
    BY <1>1, <1>2 DEF Handle
  <1>4. q.turn > 0 /\ q.turn \notin q.mute /\ q.text <= q.turn /\ q.mute \subseteq 1 .. q.turn
    BY DEF Told
  <1>5. \A t \in 1 .. q.turn : t \in m \/ q.text >= t
    BY <1>1, <1>4 DEF Told, Over, m
  <1>6. Told(r)
    BY <1>1, <1>3, <1>4, <1>5 DEF Told, m
  <1>7. Later(q, r)
    BY <1>1, <1>3 DEF Later, Over, m
  <1>8. \A e \in Events : \A p : p.at = "join" /\ Serves(e, p, q) => Serves(e, p, r)
    BY <1>3 DEF Serves
  <1> QED
    BY <1>3, <1>6, <1>7, <1>8 DEF r

LEMMA WorkerStep ==
    ASSUME Inv, NEW h \in DOMAIN handles, Hear(h) \/ Speak(h) \/ LastLook(h) \/ EndTurn(h)
    PROVE  Inv'
  <1> DEFINE q == handles[h]
  <1>1. h \in 1 .. Len(handles) /\ q \in Handle /\ Told(q)
    BY DEF Inv, Types, Work
  <1>2. ~givenUp => Idle(h) /\ \A e \in Events : Serves(e, thread[e], handles[thread[e].handle])
    BY <1>1 DEF Inv, Clean
  <1>3. CASE Hear(h)
    <2>1. givenUp
      BY <1>2, <1>3 DEF Idle, Hear
    <2>2. handles' = [handles EXCEPT ![h] = Heard(q)] /\ Others
      BY <1>3 DEF Hear, Heard
    <2> QED
      BY <1>1, <2>1, <2>2, HeardTold, WorkerFrame
  <1>4. CASE Speak(h)
    <2>1. handles' = [handles EXCEPT ![h] = Spoken(q)] /\ Others /\ q.open
      BY <1>4 DEF Speak, Spoken
    <2>2. /\ Spoken(q) \in Handle /\ Told(Spoken(q)) /\ Later(q, Spoken(q))
          /\ Spoken(q).open /\ Spoken(q).queue = q.queue
          /\ \A e \in Events : \A p : p.at = "join" /\ Serves(e, p, q) => Serves(e, p, Spoken(q))
      BY <1>1, <2>1, SpokenTold
    <2>3. ~givenUp => q.queue = {}
      BY <1>2 DEF Idle
    <2>4. ~givenUp => \A e \in Events : thread[e].at = "join" /\ thread[e].handle = h => Serves(e, thread[e], Spoken(q))
      BY <1>2, <2>2
    <2> QED
      BY <1>1, <2>1, <2>2, <2>3, <2>4, WorkerFrame
  <1>5. CASE LastLook(h)
    <2>1. handles' = [handles EXCEPT ![h] = Looked(q)] /\ Others
      BY <1>5 DEF LastLook, Looked
    <2>2. /\ Looked(q) \in Handle /\ Told(Looked(q)) /\ Later(q, Looked(q))
          /\ Looked(q).open = q.open /\ Looked(q).queue = q.queue
          /\ \A e, p : Serves(e, p, q) => Serves(e, p, Looked(q))
      BY <1>1, LookedTold
    <2>3. ~givenUp => q.queue = {}
      BY <1>2 DEF Idle
    <2>4. ~givenUp => \A e \in Events : thread[e].at = "join" /\ thread[e].handle = h => Serves(e, thread[e], Looked(q))
      BY <1>2, <2>2
    <2> QED
      BY <1>1, <2>1, <2>2, <2>3, <2>4, WorkerFrame
  <1>6. CASE EndTurn(h)
    <2>1. handles' = [handles EXCEPT ![h] = Ended(q)] /\ Others /\ q.open
      BY <1>6 DEF EndTurn, Ended
    <2>2. /\ Ended(q) \in Handle /\ Told(Ended(q)) /\ Later(q, Ended(q))
          /\ ~Ended(q).open /\ Ended(q).queue = q.queue
          /\ \A e \in Events : \A p : p.at = "join" /\ Serves(e, p, q) => Serves(e, p, Ended(q))
      BY <1>1, <2>1, EndedTold
    <2>3. ~givenUp => q.queue = {}
      BY <1>2 DEF Idle
    <2>4. ~givenUp => \A e \in Events : thread[e].at = "join" /\ thread[e].handle = h => Serves(e, thread[e], Ended(q))
      BY <1>2, <2>2
    <2> QED
      BY <1>1, <2>1, <2>2, <2>3, <2>4, WorkerFrame
  <1> QED
    BY <1>3, <1>4, <1>5, <1>6

-----------------------------------------------------------------------------
\* The count of a message only depends on which of its deliveries were accepted.
LEMMA SameCount ==
    ASSUME Inv, UNCHANGED store, \A e \in Events : task'[e] = "none" <=> task[e] = "none"
    PROVE  \A k \in Keys : Counted(k)'
  <1>1. \A k \in Keys : Accepted(k)' = Accepted(k)
    BY DEF Accepted
  <1> QED
    BY <1>1 DEF Inv, Counted, store

\* The queue of the lock, when no task leaves it or joins it.
LEMMA SameLine ==
    ASSUME Inv, UNCHANGED waiters, queued' = queued, \A e \in Events : task[e] = "waiting" => task'[e] = "waiting"
    PROVE  Line'
  <1>1. \A i \in 1 .. Len(waiters) : waiters[i] \in Events
    BY DEF Inv, Types
  <1> QED
    BY <1>1 DEF Inv, Line

\* The lock is free: as long as nobody gave up, all threads rest and no turn is open.
LEMMA Free ==
    ASSUME Inv, ~givenUp, lock = None
    PROVE  /\ \A e \in Events : task[e] # "run" /\ thread[e].at \in Resting
           /\ \A h \in 1 .. Len(handles) : ~handles[h].open /\ handles[h].queue = {}
  <1>1. \A e \in Events : task[e] # "run" /\ thread[e].at \in Resting
    BY NobodyAssumption DEF Inv, Clean, Alone
  <1> QED
    BY <1>1 DEF Inv, Clean, Idle, Resting

\* A delivery is handed to a thread.
LEMMA EnterStep ==
    ASSUME Inv, NEW e \in Events, lock = None, Enter(e), task[e] \in {"none", "waiting"},
           task' = [task EXCEPT ![e] = "run"], Line', \A k \in Keys : Counted(k)',
           seen' \subseteq Keys, forgotten' \in [Keys -> Nat], waiters' \in Seq(Events), queued' \in Nat,
           UNCHANGED <<runtime, replies, prompts, givenUp, lost, faults>>
    PROVE  Inv'
  <1> DEFINE q == [NoThread EXCEPT !.at = "lookup", !.session = Len(table)]
  <1>1. Len(table) \in Nat /\ Len(handles) \in Nat /\ Len(table) \in 1 .. Len(table) /\ 0 \in 0 .. Len(handles)
    BY DEF Inv, Types
  <1>2. q \in ThreadIn(Len(table), Len(handles)) /\ q.at = "lookup" /\ ~q.again
    BY <1>1 DEF ThreadIn, NoThread, Places
  <1>3. thread' = [thread EXCEPT ![e] = q] /\ lock' = e
    BY DEF Enter
  <1> HIDE DEF q
  <1>4. Types'
    BY <1>2, <1>3 DEF Inv, Types, runtime, Tasks
  <1>5. thread'[e] = q /\ \A u \in Events \ {e} : thread'[u] = thread[u]
    BY <1>3, Moves
  <1>6. task'[e] = "run" /\ \A u \in Events \ {e} : task'[u] = task[u]
    BY DEF Inv, Types
  <1>7. ASSUME NEW u \in Events
        PROVE  Stage(u)'
    <2>1. CASE u = e
      <3>1. Stage(e)
        BY DEF Inv
      <3> QED
        BY <1>2, <1>5, <1>6, <2>1, <3>1 DEF Stage, Before, HoldsHandle
    <2>2. CASE u # e
      BY <1>5, <1>6, <2>2 DEF Inv, Stage
    <2> QED
      BY <2>1, <2>2
  <1>8. Work'
    BY <1>2, <1>5 DEF Inv, Work, runtime, HoldsHandle
  <1>9. ASSUME ~givenUp
        PROVE  Clean'
    <2>1. /\ \A u \in Events : task[u] # "run" /\ thread[u].at \in Resting
          /\ \A h \in 1 .. Len(handles) : ~handles[h].open /\ handles[h].queue = {}
      BY <1>9, Free
    <2>2. \A u \in Events : Alone(u)'
      BY <1>3, <1>5, <1>6, <2>1 DEF Alone
    <2>3. ASSUME NEW u \in Events
          PROVE  Serves(u, thread'[u], handles[thread'[u].handle])
      BY <1>2, <1>5, <1>9 DEF Inv, Clean, Serves
    <2>4. \A h \in 1 .. Len(handles) : Idle(h)'
      BY <2>1 DEF Idle, runtime
    <2> QED
      BY <2>2, <2>3, <2>4 DEF Clean, runtime
  <1> QED
    BY <1>4, <1>7, <1>8, <1>9 DEF Inv

\* The lock is handed on.
LEMMA AcquireStep ==
    ASSUME Inv, Acquire
    PROVE  Inv'
  <1> DEFINE e == Head(waiters)
  <1>1. waiters \in Seq(Events) /\ waiters # <<>> /\ queued \in Nat /\ queued >= Len(waiters)
    BY DEF Inv, Types, Line, Acquire
  <1>2. /\ e \in Events /\ e = waiters[1] /\ Len(waiters) \in Nat \ {0}
        /\ Tail(waiters) \in Seq(Events) /\ Len(Tail(waiters)) = Len(waiters) - 1
        /\ \A i \in 1 .. Len(waiters) - 1 : Tail(waiters)[i] = waiters[i + 1] /\ waiters[i + 1] \in Events
    BY <1>1
  <1>3. task[e] = "waiting" /\ DOMAIN task = Events
    BY <1>2 DEF Inv, Types, Line
  <1>4. /\ lock = None /\ Enter(e) /\ waiters' = Tail(waiters) /\ task' = [task EXCEPT ![e] = "run"]
        /\ queued' = IF queued > 0 THEN queued - 1 ELSE 0
        /\ UNCHANGED <<store, runtime, replies, prompts, givenUp, lost, faults>>
    BY DEF Acquire
  <1> HIDE DEF e
  <1>5. waiters' \in Seq(Events) /\ queued' \in Nat /\ queued' >= Len(waiters')
    BY <1>1, <1>2, <1>4
  <1>6. Line'
    <2>1. /\ \A i \in 1 .. Len(waiters) : task[waiters[i]] = "waiting"
          /\ \A i, j \in 1 .. Len(waiters) : waiters[i] = waiters[j] => i = j
      BY DEF Inv, Line
    <2>2. \A i \in 1 .. Len(waiters') : waiters'[i] = waiters[i + 1] /\ i + 1 \in 1 .. Len(waiters)
      BY <1>2, <1>4
    <2>3. \A i \in 1 .. Len(waiters') : task'[waiters'[i]] = "waiting"
      <3>1. \A i \in 1 .. Len(waiters') : waiters'[i] # e
        BY <1>2, <2>1, <2>2
      <3> QED
        BY <1>2, <1>3, <1>4, <2>1, <2>2, <3>1
    <2>4. \A i, j \in 1 .. Len(waiters') : waiters'[i] = waiters'[j] => i = j
      BY <1>2, <1>4, <2>1, <2>2
    <2> QED
      BY <1>5, <2>3, <2>4 DEF Line
  <1>7. \A k \in Keys : Counted(k)'
    BY <1>3, <1>4, SameCount
  <1>8. seen' \subseteq Keys /\ forgotten' \in [Keys -> Nat]
    BY <1>4 DEF Inv, Types, store
  <1> QED
    BY <1>2, <1>3, <1>4, <1>5, <1>6, <1>7, <1>8, EnterStep

\* A step of the adapter that leaves threads and handles alone.
LEMMA Aside ==
    ASSUME Inv, UNCHANGED <<thread, runtime, prompts, lost>>, Types', Line', \A k \in Keys : Counted(k)',
           \A e \in Events : /\ task'[e] \in {"none", "waiting"} => task[e] = "none" \/ task'[e] = task[e]
                             /\ \/ replies'[e] = replies[e] /\ (task'[e] = "done" <=> task[e] = "done")
                                \/ /\ task[e] # "done" /\ task'[e] = "done"
                                   /\ \E kind \in Replies : replies'[e] = replies[e] \union {kind}
                                   /\ "answer" \in replies'[e] => thread[e].at = "answer",
           ~givenUp' => ~givenUp /\ \A e \in Events : Alone(e)'
    PROVE  Inv'
  <1>1. ASSUME NEW e \in Events
        PROVE  Stage(e)'
    BY DEF Inv, Stage
  <1>2. Work'
    BY DEF Inv, Work, runtime
  <1>3. ~givenUp' => Clean'
    BY DEF Inv, Clean, Idle, runtime
  <1> QED
    BY <1>1, <1>2, <1>3 DEF Inv

\* A task has its reply, and the lock is free.
LEMMA LeaveStep ==
    ASSUME Inv, NEW e \in Events, NEW kind \in Replies, Leave(e, kind), task[e] = "run", UNCHANGED thread,
           kind = "answer" => thread[e].at = "answer", givenUp' \in BOOLEAN,
           ~givenUp' => ~givenUp /\ thread[e].at \in Resting
    PROVE  Inv'
  <1>1. /\ task' = [task EXCEPT ![e] = "done"] /\ lock' = None
        /\ replies' = [replies EXCEPT ![e] = @ \union {kind}]
        /\ UNCHANGED <<store, waiters, queued, runtime, prompts, lost, faults>>
    BY DEF Leave
  <1>2. /\ task'[e] = "done" /\ \A u \in Events \ {e} : task'[u] = task[u]
        /\ replies'[e] = replies[e] \union {kind} /\ \A u \in Events \ {e} : replies'[u] = replies[u]
        /\ task' \in [Events -> Tasks] /\ replies' \in [Events -> SUBSET Replies]
    BY <1>1 DEF Inv, Types, Tasks
  <1>3. Types'
    BY <1>1, <1>2 DEF Inv, Types, runtime, store
  <1>4. Line' /\ \A k \in Keys : Counted(k)'
    <2>1. \A u \in Events : (task[u] = "waiting" => task'[u] = "waiting") /\ (task'[u] = "none" <=> task[u] = "none")
      BY <1>2
    <2> QED
      BY <1>1, <2>1, SameLine, SameCount
  <1>5. \A u \in Events : "answer" \in replies[u] => thread[u].at = "answer"
    BY DEF Inv, Stage
  <1>6. ~givenUp' => \A u \in Events : Alone(u)'
    <2>1. ASSUME ~givenUp', NEW u \in Events
          PROVE  Alone(u)'
      <3>1. Alone(u) /\ Alone(e) /\ thread[e].at \in Resting
        BY <2>1 DEF Inv, Clean
      <3> QED
        BY <1>1, <1>2, <3>1, NobodyAssumption DEF Alone
    <2> QED
      BY <2>1
  <1> QED
    BY <1>1, <1>2, <1>3, <1>4, <1>5, <1>6, Aside

LEMMA ReplyStep ==
    ASSUME Inv, NEW e \in Events, Reply(e)
    PROVE  Inv'
  <1>1. /\ task[e] = "run" /\ thread[e].at \in {"answer", "notice"} /\ Leave(e, thread[e].at)
        /\ UNCHANGED <<thread, givenUp>>
    BY DEF Reply
  <1>2. thread[e].at \in Replies /\ thread[e].at \in Resting /\ givenUp' \in BOOLEAN
    BY <1>1 DEF Replies, Resting, Inv, Types
  <1> QED
    BY <1>1, <1>2, LeaveStep

LEMMA TimeOutStep ==
    ASSUME Inv, NEW e \in Events, TimeOut(e)
    PROVE  Inv'
  <1>1. task[e] = "run" /\ Leave(e, "timeout") /\ givenUp' = TRUE /\ UNCHANGED thread
    BY DEF TimeOut
  <1>2. "timeout" \in Replies
    BY DEF Replies
  <1> QED
    BY <1>1, <1>2, LeaveStep

\* The queue was full.
LEMMA SendFullStep ==
    ASSUME Inv, NEW e \in Events, SendFull(e)
    PROVE  Inv'
  <1>1. /\ task[e] = "full" /\ task' = [task EXCEPT ![e] = "done"]
        /\ replies' = [replies EXCEPT ![e] = @ \union {"full"}]
        /\ UNCHANGED <<store, waiting, thread, runtime, prompts, givenUp, lost, faults>>
    BY DEF SendFull
  <1>2. /\ task'[e] = "done" /\ \A u \in Events \ {e} : task'[u] = task[u]
        /\ replies'[e] = replies[e] \union {"full"} /\ \A u \in Events \ {e} : replies'[u] = replies[u]
        /\ task' \in [Events -> Tasks] /\ replies' \in [Events -> SUBSET Replies] /\ "full" \in Replies
    BY <1>1 DEF Inv, Types, Tasks, Replies
  <1>3. Types'
    BY <1>1, <1>2 DEF Inv, Types, runtime, store, waiting
  <1>4. Line' /\ \A k \in Keys : Counted(k)'
    <2>1. \A u \in Events : (task[u] = "waiting" => task'[u] = "waiting") /\ (task'[u] = "none" <=> task[u] = "none")
      BY <1>1, <1>2
    <2> QED
      BY <1>1, <2>1, SameLine, SameCount DEF waiting
  <1>5. \A u \in Events : "answer" \in replies[u] => thread[u].at = "answer"
    BY DEF Inv, Stage
  <1>6. ~givenUp' => ~givenUp /\ \A u \in Events : Alone(u)'
    BY <1>1, <1>2 DEF Inv, Clean, Alone, waiting
  <1> QED
    BY <1>1, <1>2, <1>3, <1>4, <1>5, <1>6, Aside

\* The bot is stopped by force: what was not settled is dropped.
LEMMA ForceStopStep ==
    ASSUME Inv, ForceStop
    PROVE  Inv'
  <1>1. /\ task' = [e \in Events |-> IF Live(e) THEN "cancelled" ELSE task[e]]
        /\ givenUp' = (givenUp \/ lock # None) /\ lock' = None /\ waiters' = <<>>
        /\ UNCHANGED <<store, queued, thread, runtime, replies, prompts, lost>>
        /\ faults < MaxFaults /\ faults' = faults + 1
    BY DEF ForceStop
  <1>2. /\ task' \in [Events -> Tasks]
        /\ \A e \in Events : /\ task'[e] \notin {"full", "waiting", "run"}
                             /\ task'[e] \in {"none", "waiting"} => task'[e] = task[e]
                             /\ (task'[e] = "done" <=> task[e] = "done") /\ (task'[e] = "none" <=> task[e] = "none")
    BY <1>1 DEF Inv, Types, Tasks, Live
  <1>3. faults' \in 0 .. MaxFaults /\ givenUp' \in BOOLEAN
    BY <1>1, BoundsAssumption DEF Inv, Types
  <1>4. Types'
    BY <1>1, <1>2, <1>3 DEF Inv, Types, runtime, store
  <1>5. Line'
    BY <1>1 DEF Inv, Types, Line
  <1>6. \A k \in Keys : Counted(k)'
    BY <1>1, <1>2, SameCount
  <1>7. ~givenUp' => ~givenUp /\ \A e \in Events : Alone(e)'
    <2>1. ASSUME ~givenUp', NEW e \in Events
          PROVE  ~givenUp /\ Alone(e)'
      <3>1. ~givenUp /\ lock = None
        BY <1>1, <2>1
      <3>2. thread[e].at \in Resting
        BY <3>1, Free
      <3> QED
        BY <1>1, <1>2, <3>1, <3>2, NobodyAssumption DEF Alone
    <2> QED
      BY <1>1, <2>1
  <1> QED
    BY <1>1, <1>2, <1>4, <1>5, <1>6, <1>7, Aside

\* The session is gone: the delivery starts over in a new one.
LEMMA ReplaceStep ==
    ASSUME Inv, NEW e \in Events, Replace(e)
    PROVE  Inv'
  <1> DEFINE n == Len(handles')
             s == Len(table')
             q == [NoThread EXCEPT !.at = "lookup", !.session = s, !.again = TRUE]
  <1>1. /\ task[e] = "run" /\ thread[e].at = "missing"
        /\ handles' = Append(handles, NewHandle) /\ table' = Append(table, n) /\ thread' = [thread EXCEPT ![e] = q]
        /\ UNCHANGED <<store, task, waiting, replies, prompts, givenUp, lost, faults>>
    BY DEF Replace
  <1>2. n = Len(handles) + 1 /\ Len(handles) \in Nat /\ handles' \in Seq(Handle)
    BY <1>1, OneAdded
  <1>3. table \in Seq(Nat) /\ \A i \in 1 .. Len(table) : table[i] \in 0 .. Len(handles)
    BY DEF Inv, Types
  <1> HIDE DEF n
  <1>4. /\ s = Len(table) + 1 /\ table' \in Seq(Nat) /\ Len(table) \in Nat
        /\ \A i \in 1 .. s : table'[i] = IF i = s THEN n ELSE table[i]
    BY <1>1, <1>2, <1>3
  <1> HIDE DEF s
  <1>5. \A i \in 1 .. s : table'[i] \in 0 .. n
    <2>1. ASSUME NEW i \in 1 .. s
          PROVE  table'[i] \in 0 .. n
      <3>1. i = s \/ i \in 1 .. Len(table)
        BY <1>4
      <3> QED
        BY <1>2, <1>3, <1>4, <3>1
    <2> QED
      BY <2>1
  <1>6. q \in ThreadIn(s, n) /\ q.at = "lookup" /\ q.again
    <2>1. s \in 1 .. s /\ 0 \in 0 .. n /\ 1 \in 1 .. s
      BY <1>2, <1>4
    <2> QED
      BY <2>1 DEF ThreadIn, NoThread, Places
  <1> HIDE DEF q
  <1>7. thread'[e] = q /\ \A u \in Events \ {e} : thread'[u] = thread[u] /\ thread'[u] \in ThreadIn(s, n)
    BY <1>1, <1>2, <1>4, Moves DEF ThreadIn
  <1>8. thread' \in [Events -> ThreadIn(s, n)]
    BY <1>1, <1>6, <1>7, Moves
  <1>9. Types'
    BY <1>1, <1>2, <1>4, <1>5, <1>8 DEF Inv, Types, store, waiting, n, s
  <1>10. Stage(e)'
    <2>1. Stage(e) /\ thread[e].at = "missing"
      BY <1>1, Moves
    <2> QED
      BY <1>1, <1>6, <1>7, <2>1 DEF Stage, Before, HoldsHandle
  <1>11. ~givenUp => \A h \in 1 .. Len(handles') : Idle(h)'
    BY <1>1, Quiet, OneAdded DEF Resting
  <1>12. /\ Len(handles) <= Len(handles') /\ \A h \in 1 .. Len(handles) : Later(handles[h], handles'[h])
         /\ \A h \in 1 .. Len(handles') : Told(handles'[h])
    BY <1>1, <1>2, OneAdded DEF n
  <1>13. /\ thread'[e].at \notin HoldsHandle /\ Serves(e, thread'[e], handles'[thread'[e].handle])
         /\ thread[e].at \notin Resting /\ lost \subseteq lost'
    BY <1>1, <1>6, <1>7 DEF Resting, Serves, HoldsHandle
  <1>14. \A u \in Events \ {e} : thread'[u] = thread[u] /\ prompts'[u] = prompts[u]
    BY <1>1, <1>7
  <1>15. UNCHANGED <<store, task, waiting, replies, givenUp>>
    BY <1>1
  <1> QED
    BY <1>9, <1>10, <1>11, <1>12, <1>13, <1>14, <1>15, ThreadFrame

\* The store loses keys, and says how often it lost each.
LEMMA ForgetStep ==
    ASSUME Inv, Forget
    PROVE  Inv'
  <1>1. PICK K \in SUBSET seen \ {{}} :
           /\ seen' = seen \ K
           /\ forgotten' = [k \in Keys |-> IF k \in K THEN forgotten[k] + 1 ELSE forgotten[k]]
    BY DEF Forget
  <1>2. /\ UNCHANGED <<task, waiting, thread, runtime, replies, prompts, givenUp, lost>>
        /\ faults < MaxFaults /\ faults' = faults + 1
    BY DEF Forget
  <1>3. Types'
    BY <1>1, <1>2, BoundsAssumption DEF Inv, Types, runtime, waiting
  <1>4. ASSUME NEW k \in Keys
        PROVE  Counted(k)'
    <2>1. Counted(k) /\ forgotten[k] \in Nat /\ Accepted(k)' = Accepted(k)
      BY <1>2 DEF Inv, Types, Accepted
    <2>2. Cardinality(Accepted(k)) \in Nat
      <3>1. IsFiniteSet(Accepted(k))
        BY BoundsAssumption, FS_Subset DEF Accepted
      <3> QED
        BY <3>1, FS_CardinalityType
    <2> QED
      BY <1>1, <2>1, <2>2 DEF Counted
  <1>5. Line' /\ (~givenUp' => ~givenUp /\ \A e \in Events : Alone(e)')
    BY <1>2, SameLine DEF Inv, Clean, Alone, waiting
  <1> QED
    BY <1>2, <1>3, <1>4, <1>5, Aside

\* A delivery that is accepted counts for its message, which is marked now.
LEMMA OneMore ==
    ASSUME Inv, NEW e \in Events, ~Duplicate(e), task[e] = "none", NEW state \in Tasks, state # "none",
           task' = [task EXCEPT ![e] = state], seen' = seen \union {Key[e]}, UNCHANGED forgotten
    PROVE  \A k \in Keys : Counted(k)'
  <1>1. task'[e] # "none" /\ \A u \in Events \ {e} : task'[u] = task[u]
    BY DEF Inv, Types
  <1>2. ASSUME NEW k \in Keys
        PROVE  Counted(k)'
    <2>1. Counted(k) /\ forgotten[k] \in Nat
      BY DEF Inv, Types
    <2>2. IsFiniteSet(Accepted(k))
      BY BoundsAssumption, FS_Subset DEF Accepted
    <2>3. Cardinality(Accepted(k)) \in Nat
      BY <2>2, FS_CardinalityType
    <2>4. CASE k = Key[e]
      <3>1. Accepted(k)' = Accepted(k) \union {e} /\ e \notin Accepted(k)
        BY <1>1, <2>4 DEF Accepted
      <3>2. Cardinality(Accepted(k)') = Cardinality(Accepted(k)) + 1
        BY <2>2, <3>1, FS_AddElement
      <3> QED
        BY <2>1, <2>3, <2>4, <3>2 DEF Counted, Duplicate
    <2>5. CASE k # Key[e]
      <3>1. Accepted(k)' = Accepted(k) /\ (k \in seen' <=> k \in seen)
        BY <1>1, <2>5 DEF Accepted
      <3> QED
        BY <2>1, <3>1 DEF Counted
    <2> QED
      BY <2>4, <2>5
  <1> QED
    BY <1>2

\* handle_payload: dropped, turned away, handed on at once, or queued.
LEMMA DeliverStep ==
    ASSUME Inv, NEW e \in Events, Deliver(e)
    PROVE  Inv'
  <1>1. /\ seen' = seen \union {Key[e]} /\ UNCHANGED <<forgotten, runtime, replies, prompts, givenUp, lost, faults>>
    BY DEF Deliver
  <1>2. seen' \subseteq Keys /\ forgotten' \in [Keys -> Nat]
    BY <1>1, BoundsAssumption DEF Inv, Types
  <1>3. CASE UNCHANGED <<task, waiting, thread>>
    <2>1. Types'
      BY <1>1, <1>2, <1>3 DEF Inv, Types, runtime, waiting
    <2>2. ASSUME NEW k \in Keys
          PROVE  Counted(k)'
      <3>1. Counted(k) /\ forgotten[k] \in Nat /\ Accepted(k)' = Accepted(k)
        BY <1>3 DEF Inv, Types, Accepted
      <3>2. Cardinality(Accepted(k)) \in Nat
        <4>1. IsFiniteSet(Accepted(k))
          BY BoundsAssumption, FS_Subset DEF Accepted
        <4> QED
          BY <4>1, FS_CardinalityType
      <3> QED
        BY <1>1, <3>1, <3>2 DEF Counted
    <2>3. Line' /\ (~givenUp' => ~givenUp /\ \A u \in Events : Alone(u)')
      BY <1>1, <1>3, SameLine DEF Inv, Clean, Alone, waiting
    <2> QED
      BY <1>1, <1>3, <2>1, <2>2, <2>3, Aside
  <1>4. CASE ~UNCHANGED <<task, waiting, thread>>
    <2>1. ~Duplicate(e) /\ task[e] = "none"
      BY <1>4 DEF Deliver
    <2>2. CASE task' = [task EXCEPT ![e] = "full"] /\ UNCHANGED <<waiting, thread>>
      <3>1. /\ task'[e] = "full" /\ \A u \in Events \ {e} : task'[u] = task[u]
            /\ task' \in [Events -> Tasks] /\ "full" \in Tasks
        BY <2>2 DEF Inv, Types, Tasks
      <3>2. Types'
        BY <1>1, <1>2, <2>2, <3>1 DEF Inv, Types, runtime, waiting
      <3>3. \A k \in Keys : Counted(k)'
        BY <1>1, <2>1, <2>2, <3>1, OneMore
      <3>4. Line'
        BY <2>1, <2>2, <3>1, SameLine DEF waiting
      <3>5. ~givenUp' => ~givenUp /\ \A u \in Events : Alone(u)'
        BY <1>1, <2>1, <2>2, <3>1 DEF Inv, Clean, Alone, waiting
      <3> QED
        BY <1>1, <2>1, <2>2, <3>1, <3>2, <3>3, <3>4, <3>5, Aside
    <2>3. CASE /\ lock = None /\ Enter(e) /\ task' = [task EXCEPT ![e] = "run"]
               /\ UNCHANGED <<waiters, queued>>
      <3>1. \A k \in Keys : Counted(k)'
        BY <1>1, <2>1, <2>3, OneMore DEF Tasks
      <3>2. Line' /\ waiters' \in Seq(Events) /\ queued' \in Nat
        BY <2>1, <2>3, SameLine DEF Inv, Types
      <3> QED
        BY <1>1, <1>2, <2>1, <2>3, <3>1, <3>2, EnterStep
    <2>4. CASE /\ task' = [task EXCEPT ![e] = "waiting"]
               /\ waiters' = Append(waiters, e) /\ queued' = queued + 1 /\ UNCHANGED <<lock, thread>>
      <3>1. /\ task'[e] = "waiting" /\ \A u \in Events \ {e} : task'[u] = task[u]
            /\ task' \in [Events -> Tasks] /\ "waiting" \in Tasks
        BY <2>4 DEF Inv, Types, Tasks
      <3>2. /\ waiters \in Seq(Events) /\ queued \in Nat
            /\ \A i \in 1 .. Len(waiters) : waiters[i] \in Events
        BY DEF Inv, Types
      <3>3. /\ waiters' \in Seq(Events) /\ Len(waiters') = Len(waiters) + 1 /\ Len(waiters) \in Nat
            /\ \A i \in 1 .. Len(waiters') : waiters'[i] = IF i \in 1 .. Len(waiters) THEN waiters[i] ELSE e
            /\ \A i \in 1 .. Len(waiters') : i \in 1 .. Len(waiters) \/ i = Len(waiters')
        BY <2>4, <3>2
      <3>4. Types'
        BY <1>1, <1>2, <2>4, <3>1, <3>2, <3>3 DEF Inv, Types, runtime
      <3>5. \A k \in Keys : Counted(k)'
        BY <1>1, <2>1, <2>4, <3>1, OneMore
      <3>6. Line'
        <4>1. /\ queued >= Len(waiters) /\ \A i \in 1 .. Len(waiters) : task[waiters[i]] = "waiting"
              /\ \A i, j \in 1 .. Len(waiters) : waiters[i] = waiters[j] => i = j
          BY DEF Inv, Line
        <4>2. \A i \in 1 .. Len(waiters) : waiters[i] # e
          BY <2>1, <4>1
        <4>3. \A i, j \in 1 .. Len(waiters') : waiters'[i] = waiters'[j] => i = j
          BY <3>3, <4>1, <4>2
        <4>4. \A i \in 1 .. Len(waiters') : task'[waiters'[i]] = "waiting"
          BY <3>1, <3>2, <3>3, <4>1, <4>2
        <4>5. queued' >= Len(waiters')
          BY <2>4, <3>2, <3>3, <4>1
        <4> QED
          BY <4>3, <4>4, <4>5 DEF Line
      <3>7. \A u \in Events : Stage(u)'
        BY <1>1, <2>1, <2>4, <3>1 DEF Inv, Stage
      <3>8. Work' /\ (~givenUp' => Clean')
        <4>1. Work'
          BY <1>1, <2>4 DEF Inv, Work, runtime
        <4>2. ~givenUp' => \A u \in Events : Alone(u)'
          BY <1>1, <2>1, <2>4, <3>1 DEF Inv, Clean, Alone
        <4> QED
          BY <1>1, <2>4, <4>1, <4>2 DEF Inv, Clean, Idle, runtime
      <3> QED
        BY <3>4, <3>5, <3>6, <3>7, <3>8 DEF Inv
    <2> QED
      BY <1>4, <2>2, <2>3, <2>4 DEF Deliver
  <1> QED
    BY <1>3, <1>4

-----------------------------------------------------------------------------
LEMMA InitHolds == Init => Inv
  <1> SUFFICES ASSUME Init
               PROVE  Inv
    OBVIOUS
  <1>1. NewHandle \in Handle /\ Told(NewHandle) /\ ~NewHandle.open /\ NewHandle.queue = {}
    BY DEF NewHandle, Handle, Told, Over
  <1>2. /\ handles \in Seq(Handle) /\ table \in Seq(Nat) /\ Len(table) = 1 /\ Len(handles) \in Nat
        /\ \A s \in 1 .. Len(table) : table[s] \in 0 .. Len(handles)
        /\ \A h \in 1 .. Len(handles) : handles[h] = NewHandle
    <2>1. CASE table = <<0>> /\ handles = <<>>
      BY <2>1
    <2>2. CASE table = <<1>> /\ handles = <<NewHandle>>
      <3> HIDE DEF NewHandle
      <3>1. handles \in Seq(Handle) /\ Len(handles) = 1 /\ handles[1] = NewHandle
        BY <1>1, <2>2
      <3>2. table \in Seq(Nat) /\ Len(table) = 1 /\ table[1] = 1
        BY <2>2
      <3> QED
        BY <3>1, <3>2
    <2> QED
      BY <2>1, <2>2 DEF Init
  <1>3. NoThread \in ThreadIn(Len(table), Len(handles)) /\ NoThread.at = "none"
    BY <1>2 DEF ThreadIn, NoThread, Places
  <1>4. thread = [e \in Events |-> NoThread] /\ \A e \in Events : thread[e] = NoThread
    BY DEF Init
  <1>5. Types
    <2>1. thread \in [Events -> ThreadIn(Len(table), Len(handles))]
      BY <1>3, <1>4
    <2>2. waiters \in Seq(Events) /\ queued \in Nat /\ lock \in Events \union {None}
      BY DEF Init
    <2>3. /\ forgotten \in [Keys -> Nat] /\ prompts \in [Events -> Nat] /\ task \in [Events -> Tasks]
          /\ replies \in [Events -> SUBSET Replies] /\ seen \subseteq Keys /\ lost \subseteq Events
          /\ givenUp \in BOOLEAN /\ faults \in 0 .. MaxFaults
      <3>1. /\ seen = {} /\ forgotten = [k \in Keys |-> 0] /\ task = [e \in Events |-> "none"]
            /\ replies = [e \in Events |-> {}] /\ prompts = [e \in Events |-> 0]
            /\ givenUp = FALSE /\ lost = {} /\ faults = 0
        BY DEF Init
      <3>2. 0 \in 0 .. MaxFaults /\ "none" \in Tasks /\ 0 \in Nat
        BY BoundsAssumption DEF Tasks
      <3> QED
        BY <3>1, <3>2
    <2> QED
      BY <1>2, <2>1, <2>2, <2>3 DEF Types
  <1>6. Line
    BY DEF Init, Line
  <1>7. \A e \in Events : Stage(e)
    BY <1>3, <1>4 DEF Init, Stage, Before, HoldsHandle
  <1>8. ASSUME NEW k \in Keys
        PROVE  Counted(k)
    <2>1. Accepted(k) = {} /\ forgotten[k] = 0 /\ k \notin seen
      BY DEF Init, Accepted
    <2> QED
      BY <2>1, FS_EmptySet DEF Counted
  <1>9. Work
    BY <1>1, <1>2, <1>3, <1>4 DEF Work, HoldsHandle
  <1>10. Clean
    <2>1. \A e \in Events : Alone(e) /\ Serves(e, thread[e], handles[thread[e].handle])
      BY <1>3, <1>4, NobodyAssumption DEF Init, Alone, Serves, Resting
    <2>2. \A h \in 1 .. Len(handles) : Idle(h)
      BY <1>1, <1>2 DEF Idle
    <2> QED
      BY <2>1, <2>2 DEF Clean
  <1> QED
    BY <1>5, <1>6, <1>7, <1>8, <1>9, <1>10 DEF Inv

LEMMA StepHolds == Inv /\ [Next]_vars => Inv'
  <1> SUFFICES ASSUME Inv, [Next]_vars
               PROVE  Inv'
    OBVIOUS
  <1>1. CASE UNCHANGED vars
    <2>1. UNCHANGED <<seen, forgotten, task, lock, waiters, queued, thread, table, handles, replies, prompts, givenUp, lost, faults>>
      BY <1>1 DEF vars, store, waiting, runtime
    <2>2. Types'
      BY <2>1 DEF Inv, Types
    <2>3. Line' /\ (\A k \in Keys : Counted(k)') /\ (\A e \in Events : Stage(e)') /\ Work'
      BY <2>1 DEF Inv, Line, Counted, Accepted, Stage, Work
    <2>4. ~givenUp' => Clean'
      BY <2>1 DEF Inv, Clean, Alone, Idle
    <2> QED
      BY <2>2, <2>3, <2>4 DEF Inv
  <1>2. CASE Adapter
    BY <1>2, AcquireStep, ReplyStep, TimeOutStep, ReplaceStep, SendFullStep DEF Adapter
  <1>3. CASE Threads
    BY <1>3, ThreadStep DEF Threads
  <1>4. CASE Workers
    BY <1>4, WorkerStep DEF Workers
  <1>5. CASE Forget \/ ForceStop \/ \E e \in Events : Deliver(e)
    BY <1>5, ForgetStep, ForceStopStep, DeliverStep
  <1> QED
    BY <1>1, <1>2, <1>3, <1>4, <1>5 DEF Next

-----------------------------------------------------------------------------
\* The invariant is what is promised of deliveries.
LEMMA Promised == Inv => OncePerEvent
  <1> SUFFICES ASSUME Inv
               PROVE  OncePerEvent
    OBVIOUS
  <1>1. ASSUME NEW k \in Keys
        PROVE  Cardinality({e \in Events : Key[e] = k /\ Handled(e)}) <= 1 + forgotten[k]
    <2> DEFINE S == {e \in Events : Key[e] = k /\ Handled(e)}
    <2>1. \A e \in Events : Handled(e) => task[e] # "none"
      BY DEF Inv, Types, Stage, Handled
    <2>2. S \subseteq Accepted(k) /\ IsFiniteSet(Accepted(k))
      BY <2>1, BoundsAssumption, FS_Subset DEF Accepted
    <2>3. /\ Cardinality(S) <= Cardinality(Accepted(k))
          /\ Cardinality(S) \in Nat /\ Cardinality(Accepted(k)) \in Nat
      BY <2>2, FS_Subset, FS_CardinalityType
    <2>4. Counted(k) /\ forgotten[k] \in Nat
      BY DEF Inv, Types
    <2> HIDE DEF S
    <2>5. Cardinality(S) <= 1 + forgotten[k]
      BY <2>3, <2>4 DEF Counted
    <2> QED
      BY <2>5 DEF S
  <1>2. ASSUME NEW e \in Events
        PROVE  /\ Cardinality(replies[e]) <= 1
               /\ prompts[e] <= 1 \/ (prompts[e] = 2 /\ e \in lost)
    <2>1. Stage(e) /\ prompts[e] \in Nat
      BY DEF Inv, Types
    <2>2. Cardinality(replies[e]) <= 1
      <3>1. CASE replies[e] = {}
        BY <3>1, FS_EmptySet
      <3>2. ASSUME NEW kind, replies[e] = {kind}
            PROVE  Cardinality(replies[e]) <= 1
        <4>1. Cardinality({kind}) = 1
          BY FS_Singleton
        <4> QED
          BY <3>2, <4>1
      <3> QED
        BY <2>1, <3>1, <3>2 DEF Stage
    <2> QED
      BY <2>1, <2>2 DEF Stage
  <1> QED
    BY <1>1, <1>2 DEF Inv, Line, OncePerEvent

\* For any number of messages and deliveries, any bound of the queue, and any number of
\* forced stops, timeouts, lost keys and vanished files: a message is handled for one
\* delivery and for one more each time that its key was lost; a delivery has at most one
\* reply, and a second prompt only when its session could not be shown after the first;
\* the count of waiting messages is never below their number (QQEventDedupeStore,
\* handle_payload, _handle_message).
THEOREM Once == Spec => []OncePerEvent
  BY InitHolds, StepHolds, Promised, PTL DEF Spec

-----------------------------------------------------------------------------
LEMMA Typed == Inv => TypeOK
  <1> SUFFICES ASSUME Inv
               PROVE  TypeOK
    OBVIOUS
  <1>1. Types /\ DOMAIN handles = 1 .. Len(handles) /\ \A h \in 1 .. Len(handles) : handles[h] \in Handle
    BY DEF Inv, Types
  <1>2. table \in Seq(0 .. Len(handles))
    <2> DEFINE S == 0 .. Len(handles)
    <2>1. table \in Seq(Nat) /\ \A s \in 1 .. Len(table) : table[s] \in S
      BY <1>1 DEF Types
    <2> HIDE DEF S
    <2>2. table \in [1 .. Len(table) -> S] /\ Len(table) \in Nat
      BY <2>1
    <2>3. table \in Seq(S)
      BY <2>2, SeqDef
    <2> QED
      BY <2>3 DEF S
  <1>3. thread \in [Events -> [at : Places, session : 1 .. Len(table), handle : 0 .. Len(handles), turn : Nat,
                               text : Nat, again : BOOLEAN]]
    BY <1>1 DEF Types, ThreadIn
  <1> QED
    BY <1>1, <1>2, <1>3 DEF Types, TypeOK, Handle, Tasks, Replies

\* As long as nobody gave up, at most one turn is open: that of the one thread that waits.
LEMMA OneTurn ==
    ASSUME Inv, ~givenUp
    PROVE  Cardinality({h \in DOMAIN handles : handles[h].open}) <= 1
  <1> DEFINE S == {h \in DOMAIN handles : handles[h].open}
  <1>1. DOMAIN handles = 1 .. Len(handles)
    BY DEF Inv, Types
  <1>2. CASE S = {}
    BY <1>2, FS_EmptySet
  <1>3. CASE S # {}
    <2>1. PICK h \in S : TRUE
      BY <1>3
    <2>2. PICK e \in Events : thread[e].at = "join" /\ thread[e].handle = h
      BY <1>1, <2>1 DEF Inv, Clean, Idle
    <2>3. ASSUME NEW g \in S
          PROVE  g = h
      <3>1. PICK u \in Events : thread[u].at = "join" /\ thread[u].handle = g
        BY <1>1 DEF Inv, Clean, Idle
      <3> QED
        BY <2>2, <3>1, Sole DEF Resting
    <2>4. S = {h}
      BY <2>1, <2>3
    <2> QED
      BY <2>4, FS_Singleton
  <1> QED
    BY <1>2, <1>3

\* The invariant is what is promised of answers.
LEMMA Heeded == Inv => AnswersTheMessage
  <1> SUFFICES ASSUME Inv
               PROVE  AnswersTheMessage
    OBVIOUS
  <1>1. ASSUME NEW e \in Events, "answer" \in replies[e]
        PROVE  /\ thread[e].text >= thread[e].turn \/ Mute(e)
               /\ ~givenUp => \/ thread[e].text = thread[e].turn /\ e \in handles[thread[e].handle].answered
                              \/ thread[e].text < thread[e].turn /\ Mute(e)
    <2>1. thread[e].at = "answer"
      BY <1>1 DEF Inv, Stage
    <2>2. Result(thread[e], handles[thread[e].handle])
      BY <2>1 DEF Inv, Work, HoldsHandle
    <2>3. ~givenUp => Serves(e, thread[e], handles[thread[e].handle])
      BY DEF Inv, Clean
    <2> QED
      BY <2>1, <2>2, <2>3 DEF Result, Serves, Mute
  <1>2. ~givenUp => \A h \in DOMAIN handles : handles[h].queue = {}
    <2>1. DOMAIN handles = 1 .. Len(handles)
      BY DEF Inv, Types
    <2> QED
      BY <2>1 DEF Inv, Clean, Idle
  <1> QED
    BY <1>1, <1>2, Typed, OneTurn DEF AnswersTheMessage

\* For any number of messages, deliveries, forced stops, timeouts, lost keys and vanished
\* files: the text that answers a message is never older than its turn, unless that turn
\* left none; and as long as no run was given up, it is the text of a turn that heard the
\* message, no two turns of the conversation are open at once and nothing is left queued
\* behind one.  It is the lock of the conversation, held from the reply of one message to
\* the start of the next, that keeps the threads apart (_conversation_locks, run_and_wait,
\* extract_reply_text).
THEOREM Answers == Spec => []AnswersTheMessage
  BY InitHolds, StepHolds, Heeded, PTL DEF Spec

=============================================================================
