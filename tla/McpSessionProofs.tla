-------------------------- MODULE McpSessionProofs --------------------------
(***************************************************************************)
(* For any number of uses and processes, and however the server speaks:    *)
(* a use returns the server's answer to its own request, and no process is *)
(* forgotten.                                                              *)
(*                                                                         *)
(* The request ids start over with every process, and what an earlier      *)
(* process wrote is still delivered, so an id alone does not tell whose    *)
(* answer a message is.  Flight says what does: what is on its way is      *)
(* either about the only request of a trial, number one, or it is as far   *)
(* from its id as the requests of the present process are from theirs.     *)
(* Stage says that no trial gets beyond number one and that every use is   *)
(* behind it.                                                              *)
(***************************************************************************)
EXTENDS McpSession, SequenceTheorems, TLAPS

\* A dialect is being tried.
Trying == request.kind = "initialize" /\ pc \in {"write", "blocked", "wait", "restart"}

\* How far the serial numbers are ahead of the ids of the present process.
Ahead == request.serial - nextId - (IF pc \in {"write", "blocked"} THEN 1 ELSE 0)

Fits(m) == m.id = 1 \/ (~Trying /\ m.serial = m.id + Ahead)

FitsNext(m) == m.id = 1 \/ (~Trying' /\ m.serial = m.id + Ahead')

Stage ==
    /\ pc # "idle" \/ session => process # 0
    /\ pc = "idle" /\ ~session => process = 0
    /\ Trying => ~session /\ nextId = IF pc \in {"write", "blocked"} THEN 0 ELSE 1
    /\ Trying => request.mode # "none"
    /\ pc = "restart" => Trying
    /\ pc = "wait" => request.id = nextId
    /\ pc \in {"write", "blocked", "wait", "stop"} /\ ~Trying => session
    /\ session => nextId >= IF pc = "wait" THEN 2 ELSE 1

Flight ==
    /\ \A i \in 1 .. Len(queue) : Fits(queue[i])
    /\ \A p \in 1 .. Len(procs) : procs[p].mine =>
          /\ \A i \in 1 .. Len(procs[p].inbox) : Fits(procs[p].inbox[i])
          /\ \A i \in 1 .. Len(procs[p].pipe) : Fits(procs[p].pipe[i])

Forgotten(p) == procs[p].alive /\ p # process /\ ~procs[p].left

IInv == TypeOK /\ Stage /\ Flight /\ \A p \in 1 .. Len(procs) : ~Forgotten(p)

-----------------------------------------------------------------------------
\* One process changes.
LEMMA OneProcess ==
    ASSUME procs \in Seq(Processes), NEW p \in 1 .. Len(procs), NEW q \in Processes,
           procs' = [procs EXCEPT ![p] = q]
    PROVE  /\ procs' \in Seq(Processes) /\ Len(procs') = Len(procs) /\ Len(procs) \in Nat
           /\ \A k \in 1 .. Len(procs) : procs'[k] = IF k = p THEN q ELSE procs[k]
  BY ExceptSeq, LenProperties

\* Every process changes.
LEMMA EveryProcess ==
    ASSUME NEW n \in Nat, NEW f \in [1 .. n -> Processes]
    PROVE  f \in Seq(Processes) /\ Len(f) = n
  <1>1. f \in Seq(Processes)
    BY SeqDef
  <1>2. DOMAIN f = 1 .. Len(f) /\ Len(f) \in Nat
    BY <1>1, LenProperties
  <1> QED
    BY <1>1, <1>2

\* A process is added.
LEMMA OneMore ==
    ASSUME NEW ps \in Seq(Processes)
    PROVE  /\ Append(ps, Fresh) \in Seq(Processes) /\ Len(Append(ps, Fresh)) = Len(ps) + 1 /\ Len(ps) \in Nat
           /\ \A k \in 1 .. Len(ps) : Append(ps, Fresh)[k] = ps[k]
           /\ Append(ps, Fresh)[Len(ps) + 1] = Fresh
  <1>1. Fresh \in Processes
    BY EmptySeq DEF Fresh, Processes
  <1> QED
    BY <1>1, AppendProperties, LenProperties

\* _stop_process: the process dies and what it had not read is gone.
LEMMA StoppedOnes ==
    ASSUME procs \in Seq(Processes)
    PROVE  /\ Stopped(procs) \in Seq(Processes) /\ Len(Stopped(procs)) = Len(procs) /\ Len(procs) \in Nat
           /\ \A k \in 1 .. Len(procs) :
                 /\ k # process => Stopped(procs)[k] = procs[k]
                 /\ k = process => ~Stopped(procs)[k].alive /\ Stopped(procs)[k].inbox = <<>>
                 /\ Stopped(procs)[k].mine = procs[k].mine /\ Stopped(procs)[k].left = procs[k].left
                 /\ Stopped(procs)[k].pipe = procs[k].pipe
  <1>1. Len(procs) \in Nat /\ DOMAIN procs = 1 .. Len(procs)
    BY LenProperties
  <1>2. \A k \in 1 .. Len(procs) : procs[k] \in Processes
    BY ElementOfSeq
  <1> DEFINE f == [k \in 1 .. Len(procs) |-> IF k = process THEN [procs[k] EXCEPT !.alive = FALSE, !.inbox = <<>>]
                                             ELSE procs[k]]
  <1>3. Stopped(procs) = f
    BY <1>1 DEF Stopped
  <1>4. ASSUME NEW k \in 1 .. Len(procs)
        PROVE  /\ f[k] \in Processes
               /\ k # process => f[k] = procs[k]
               /\ k = process => ~f[k].alive /\ f[k].inbox = <<>>
               /\ f[k].mine = procs[k].mine /\ f[k].left = procs[k].left /\ f[k].pipe = procs[k].pipe
    <2> DEFINE r == procs[k]
               q == [r EXCEPT !.alive = FALSE, !.inbox = <<>>]
    <2>1. r \in Processes /\ <<>> \in Seq(Requests)
      BY <1>2, EmptySeq
    <2> HIDE DEF r
    <2>2. /\ q \in Processes /\ ~q.alive /\ q.inbox = <<>> /\ q.mine = r.mine /\ q.left = r.left
          /\ q.pipe = r.pipe
      BY <2>1 DEF Processes
    <2>3. f[k] = IF k = process THEN q ELSE r
      BY DEF r
    <2> HIDE DEF q, f
    <2> QED
      BY <2>1, <2>2, <2>3 DEF r
  <1>5. f \in [1 .. Len(procs) -> Processes]
    BY <1>4
  <1>6. f \in Seq(Processes) /\ Len(f) = Len(procs)
    BY <1>1, <1>5, EveryProcess
  <1> HIDE DEF f
  <1> QED
    BY <1>1, <1>3, <1>4, <1>6

-----------------------------------------------------------------------------
(* What is on its way.                                                         *)

\* What fits goes on to fit: during a trial it is number one, and otherwise the
\* distance stays as it is.
LEMMA StillFits ==
    ASSUME Trying \/ (Ahead' = Ahead /\ (Trying' => Trying))
    PROVE  \A m : Fits(m) => FitsNext(m)
  BY DEF Fits, FitsNext

\* The processes a client step leaves behind hold nothing new.
NothingNew ==
    \A p \in 1 .. Len(procs') : procs'[p].mine =>
        \/ procs'[p].inbox = <<>> /\ procs'[p].pipe = <<>>
        \/ /\ p \in 1 .. Len(procs) /\ procs[p].mine /\ procs'[p].pipe = procs[p].pipe
           /\ procs'[p].inbox \in {procs[p].inbox, <<>>}

\* What is in flight stays told apart when the client reads from its queue, empties
\* it, or kills a process of its own.
LEMMA ClientFlight ==
    ASSUME Flight, Trying \/ (Ahead' = Ahead /\ (Trying' => Trying)), NothingNew,
           queue \in Seq(Answers), queue' \in {queue, <<>>} \/ (queue # <<>> /\ queue' = Tail(queue))
    PROVE  Flight'
  <1>1. \A m : Fits(m) => FitsNext(m)
    BY StillFits
  <1>2. \A i \in 1 .. Len(queue') : \E j \in 1 .. Len(queue) : queue'[i] = queue[j]
    <2>1. CASE queue' = <<>>
      BY <2>1
    <2>2. CASE queue # <<>> /\ queue' = Tail(queue)
      <3>1. /\ Len(queue) \in Nat /\ Len(queue') = Len(queue) - 1
            /\ \A i \in 1 .. Len(queue') : queue'[i] = queue[i + 1]
        BY <2>2, HeadTailProperties, LenProperties
      <3> QED
        BY <3>1
    <2> QED
      BY <2>1, <2>2
  <1>3. \A i \in 1 .. Len(queue') : FitsNext(queue'[i])
    BY <1>1, <1>2 DEF Flight
  <1>4. ASSUME NEW p \in 1 .. Len(procs'), procs'[p].mine
        PROVE  /\ \A i \in 1 .. Len(procs'[p].inbox) : FitsNext(procs'[p].inbox[i])
               /\ \A i \in 1 .. Len(procs'[p].pipe) : FitsNext(procs'[p].pipe[i])
    <2>1. CASE procs'[p].inbox = <<>> /\ procs'[p].pipe = <<>>
      BY <2>1
    <2>2. CASE /\ p \in 1 .. Len(procs) /\ procs[p].mine /\ procs'[p].pipe = procs[p].pipe
               /\ procs'[p].inbox \in {procs[p].inbox, <<>>}
      BY <1>1, <2>2 DEF Flight
    <2> QED
      BY <1>4, <2>1, <2>2 DEF NothingNew
  <1> QED
    BY <1>3, <1>4 DEF Flight, Fits, FitsNext

-----------------------------------------------------------------------------
(* The client.                                                                 *)

\* The types that the steps go by.
LEMMA Typed ==
    ASSUME TypeOK
    PROVE  /\ request \in Requests /\ request.id \in Nat /\ request.serial \in Nat
           /\ procs \in Seq(Processes) /\ Len(procs) \in Nat /\ process \in 0 .. Len(procs)
           /\ nextId \in Nat /\ queue \in Seq(Answers) /\ Len(queue) \in Nat
           /\ \A p \in 1 .. Len(procs) : procs[p] \in Processes
  BY LenProperties, ElementOfSeq DEF TypeOK, Requests

\* A request is one further than the last.
LEMMA Asked ==
    ASSUME TypeOK, NEW kind \in Kinds, NEW m \in Modes \union {"none"}, Ask(kind, m)
    PROVE  /\ request' \in Requests /\ request'.kind = kind /\ request'.mode = m
           /\ request'.serial = request.serial + 1 /\ request.serial \in Nat
  BY Typed DEF Ask, Serial, Requests

\* A step of the client that leaves the processes alone.
LEMMA QuietStep ==
    ASSUME IInv, UNCHANGED <<process, procs>>, TypeOK', Stage',
           Ahead' = Ahead, Trying' => Trying,
           queue' = queue \/ (queue # <<>> /\ queue' = Tail(queue))
    PROVE  IInv'
  <1>1. NothingNew
    BY DEF NothingNew
  <1>2. Flight'
    BY <1>1, Typed, ClientFlight DEF IInv
  <1>3. \A p \in 1 .. Len(procs') : ~Forgotten(p)'
    BY DEF IInv, Forgotten
  <1> QED
    BY <1>2, <1>3 DEF IInv

\* A request that fails: the next trial, the end of the client, the end of the process,
\* or of nothing but the request.
LEMMA FailsStep ==
    ASSUME IInv, pc \in {"write", "blocked", "wait"}, Fails
    PROVE  /\ procs' \in Seq(Processes) /\ Len(procs') = Len(procs) /\ process' \in 0 .. Len(procs')
           /\ NothingNew
           /\ \A p \in 1 .. Len(procs') : ~Forgotten(p)'
           /\ \/ Trying /\ pc' = "restart" /\ process' = process
              \/ Trying /\ pc' = "idle" /\ process' = 0
              \/ ~Trying /\ pc' \in {"stop", "idle"} /\ process' = process
  <1>1. /\ procs \in Seq(Processes) /\ Len(procs) \in Nat /\ process \in 1 .. Len(procs)
        /\ \A p \in 1 .. Len(procs) : procs[p] \in Processes
    BY Typed DEF IInv, Stage
  <1>2. CASE UNCHANGED <<process, procs>> /\ pc' \in {"restart", "stop", "idle"}
              /\ (pc' = "restart" <=> Trying)
    <2>1. NothingNew
      BY <1>2 DEF NothingNew
    <2>2. \A p \in 1 .. Len(procs') : ~Forgotten(p)'
      BY <1>2 DEF IInv, Forgotten
    <2> QED
      BY <1>1, <1>2, <2>1, <2>2
  <1>3. CASE Trying /\ pc' = "idle" /\ process' = 0 /\ procs' = [procs EXCEPT ![process].left = TRUE]
    <2> DEFINE r == procs[process]
               q == [r EXCEPT !.left = TRUE]
    <2>1. procs' = [procs EXCEPT ![process] = q]
      BY <1>3
    <2>2. r \in Processes
      BY <1>1
    <2> HIDE DEF r
    <2>3. q \in Processes /\ q.left /\ q.mine = r.mine /\ q.inbox = r.inbox /\ q.pipe = r.pipe
      BY <2>2 DEF Processes
    <2> HIDE DEF q
    <2>4. /\ procs' \in Seq(Processes) /\ Len(procs') = Len(procs)
          /\ \A k \in 1 .. Len(procs) : procs'[k] = IF k = process THEN q ELSE procs[k]
      BY <1>1, <2>1, <2>3, OneProcess
    <2>5. NothingNew
      BY <2>3, <2>4 DEF NothingNew, r
    <2>6. \A p \in 1 .. Len(procs') : ~Forgotten(p)'
      BY <1>3, <2>3, <2>4 DEF IInv, Forgotten
    <2> QED
      BY <1>1, <1>3, <2>4, <2>5, <2>6
  <1>4. Trying <=> request.kind = "initialize"
    BY DEF Trying
  <1> QED
    BY <1>2, <1>3, <1>4 DEF Fails

\* What follows for the client.
LEMMA FailedStep ==
    ASSUME IInv, pc \in {"write", "blocked", "wait"}, Fails,
           UNCHANGED <<setting, request, mode, session, described, uses>>, got' \in Nat,
           nextId' = IF pc = "wait" THEN nextId ELSE nextId + 1, queue' \in Seq(Answers),
           queue' = queue \/ (queue # <<>> /\ queue' = Tail(queue))
    PROVE  IInv'
  <1>1. /\ procs' \in Seq(Processes) /\ process' \in 0 .. Len(procs')
        /\ NothingNew
        /\ \A p \in 1 .. Len(procs') : ~Forgotten(p)'
        /\ \/ Trying /\ pc' = "restart" /\ process' = process
           \/ Trying /\ pc' = "idle" /\ process' = 0
           \/ ~Trying /\ pc' \in {"stop", "idle"} /\ process' = process
    BY FailsStep
  <1>2. request.serial \in Nat /\ nextId \in Nat /\ queue \in Seq(Answers)
    BY Typed DEF IInv
  <1>3. Trying' <=> Trying /\ pc' = "restart"
    BY <1>1 DEF Trying
  <1>4. Ahead' = Ahead
    <2>1. pc' \notin {"write", "blocked"} /\ request' = request
      BY <1>1
    <2>2. CASE pc \in {"write", "blocked"}
      BY <1>2, <2>1, <2>2 DEF Ahead
    <2>3. CASE pc = "wait"
      BY <1>2, <2>1, <2>3 DEF Ahead
    <2> QED
      BY <2>2, <2>3
  <1>5. Stage'
    BY <1>1, <1>2, <1>3 DEF IInv, Stage
  <1>6. TypeOK'
    BY <1>1, <1>2 DEF IInv, TypeOK, Stage
  <1>7. Flight'
    BY <1>1, <1>2, <1>3, <1>4, ClientFlight DEF IInv
  <1> QED
    BY <1>1, <1>5, <1>6, <1>7 DEF IInv

\* A new client, which no message of the old ones reaches.
LEMMA ConnectStep ==
    ASSUME IInv, Connect
    PROVE  IInv'
  <1> DEFINE old == [p \in DOMAIN procs |-> [procs[p] EXCEPT !.mine = FALSE]]
  <1>1. procs \in Seq(Processes) /\ Len(procs) \in Nat /\ DOMAIN procs = 1 .. Len(procs)
    BY Typed, LenProperties DEF IInv
  <1>2. ASSUME NEW k \in 1 .. Len(procs)
        PROVE  old[k] \in Processes /\ ~old[k].mine /\ old[k].alive = procs[k].alive /\ old[k].left = procs[k].left
    <2> DEFINE r == procs[k]
               q == [r EXCEPT !.mine = FALSE]
    <2>1. old[k] = q /\ r \in Processes
      BY <1>1, ElementOfSeq
    <2> HIDE DEF old, r
    <2>2. q \in Processes /\ ~q.mine /\ q.alive = r.alive /\ q.left = r.left
      BY <2>1 DEF Processes
    <2> QED
      BY <2>1, <2>2 DEF r
  <1>3. old \in [1 .. Len(procs) -> Processes]
    BY <1>1, <1>2
  <1>4. old \in Seq(Processes) /\ Len(old) = Len(procs)
    <2> HIDE DEF old
    <2> QED
      BY <1>1, <1>3, EveryProcess
  <1>5. procs' = Append(old, Fresh)
    BY DEF Connect
  <1> HIDE DEF old
  <1>6. /\ procs' \in Seq(Processes) /\ Len(procs') = Len(procs) + 1
        /\ \A k \in 1 .. Len(procs) : procs'[k] = old[k]
        /\ procs'[Len(procs) + 1] = Fresh
    BY <1>4, <1>5, OneMore
  <1>7. \A p \in 1 .. Len(procs') : p = Len(procs) + 1 \/ p \in 1 .. Len(procs)
    BY <1>1, <1>6
  <1>8. /\ pc = "idle" /\ ~session /\ process' = Len(procs') /\ nextId' = 0 /\ queue' = <<>>
        /\ mode' = "none" /\ uses' = uses + 1 /\ uses < MaxUses /\ pc' = "write"
        /\ UNCHANGED <<setting, session, described, got>>
    BY DEF Connect
  <1>9. PICK m \in Modes : Ask("initialize", m)
    <2>1. Head(Trials(setting.protocol)) \in Modes
      <3>1. setting.protocol \in {"auto", "standard", "compat"}
        BY DEF IInv, TypeOK
      <3> QED
        BY <3>1 DEF Trials, Modes
    <2> QED
      BY <2>1 DEF Connect
  <1>10. /\ request' \in Requests /\ request'.kind = "initialize" /\ request'.mode = m /\ m # "none"
    BY <1>9, Asked DEF IInv, Kinds, Modes
  <1>11. TypeOK'
    BY <1>1, <1>6, <1>8, <1>10, BoundsAssumption, EmptySeq DEF IInv, TypeOK
  <1>12. Stage'
    BY <1>1, <1>6, <1>8, <1>10 DEF Stage, Trying
  <1>13. Flight'
    <2>1. \A p \in 1 .. Len(procs') : procs'[p].mine => procs'[p].inbox = <<>> /\ procs'[p].pipe = <<>>
      BY <1>2, <1>6, <1>7 DEF Fresh
    <2> QED
      BY <1>8, <2>1 DEF Flight
  <1>14. \A p \in 1 .. Len(procs') : ~Forgotten(p)'
    <2>1. process = 0
      BY <1>8 DEF IInv, Stage
    <2> QED
      BY <1>2, <1>6, <1>7, <1>8, <2>1 DEF IInv, Forgotten
  <1> QED
    BY <1>11, <1>12, <1>13, <1>14 DEF IInv

\* _restart_process: what the earlier process wrote can still come, as number one.
LEMMA RestartStep ==
    ASSUME IInv, Restart
    PROVE  IInv'
  <1> DEFINE old == Stopped(procs)
  <1>1. procs \in Seq(Processes) /\ Len(procs) \in Nat /\ queue \in Seq(Answers)
    BY Typed DEF IInv
  <1>2. /\ old \in Seq(Processes) /\ Len(old) = Len(procs)
        /\ \A k \in 1 .. Len(procs) :
              /\ k # process => old[k] = procs[k]
              /\ k = process => ~old[k].alive /\ old[k].inbox = <<>>
              /\ old[k].mine = procs[k].mine /\ old[k].left = procs[k].left /\ old[k].pipe = procs[k].pipe
    BY <1>1, StoppedOnes
  <1>3. procs' = Append(old, Fresh)
    BY DEF Restart
  <1> HIDE DEF old
  <1>4. /\ procs' \in Seq(Processes) /\ Len(procs') = Len(procs) + 1
        /\ \A k \in 1 .. Len(procs) : procs'[k] = old[k]
        /\ procs'[Len(procs) + 1] = Fresh
    BY <1>2, <1>3, OneMore
  <1>5. \A p \in 1 .. Len(procs') : p = Len(procs) + 1 \/ p \in 1 .. Len(procs)
    BY <1>1, <1>4
  <1>6. /\ pc = "restart" /\ process' = Len(procs') /\ nextId' = 0 /\ queue' = <<>> /\ pc' = "write"
        /\ UNCHANGED <<setting, mode, session, described, got, uses>>
    BY DEF Restart
  <1>7. PICK m \in Modes : Ask("initialize", m)
    BY DEF Restart
  <1>8. /\ request' \in Requests /\ request'.kind = "initialize" /\ request'.mode = m /\ m # "none"
    BY <1>7, Asked DEF IInv, Kinds, Modes
  <1>9. Trying /\ ~session
    BY <1>6 DEF IInv, Stage
  <1>10. TypeOK'
    BY <1>1, <1>4, <1>6, <1>8, <1>9, EmptySeq DEF IInv, TypeOK
  <1>11. Stage'
    BY <1>1, <1>4, <1>6, <1>8, <1>9 DEF Stage, Trying
  <1>12. NothingNew
    BY <1>2, <1>4, <1>5 DEF NothingNew, Fresh
  <1>13. Flight'
    BY <1>1, <1>6, <1>9, <1>12, ClientFlight DEF IInv
  <1>14. \A p \in 1 .. Len(procs') : ~Forgotten(p)'
    BY <1>2, <1>4, <1>5, <1>6 DEF IInv, Forgotten
  <1> QED
    BY <1>10, <1>11, <1>13, <1>14 DEF IInv

\* close stops the process, and nobody is asked any more.
LEMMA StopStep ==
    ASSUME IInv, Stop
    PROVE  IInv'
  <1>1. procs \in Seq(Processes) /\ Len(procs) \in Nat /\ queue \in Seq(Answers) /\ request.serial \in Nat
    BY Typed DEF IInv
  <1>2. /\ pc = "stop" /\ procs' = Stopped(procs) /\ process' = 0 /\ session' = FALSE /\ pc' = "idle"
        /\ UNCHANGED <<setting, request, nextId, queue, mode, described, got, uses>>
    BY DEF Stop
  <1>3. /\ procs' \in Seq(Processes) /\ Len(procs') = Len(procs)
        /\ \A k \in 1 .. Len(procs) :
              /\ k # process => procs'[k] = procs[k]
              /\ k = process => ~procs'[k].alive /\ procs'[k].inbox = <<>>
              /\ procs'[k].mine = procs[k].mine /\ procs'[k].left = procs[k].left /\ procs'[k].pipe = procs[k].pipe
    BY <1>1, <1>2, StoppedOnes
  <1>4. NothingNew
    BY <1>3 DEF NothingNew
  <1>5. Ahead' = Ahead /\ ~Trying'
    BY <1>2 DEF Ahead, Trying
  <1>6. Flight'
    BY <1>1, <1>2, <1>4, <1>5, ClientFlight DEF IInv
  <1>7. TypeOK' /\ Stage'
    <2>1. TypeOK'
      <3>1. TypeOK
        BY DEF IInv
      <3>2. procs' \in Seq(Processes) /\ process' \in 0 .. Len(procs') /\ pc' = "idle" /\ session' = FALSE
        BY <1>1, <1>2, <1>3
      <3>3. (session \in BOOLEAN)' /\ (described \in BOOLEAN)'
        BY <1>2, <3>1, Zenon DEF TypeOK
      <3> QED
        BY <1>2, <3>1, <3>2, <3>3 DEF TypeOK
    <2>2. Stage'
      BY <1>2, <1>5 DEF Stage
    <2> QED
      BY <2>1, <2>2
  <1>8. \A p \in 1 .. Len(procs') : ~Forgotten(p)'
    BY <1>2, <1>3 DEF IInv, Forgotten
  <1> QED
    BY <1>6, <1>7, <1>8 DEF IInv

\* The steps of the client that leave its processes alone: a use, a message that is
\* dropped, an answer, a goodbye.
LEMMA UseStep ==
    ASSUME IInv, Use
    PROVE  IInv'
  <1>1. /\ pc = "idle" /\ session /\ uses < MaxUses /\ uses' = uses + 1 /\ pc' = "write"
        /\ UNCHANGED <<setting, process, nextId, queue, mode, session, described, procs, got>>
    BY DEF Use
  <1>2. TypeOK /\ Stage /\ request.serial \in Nat /\ nextId \in Nat
    BY Typed DEF IInv
  <1>3. PICK kind \in {"list", "call"} : Ask(kind, mode)
    BY DEF Use
  <1>4. request' \in Requests /\ request'.kind = kind /\ request'.serial = request.serial + 1
    BY <1>2, <1>3, Asked DEF TypeOK, Kinds
  <1>5. Ahead' = Ahead /\ ~Trying'
    BY <1>1, <1>2, <1>4 DEF Ahead, Trying
  <1>6. TypeOK'
    BY <1>1, <1>2, <1>4, BoundsAssumption DEF TypeOK
  <1>7. Stage'
    BY <1>1, <1>2, <1>5 DEF Stage
  <1> QED
    BY <1>1, <1>5, <1>6, <1>7, QuietStep

\* The client throws away an answer that is not about its request.
LEMMA DiscardStep ==
    ASSUME IInv, Discard
    PROVE  IInv'
  <1>1. /\ queue # <<>> /\ queue' = Tail(queue)
        /\ UNCHANGED <<setting, pc, request, process, nextId, mode, session, described, procs, got, uses>>
    BY DEF Discard
  <1>2. TypeOK /\ Stage /\ queue' \in Seq(Answers)
    BY <1>1, Typed, HeadTailProperties DEF IInv
  <1>3. Ahead' = Ahead /\ Trying' = Trying
    BY <1>1 DEF Ahead, Trying
  <1>4. TypeOK'
    BY <1>1, <1>2 DEF TypeOK
  <1>5. Stage'
    BY <1>1, <1>2, <1>3 DEF Stage
  <1> QED
    BY <1>1, <1>3, <1>4, <1>5, QuietStep

\* The answer to an initialize makes the session, whose requests start at two.
LEMMA AcceptStep ==
    ASSUME IInv, Accept
    PROVE  IInv'
  <1>1. /\ pc = "wait" /\ queue # <<>> /\ queue' = Tail(queue) /\ got' = Head(queue).serial
        /\ \/ request.kind = "initialize" /\ mode' = request.mode /\ session' = TRUE
           \/ request.kind # "initialize" /\ UNCHANGED <<mode, session>>
        /\ described' = (described \/ request.kind = "list")
        /\ pc' = IF request.kind = "close" THEN "stop" ELSE "idle"
        /\ UNCHANGED <<setting, request, process, nextId, procs, uses>>
    BY DEF Accept
  <1>2. TypeOK /\ Stage /\ request \in Requests /\ request.serial \in Nat /\ nextId \in Nat /\ queue \in Seq(Answers)
    BY Typed DEF IInv
  <1>3. Head(queue) \in Answers /\ queue' \in Seq(Answers)
    BY <1>1, <1>2, HeadTailProperties
  <1>4. got' \in Nat
    BY <1>1, <1>3 DEF Answers
  <1>5. ~Trying' /\ (Trying <=> request.kind = "initialize") /\ process # 0
    BY <1>1, <1>2 DEF Trying, Stage
  <1>6. Ahead' = Ahead
    BY <1>1, <1>2 DEF Ahead
  <1>7. TypeOK'
    <2>1. (session \in BOOLEAN)' /\ (described \in BOOLEAN)'
      BY <1>1, <1>2, Zenon DEF TypeOK
    <2>2. mode' \in Modes \union {"none"} /\ (session' => mode' # "none")
      BY <1>1, <1>2, <1>5 DEF Requests, TypeOK, Stage
    <2> QED
      BY <1>1, <1>2, <1>3, <1>4, <1>5, <2>1, <2>2 DEF TypeOK
  <1>8. Stage'
    BY <1>1, <1>2, <1>5 DEF Stage
  <1> QED
    BY <1>1, <1>5, <1>6, <1>7, <1>8, QuietStep

\* The session is closed: the client goes back to rest without a use.
LEMMA CloseStep ==
    ASSUME IInv, Close
    PROVE  IInv'
  <1>1. /\ pc = "idle" /\ session /\ described' \in {FALSE, described}
        /\ UNCHANGED <<setting, process, nextId, queue, mode, session, procs, got, uses>>
    BY DEF Close
  <1>2. TypeOK /\ Stage /\ request \in Requests /\ request.serial \in Nat /\ nextId \in Nat
    BY Typed DEF IInv
  <1>3. (described \in BOOLEAN)'
    BY <1>1, <1>2, Zenon DEF TypeOK
  <1>4. CASE Ask("close", mode) /\ pc' = "write"
    <2>1. request' \in Requests /\ request'.kind = "close" /\ request'.serial = request.serial + 1
      BY <1>2, <1>4, Asked DEF TypeOK, Kinds
    <2>2. Ahead' = Ahead /\ ~Trying'
      BY <1>1, <1>2, <1>4, <2>1 DEF Ahead, Trying
    <2>3. TypeOK'
      BY <1>1, <1>2, <1>3, <1>4, <2>1 DEF TypeOK
    <2>4. Stage'
      BY <1>1, <1>2, <1>4, <2>2 DEF Stage
    <2> QED
      BY <1>1, <2>2, <2>3, <2>4, QuietStep
  <1>5. CASE pc' = "stop" /\ UNCHANGED request
    <2>1. Ahead' = Ahead /\ ~Trying'
      BY <1>1, <1>5 DEF Ahead, Trying
    <2>2. TypeOK'
      BY <1>1, <1>2, <1>3, <1>5 DEF TypeOK
    <2>3. Stage'
      BY <1>1, <1>2, <1>5, <2>1 DEF Stage
    <2> QED
      BY <1>1, <2>1, <2>2, <2>3, QuietStep
  <1> QED
    BY <1>4, <1>5 DEF Close

\* What is written is number one of a trial, or as far ahead of its id as any.
LEMMA WriteStep ==
    ASSUME IInv, pc \in {"write", "blocked"}, Written
    PROVE  IInv'
  <1> DEFINE r == procs[process]
             q == [r EXCEPT !.inbox = IF r.alive THEN Append(r.inbox, request') ELSE r.inbox]
  <1>1. /\ pc \in {"write", "blocked"} /\ nextId' = nextId + 1 /\ request' = [request EXCEPT !.id = nextId'] /\ pc' = "wait"
        /\ procs' = [procs EXCEPT ![process] = q]
        /\ UNCHANGED <<setting, process, queue, mode, session, described, got, uses>>
    BY DEF Written
  <1>2. /\ TypeOK /\ Stage /\ Flight /\ request \in Requests /\ request.serial \in Nat /\ nextId \in Nat
        /\ procs \in Seq(Processes) /\ process \in 1 .. Len(procs) /\ r \in Processes /\ Len(procs) \in Nat
        /\ queue \in Seq(Answers) /\ Len(queue) \in Nat
    BY <1>1, Typed DEF IInv, Stage
  <1>3. /\ request' \in Requests /\ request'.id = nextId + 1 /\ request'.serial = request.serial
        /\ request'.kind = request.kind /\ request'.mode = request.mode
    <2>1. request' = [request EXCEPT !.id = nextId + 1] /\ nextId + 1 \in Nat
      BY <1>1, <1>2
    <2>2. request \in Requests
      BY <1>2
    <2> QED
      BY <2>1, <2>2 DEF Requests
  <1> HIDE DEF r
  <1>4. /\ q \in Processes /\ q.alive = r.alive /\ q.left = r.left /\ q.mine = r.mine /\ q.pipe = r.pipe
        /\ q.inbox = IF r.alive THEN Append(r.inbox, request') ELSE r.inbox
        /\ r.inbox \in Seq(Requests)
    BY <1>2, <1>3, AppendProperties DEF Processes
  <1> HIDE DEF q
  <1>5. /\ procs' \in Seq(Processes) /\ Len(procs') = Len(procs)
        /\ \A k \in 1 .. Len(procs) : procs'[k] = IF k = process THEN q ELSE procs[k]
    BY <1>1, <1>2, <1>4, OneProcess
  <1>6. Ahead' = Ahead /\ Ahead \in Int
    <2>1. Ahead = request.serial - nextId - 1
      BY <1>1 DEF Ahead
    <2>2. Ahead' = request'.serial - nextId' - 0
      BY <1>1 DEF Ahead
    <2> QED
      BY <1>1, <1>2, <1>3, <2>1, <2>2
  <1>7. Trying' <=> Trying
    BY <1>1, <1>3 DEF Trying
  <1>8. TypeOK'
    BY <1>1, <1>2, <1>3, <1>5 DEF TypeOK
  <1>9. Stage'
    BY <1>1, <1>2, <1>3, <1>7 DEF Stage
  <1>10. FitsNext(request')
    <2>1. CASE Trying
      BY <1>1, <1>2, <1>3, <2>1 DEF FitsNext, Stage
    <2>2. CASE ~Trying
      <3>1. pc' \notin {"write", "blocked"} /\ nextId' = nextId + 1 /\ nextId \in Nat /\ request.serial \in Nat
        BY <1>1, <1>2
      <3>2. request'.serial = request'.id + Ahead'
        BY <1>3, <3>1 DEF Ahead
      <3> QED
        BY <1>7, <2>2, <3>2 DEF FitsNext
    <2> QED
      BY <2>1, <2>2
  <1>11. \A m : Fits(m) => FitsNext(m)
    BY <1>6, <1>7, StillFits
  <1>12. \A i \in 1 .. Len(queue') : FitsNext(queue'[i])
    BY <1>1, <1>2, <1>11 DEF Flight
  <1>13. ASSUME NEW p \in 1 .. Len(procs'), procs'[p].mine
         PROVE  /\ \A i \in 1 .. Len(procs'[p].inbox) : FitsNext(procs'[p].inbox[i])
                /\ \A i \in 1 .. Len(procs'[p].pipe) : FitsNext(procs'[p].pipe[i])
    <2>1. CASE p # process
      BY <1>2, <1>5, <1>11, <1>13, <2>1 DEF Flight
    <2>2. CASE p = process
      <3>1. procs'[p] = q /\ r.mine
        BY <1>4, <1>5, <1>13, <2>2
      <3>2. /\ \A i \in 1 .. Len(r.inbox) : FitsNext(r.inbox[i])
            /\ \A i \in 1 .. Len(r.pipe) : FitsNext(r.pipe[i])
        BY <1>2, <1>11, <3>1 DEF Flight, r
      <3>3. \A i \in 1 .. Len(Append(r.inbox, request')) : FitsNext(Append(r.inbox, request')[i])
        <4>1. /\ Len(r.inbox) \in Nat /\ Len(Append(r.inbox, request')) = Len(r.inbox) + 1
              /\ \A i \in 1 .. Len(r.inbox) : Append(r.inbox, request')[i] = r.inbox[i]
              /\ Append(r.inbox, request')[Len(r.inbox) + 1] = request'
          BY <1>3, <1>4, AppendProperties, LenProperties
        <4> QED
          BY <1>10, <3>2, <4>1
      <3> QED
        BY <1>4, <3>1, <3>2, <3>3
    <2> QED
      BY <2>1, <2>2
  <1>14. Flight'
    BY <1>12, <1>13 DEF Flight, Fits, FitsNext
  <1>15. \A p \in 1 .. Len(procs') : ~Forgotten(p)'
    BY <1>1, <1>2, <1>4, <1>5 DEF IInv, Forgotten, r
  <1> QED
    BY <1>8, <1>9, <1>14, <1>15 DEF IInv

-----------------------------------------------------------------------------
(* The server and the readers: a process takes up what fits and puts out what  *)
(* fits, and none comes alive.                                                 *)

\* Any step of a process, or of the reader thread of its pipe, of this kind keeps
\* the invariant.
LEMMA ProcessStep ==
    ASSUME IInv, NEW p \in 1 .. Len(procs), NEW q \in Processes, procs' = [procs EXCEPT ![p] = q],
           q.mine = procs[p].mine, q.left = procs[p].left, q.alive => procs[p].alive,
           q.mine => /\ \A i \in 1 .. Len(q.inbox) : Fits(q.inbox[i])
                     /\ \A i \in 1 .. Len(q.pipe) : Fits(q.pipe[i]),
           queue' \in Seq(Answers), \A i \in 1 .. Len(queue') : Fits(queue'[i]),
           UNCHANGED <<setting, pc, request, process, nextId, mode, session, described, got, uses>>
    PROVE  IInv'
  <1>1. TypeOK /\ Stage /\ Flight /\ procs \in Seq(Processes)
    BY Typed DEF IInv
  <1>2. /\ procs' \in Seq(Processes) /\ Len(procs') = Len(procs)
        /\ \A k \in 1 .. Len(procs) : procs'[k] = IF k = p THEN q ELSE procs[k]
    BY <1>1, OneProcess
  <1>3. Trying' = Trying /\ Ahead' = Ahead
    BY DEF Trying, Ahead
  <1>4. TypeOK'
    BY <1>1, <1>2 DEF TypeOK
  <1>5. Stage'
    BY <1>1, <1>3 DEF Stage
  <1>6. \A m : Fits(m) => FitsNext(m)
    BY <1>3, StillFits
  <1>7. ASSUME NEW k \in 1 .. Len(procs'), procs'[k].mine
        PROVE  /\ \A i \in 1 .. Len(procs'[k].inbox) : FitsNext(procs'[k].inbox[i])
               /\ \A i \in 1 .. Len(procs'[k].pipe) : FitsNext(procs'[k].pipe[i])
    <2>1. CASE k = p
      <3>1. procs'[k] = q /\ q.mine
        BY <1>2, <1>7, <2>1
      <3> QED
        BY <1>6, <3>1
    <2>2. CASE k # p
      BY <1>1, <1>2, <1>6, <1>7, <2>2 DEF Flight
    <2> QED
      BY <2>1, <2>2
  <1>8. \A i \in 1 .. Len(queue') : FitsNext(queue'[i])
    BY <1>6
  <1>9. Flight'
    BY <1>7, <1>8 DEF Flight, Fits, FitsNext
  <1>10. \A k \in 1 .. Len(procs') : ~Forgotten(k)'
    BY <1>2 DEF IInv, Forgotten
  <1> QED
    BY <1>4, <1>5, <1>9, <1>10 DEF IInv

\* What is left of a sequence, and what is added to it, fits as before.
LEMMA TailFits ==
    ASSUME NEW S, NEW s \in Seq(S), s # <<>>, \A i \in 1 .. Len(s) : Fits(s[i])
    PROVE  /\ Tail(s) \in Seq(S) /\ \A i \in 1 .. Len(Tail(s)) : Fits(Tail(s)[i])
           /\ Head(s) \in S /\ Fits(Head(s))
  <1>1. /\ Len(s) \in Nat \ {0} /\ Head(s) \in S /\ Head(s) = s[1]
        /\ Tail(s) \in Seq(S) /\ Len(Tail(s)) = Len(s) - 1
        /\ \A i \in 1 .. Len(Tail(s)) : Tail(s)[i] = s[i + 1]
    BY HeadTailProperties, EmptySeq
  <1> QED
    BY <1>1

\* A sequence of messages that all fit stays one when a message that fits is added.
LEMMA AppendFits ==
    ASSUME NEW S, NEW s \in Seq(S), NEW m \in S, \A i \in 1 .. Len(s) : Fits(s[i]), Fits(m)
    PROVE  Append(s, m) \in Seq(S) /\ \A i \in 1 .. Len(Append(s, m)) : Fits(Append(s, m)[i])
  <1>1. /\ Len(s) \in Nat /\ Append(s, m) \in Seq(S) /\ Len(Append(s, m)) = Len(s) + 1
        /\ \A i \in 1 .. Len(s) : Append(s, m)[i] = s[i]
        /\ Append(s, m)[Len(s) + 1] = m
    BY AppendProperties, LenProperties
  <1> QED
    BY <1>1

\* What the steps of a process are given.
LEMMA Given ==
    ASSUME IInv, NEW p \in 1 .. Len(procs)
    PROVE  /\ procs[p] \in Processes /\ queue \in Seq(Answers)
           /\ \A i \in 1 .. Len(queue) : Fits(queue[i])
           /\ procs[p].inbox \in Seq(Requests) /\ procs[p].pipe \in Seq(Answers)
           /\ procs[p].mine => /\ \A i \in 1 .. Len(procs[p].inbox) : Fits(procs[p].inbox[i])
                               /\ \A i \in 1 .. Len(procs[p].pipe) : Fits(procs[p].pipe[i])
  <1>1. procs[p] \in Processes /\ queue \in Seq(Answers)
    BY Typed DEF IInv
  <1>2. procs[p].inbox \in Seq(Requests) /\ procs[p].pipe \in Seq(Answers)
    BY <1>1 DEF Processes
  <1> QED
    BY <1>1, <1>2 DEF IInv, Flight

\* The server takes a request and answers it or not.
LEMMA ServerTakesStep ==
    ASSUME IInv, NEW p \in 1 .. Len(procs), ServerTakes(p)
    PROVE  IInv'
  <1> DEFINE r == procs[p]
             h == Head(r.inbox)
  <1>1. /\ r \in Processes /\ queue \in Seq(Answers) /\ \A i \in 1 .. Len(queue) : Fits(queue[i])
        /\ r.inbox \in Seq(Requests) /\ r.pipe \in Seq(Answers)
        /\ r.mine => /\ \A i \in 1 .. Len(r.inbox) : Fits(r.inbox[i])
                     /\ \A i \in 1 .. Len(r.pipe) : Fits(r.pipe[i])
    BY Given
  <1>2. r.inbox # <<>> /\ UNCHANGED <<setting, pc, request, process, nextId, queue, mode, session, described, got, uses>>
    BY DEF ServerTakes, client
  <1>3. \/ procs' = [procs EXCEPT ![p] = [r EXCEPT !.inbox = Tail(r.inbox)]]
        \/ \E ok \in BOOLEAN :
              procs' = [procs EXCEPT ![p] = [r EXCEPT !.inbox = Tail(r.inbox),
                                             !.pipe = Append(r.pipe, [id |-> h.id, serial |-> h.serial, ok |-> ok])]]
    BY DEF ServerTakes, Verdicts
  <1>4. h \in Requests /\ Tail(r.inbox) \in Seq(Requests)
    BY <1>1, <1>2, HeadTailProperties
  <1>5. r.mine => Fits(h) /\ \A i \in 1 .. Len(Tail(r.inbox)) : Fits(Tail(r.inbox)[i])
    BY <1>1, <1>2, TailFits
  <1> HIDE DEF r, h
  <1>6. CASE procs' = [procs EXCEPT ![p] = [r EXCEPT !.inbox = Tail(r.inbox)]]
    <2> DEFINE q == [r EXCEPT !.inbox = Tail(r.inbox)]
    <2>1. /\ q \in Processes /\ q.mine = r.mine /\ q.left = r.left /\ q.alive = r.alive
          /\ q.inbox = Tail(r.inbox) /\ q.pipe = r.pipe
      BY <1>1, <1>4 DEF Processes
    <2>2. procs' = [procs EXCEPT ![p] = q]
      BY <1>6
    <2> HIDE DEF q
    <2> QED
      BY <1>1, <1>2, <1>5, <2>1, <2>2, ProcessStep DEF r
  <1>7. ASSUME NEW ok \in BOOLEAN,
               procs' = [procs EXCEPT ![p] = [r EXCEPT !.inbox = Tail(r.inbox),
                                              !.pipe = Append(r.pipe, [id |-> h.id, serial |-> h.serial, ok |-> ok])]]
        PROVE  IInv'
    <2> DEFINE m == [id |-> h.id, serial |-> h.serial, ok |-> ok]
               pipe == Append(r.pipe, m)
               q == [r EXCEPT !.inbox = Tail(r.inbox), !.pipe = pipe]
    <2>1. m \in Answers /\ m.id = h.id /\ m.serial = h.serial
      BY <1>4 DEF Requests, Answers
    <2>2. procs' = [procs EXCEPT ![p] = q]
      BY <1>7
    <2> HIDE DEF m
    <2>3. r.mine => Fits(m)
      BY <1>5, <2>1 DEF Fits
    <2>4. pipe \in Seq(Answers)
      BY <1>1, <2>1, AppendProperties
    <2>5. r.mine => \A i \in 1 .. Len(pipe) : Fits(pipe[i])
      BY <1>1, <2>1, <2>3, AppendFits
    <2> HIDE DEF pipe
    <2>6. /\ q \in Processes /\ q.mine = r.mine /\ q.left = r.left /\ q.alive = r.alive
          /\ q.inbox = Tail(r.inbox) /\ q.pipe = pipe
      BY <1>1, <1>4, <2>4 DEF Processes
    <2> HIDE DEF q
    <2> QED
      BY <1>1, <1>2, <1>5, <2>2, <2>5, <2>6, ProcessStep DEF r
  <1> QED
    BY <1>3, <1>6, <1>7

\* A process dies; a reader stops.
LEMMA DeathStep ==
    ASSUME IInv, NEW p \in 1 .. Len(procs), ServerDies(p) \/ ReaderFails(p)
    PROVE  IInv'
  <1> DEFINE r == procs[p]
  <1>1. /\ r \in Processes /\ queue \in Seq(Answers) /\ \A i \in 1 .. Len(queue) : Fits(queue[i])
        /\ r.mine => /\ \A i \in 1 .. Len(r.inbox) : Fits(r.inbox[i])
                     /\ \A i \in 1 .. Len(r.pipe) : Fits(r.pipe[i])
    BY Given
  <1>2. /\ r.alive
        /\ UNCHANGED <<setting, pc, request, process, nextId, queue, mode, session, described, got, uses>>
        /\ \/ procs' = [procs EXCEPT ![p] = [r EXCEPT !.alive = FALSE, !.inbox = <<>>]]
           \/ procs' = [procs EXCEPT ![p] = [r EXCEPT !.reading = FALSE]]
    BY DEF ServerDies, ReaderFails, client
  <1> HIDE DEF r
  <1> DEFINE a == [r EXCEPT !.alive = FALSE, !.inbox = <<>>]
             b == [r EXCEPT !.reading = FALSE]
  <1>3. <<>> \in Seq(Requests)
    BY EmptySeq
  <1>4. /\ a \in Processes /\ a.mine = r.mine /\ a.left = r.left /\ ~a.alive
        /\ a.inbox = <<>> /\ a.pipe = r.pipe
        /\ b \in Processes /\ b.mine = r.mine /\ b.left = r.left /\ b.alive = r.alive
        /\ b.inbox = r.inbox /\ b.pipe = r.pipe
    BY <1>1, <1>3 DEF Processes
  <1>5. procs' = [procs EXCEPT ![p] = a] \/ procs' = [procs EXCEPT ![p] = b]
    BY <1>2
  <1> HIDE DEF a, b
  <1>6. CASE procs' = [procs EXCEPT ![p] = a]
    <2>1. /\ \A i \in 1 .. Len(a.inbox) : Fits(a.inbox[i])
          /\ a.mine => \A i \in 1 .. Len(a.pipe) : Fits(a.pipe[i])
      BY <1>1, <1>4
    <2>2. a \in Processes /\ a.mine = r.mine /\ a.left = r.left /\ (a.alive => r.alive)
      BY <1>2, <1>4
    <2>3. queue' = queue
      BY <1>2
    <2> QED
      BY <1>1, <1>2, <1>6, <2>1, <2>2, <2>3, ProcessStep DEF r
  <1>7. CASE procs' = [procs EXCEPT ![p] = b]
    BY <1>1, <1>2, <1>4, <1>7, ProcessStep DEF r
  <1> QED
    BY <1>5, <1>6, <1>7

\* _reader_loop delivers to the client's queue of the moment.
LEMMA DeliverStep ==
    ASSUME IInv, NEW p \in 1 .. Len(procs), Deliver(p)
    PROVE  IInv'
  <1> DEFINE r == procs[p]
             h == Head(r.pipe)
             q == [r EXCEPT !.pipe = Tail(r.pipe)]
  <1>1. /\ r \in Processes /\ queue \in Seq(Answers) /\ \A i \in 1 .. Len(queue) : Fits(queue[i])
        /\ r.inbox \in Seq(Requests) /\ r.pipe \in Seq(Answers)
        /\ r.mine => /\ \A i \in 1 .. Len(r.inbox) : Fits(r.inbox[i])
                     /\ \A i \in 1 .. Len(r.pipe) : Fits(r.pipe[i])
    BY Given
  <1>2. /\ r.pipe # <<>> /\ procs' = [procs EXCEPT ![p] = q]
        /\ queue' = IF r.mine THEN Append(queue, h) ELSE queue
        /\ UNCHANGED <<setting, pc, request, process, nextId, mode, session, described, got, uses>>
    BY DEF Deliver
  <1>3. h \in Answers /\ Tail(r.pipe) \in Seq(Answers)
    BY <1>1, <1>2, HeadTailProperties
  <1>4. r.mine => Fits(h) /\ \A i \in 1 .. Len(Tail(r.pipe)) : Fits(Tail(r.pipe)[i])
    BY <1>1, <1>2, TailFits
  <1> HIDE DEF r, h
  <1>5. /\ q \in Processes /\ q.mine = r.mine /\ q.left = r.left /\ q.alive = r.alive
        /\ q.inbox = r.inbox /\ q.pipe = Tail(r.pipe)
    BY <1>1, <1>3 DEF Processes
  <1> HIDE DEF q
  <1>6. queue' \in Seq(Answers) /\ \A i \in 1 .. Len(queue') : Fits(queue'[i])
    <2>1. CASE r.mine
      BY <1>1, <1>2, <1>3, <1>4, <2>1, AppendFits
    <2>2. CASE ~r.mine
      BY <1>1, <1>2, <2>2
    <2> QED
      BY <2>1, <2>2
  <1> QED
    BY <1>1, <1>2, <1>4, <1>5, <1>6, ProcessStep DEF r

-----------------------------------------------------------------------------
\* No process, no session, nothing asked.
LEMMA InitHolds == Init => IInv
  <1> SUFFICES ASSUME Init
               PROVE  IInv
    OBVIOUS
  <1>1. procs = <<>> /\ queue = <<>> /\ <<>> \in Seq(Processes) /\ <<>> \in Seq(Answers)
    BY EmptySeq DEF Init
  <1>2. TypeOK
    <2>1. NoRequest \in Requests
      BY DEF NoRequest, Requests
    <2>2. session \in BOOLEAN /\ described \in BOOLEAN
      BY Zenon DEF Init
    <2>3. 0 \in 0 .. Len(procs) /\ 0 \in 0 .. MaxUses
      BY <1>1, BoundsAssumption
    <2> QED
      BY <1>1, <2>1, <2>2, <2>3 DEF Init, TypeOK
  <1>3. Stage /\ Flight /\ \A p \in 1 .. Len(procs) : ~Forgotten(p)
    BY <1>1 DEF Init, Stage, Flight, Trying, NoRequest
  <1> QED
    BY <1>2, <1>3 DEF IInv

\* Every step keeps the invariant.
LEMMA StepHolds == IInv /\ [Next]_vars => IInv'
  <1> SUFFICES ASSUME IInv, [Next]_vars
               PROVE  IInv'
    OBVIOUS
  <1>1. CASE Connect
    BY <1>1, ConnectStep
  <1>2. CASE Use
    BY <1>2, UseStep
  <1>3. CASE Write
    BY <1>3, WriteStep DEF Write
  <1>15. CASE WriteBlocks
    <2>1. /\ pc = "write" /\ pc' = "blocked"
          /\ UNCHANGED <<setting, request, process, nextId, queue, mode, session, described, procs, got, uses>>
      BY <1>15 DEF WriteBlocks
    <2>2. TypeOK' /\ Stage' /\ Ahead' = Ahead /\ Trying' = Trying
      BY <2>1 DEF IInv, TypeOK, Stage, Ahead, Trying
    <2> QED
      BY <2>1, <2>2, QuietStep
  <1>4. queue \in Seq(Answers) /\ got \in Nat
    BY DEF IInv, TypeOK
  <1>5. CASE BrokenPipe
    BY <1>4, <1>5, FailedStep DEF BrokenPipe
  <1>6. CASE Discard
    BY <1>6, DiscardStep
  <1>7. CASE Accept
    BY <1>7, AcceptStep
  <1>8. CASE AcceptError
    <2>1. queue # <<>> /\ got' = Head(queue).serial /\ queue' = Tail(queue) /\ pc = "wait"
      BY <1>8 DEF AcceptError
    <2>2. Head(queue) \in Answers /\ queue' \in Seq(Answers)
      BY <1>4, <2>1, HeadTailProperties
    <2>3. got' \in Nat
      BY <2>1, <2>2 DEF Answers
    <2> QED
      BY <1>8, <2>1, <2>2, <2>3, FailedStep DEF AcceptError
  <1>9. CASE TimeOut
    BY <1>4, <1>9, FailedStep DEF TimeOut
  <1>10. CASE Restart
    BY <1>10, RestartStep
  <1>11. CASE Close
    BY <1>11, CloseStep
  <1>12. CASE Stop
    BY <1>12, StopStep
  <1>13. CASE Environment
    <2>1. CASE ServerDrains
      BY <2>1, WriteStep DEF ServerDrains
    <2>2. ASSUME NEW p \in DOMAIN procs, ServerTakes(p) \/ ServerDies(p) \/ Deliver(p) \/ ReaderFails(p)
          PROVE  IInv'
      <3>1. p \in 1 .. Len(procs)
        BY Typed, LenProperties DEF IInv
      <3> QED
        BY <2>2, <3>1, ServerTakesStep, DeathStep, DeliverStep
    <2> QED
      BY <1>13, <2>1, <2>2 DEF Environment
  <1>14. CASE UNCHANGED vars
    <2>1. UNCHANGED <<setting, pc, request, process, nextId, queue, mode, session, described, procs, got, uses>>
      BY <1>14 DEF vars, client
    <2>2. TypeOK' /\ Stage' /\ Ahead' = Ahead /\ Trying' = Trying
      BY <2>1 DEF IInv, TypeOK, Stage, Ahead, Trying
    <2> QED
      BY <2>1, <2>2, QuietStep
  <1> QED
    BY <1>1, <1>2, <1>3, <1>5, <1>6, <1>7, <1>8, <1>9, <1>10, <1>11, <1>12, <1>13, <1>14, <1>15
    DEF Next, Client

\* A message with the id of a use is number two at least, so it fits the present process.
LEMMA AnswerIsOwn ==
    ASSUME IInv, [Next]_vars, request.kind \in {"list", "call"}, got' # got
    PROVE  got' = request.serial
  <1>1. /\ pc = "wait" /\ queue # <<>> /\ Head(queue).id = request.id /\ got' = Head(queue).serial
    BY DEF Next, Client, Environment, Connect, Use, Write, WriteBlocks, Written, ServerDrains, BrokenPipe, Discard, Accept, AcceptError, TimeOut,
           Restart, Close, Stop, ServerTakes, ServerDies, Deliver, ReaderFails, Matches, vars, client
  <1>2. /\ Stage /\ queue \in Seq(Answers) /\ request.serial \in Nat /\ nextId \in Nat
        /\ \A i \in 1 .. Len(queue) : Fits(queue[i])
    BY Typed DEF IInv, Flight
  <1>3. ~Trying
    BY DEF Trying
  <1>4. request.id = nextId /\ nextId >= 2
    BY <1>1, <1>2, <1>3 DEF Stage
  <1>5. Head(queue) \in Answers /\ Fits(Head(queue))
    BY <1>1, <1>2, TailFits
  <1>6. Head(queue).serial = Head(queue).id + Ahead
    BY <1>1, <1>2, <1>4, <1>5 DEF Fits
  <1>7. Ahead = request.serial - nextId
    BY <1>1, <1>2 DEF Ahead
  <1> QED
    BY <1>1, <1>2, <1>4, <1>6, <1>7

\* What a call or a discovery returns is the server's answer to that very request, however
\* many trials, restarts and abandoned requests went before (_wait_for_response).
THEOREM OwnAnswer == Spec => UseGetsItsAnswer
  <1>1. IInv /\ [Next]_vars => [request.kind \in {"list", "call"} /\ got' # got => got' = request.serial]_vars
    BY AnswerIsOwn
  <1> QED
    BY <1>1, InitHolds, StepHolds, PTL DEF Spec, UseGetsItsAnswer

\* A process that runs is the client's present one, or was left by a client that was never
\* initialized (_restart_process, close).
THEOREM NoneForgotten == Spec => []NoProcessForgotten
  <1>1. IInv => NoProcessForgotten
    <2> SUFFICES ASSUME IInv
                 PROVE  NoProcessForgotten
      OBVIOUS
    <2>1. DOMAIN procs = 1 .. Len(procs)
      BY Typed, LenProperties DEF IInv
    <2> QED
      BY <2>1 DEF IInv, Forgotten, NoProcessForgotten
  <1> QED
    BY <1>1, InitHolds, StepHolds, PTL DEF Spec
=============================================================================
