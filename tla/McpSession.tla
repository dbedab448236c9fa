----------------------------- MODULE McpSession -----------------------------
(* MCP over stdio: MCPSessionManager caches one session for a server; its      *)
(* client finds out by trial how the server speaks - newline-delimited or      *)
(* framed JSON-RPC, else the older "compat" dialect - restarting the process,  *)
(* the response queue and the request ids between two trials.  The reader      *)
(* thread of every process delivers into the queue the client has when the     *)
(* message arrives, and outlives the process it reads from.                    *)
EXTENDS Integers, Sequences, FiniteSets, SequencesExt

CONSTANTS
    MaxUses,       \* how often the runtime uses the server
    MaxProcesses   \* how many processes are started

ASSUME BoundsAssumption == MaxUses \in Nat /\ MaxProcesses \in Nat

VARIABLES
    setting,    \* the server's configured protocol, and how it really speaks
    pc,         \* where the thread that uses the server is
    request,    \* the request under way
    process,    \* the client's process, 0: none
    nextId,     \* the client's _request_id
    queue,      \* the client's _response_queue
    mode,       \* the dialect the client has settled on
    session,    \* the client is in the manager's table
    described,  \* MCPManager._descriptor_cache holds the server's tools
    procs,      \* every process ever started
    got,        \* the request answered by the message last accepted
    uses        \* how often the server was used

client == <<pc, request, process, nextId, queue, mode, session, described, got, uses>>
vars == <<setting, client, procs>>

Modes == {"line", "framed", "compat"}
Dialects == Modes
Kinds == {"initialize", "list", "call", "close"}
NoRequest == [kind |-> "none", mode |-> "none", id |-> 0, serial |-> 0]

Requests == [kind : Kinds \union {"none"}, mode : Modes \union {"none"}, id : Nat, serial : Nat]
Answers == [id : Nat, serial : Nat, ok : BOOLEAN]
Processes == [alive : BOOLEAN, reading : BOOLEAN, mine : BOOLEAN, left : BOOLEAN,
              inbox : Seq(Requests), pipe : Seq(Answers)]

\* The dialects a client tries, in order: initialize and _initialize_standard.
Trials(protocol) == CASE protocol = "compat" -> <<"compat">>
                      [] protocol = "standard" -> <<"line", "framed">>
                      [] OTHER -> <<"line", "framed", "compat">>

TypeOK ==
    /\ setting \in [protocol : {"auto", "standard", "compat"}, speaks : Dialects]
    /\ pc \in {"idle", "write", "blocked", "wait", "restart", "stop"}
    /\ request \in Requests
    /\ procs \in Seq(Processes) /\ process \in 0 .. Len(procs)
    /\ nextId \in Nat /\ queue \in Seq(Answers)
    /\ mode \in Modes \union {"none"}
    /\ session => process # 0 /\ mode # "none"
    /\ session \in BOOLEAN /\ described \in BOOLEAN
    /\ got \in Nat /\ uses \in 0 .. MaxUses

Init ==
    /\ setting \in [protocol : {"auto", "standard", "compat"}, speaks : Dialects]
    /\ pc = "idle" /\ request = NoRequest /\ process = 0 /\ nextId = 0 /\ queue = <<>>
    /\ mode = "none" /\ session = FALSE /\ described = FALSE
    /\ procs = <<>> /\ got = 0 /\ uses = 0

-----------------------------------------------------------------------------
(* The client.                                                                 *)

\* "mine" marks the processes whose readers hold the client of the current session;
\* "left" those of a client that was dropped without close().
Fresh == [alive |-> TRUE, reading |-> TRUE, mine |-> TRUE, left |-> FALSE, inbox |-> <<>>, pipe |-> <<>>]

Serial == request.serial + 1
Ask(kind, m) == request' = [kind |-> kind, mode |-> m, id |-> 0, serial |-> Serial]

\* _stop_process: terminate, then kill; what the process wrote stays in its pipe.
Stopped(ps) == [p \in DOMAIN ps |-> IF p = process THEN [ps[p] EXCEPT !.alive = FALSE, !.inbox = <<>>]
                                    ELSE ps[p]]

\* get_or_create without a session: a new client, with a process and a queue of its own.
Connect ==
    /\ pc = "idle" /\ ~session /\ uses < MaxUses
    /\ Len(procs) + Len(Trials(setting.protocol)) <= MaxProcesses
    /\ procs' = Append([p \in DOMAIN procs |-> [procs[p] EXCEPT !.mine = FALSE]], Fresh)
    /\ process' = Len(procs')
    /\ nextId' = 0 /\ queue' = <<>> /\ mode' = "none" /\ uses' = uses + 1
    /\ Ask("initialize", Head(Trials(setting.protocol))) /\ pc' = "write"
    /\ UNCHANGED <<setting, session, described, got>>

\* Discovery asks the session once and then answers from the descriptor cache.
Use ==
    /\ pc = "idle" /\ session /\ uses < MaxUses
    /\ uses' = uses + 1 /\ pc' = "write"
    /\ \/ ~described /\ Ask("list", mode)
       \/ Ask("call", mode)
    /\ UNCHANGED <<setting, process, nextId, queue, mode, session, described, procs, got>>

\* _next_request_id and the write, once all of it is in the pipe.
Written ==
    /\ nextId' = nextId + 1 /\ request' = [request EXCEPT !.id = nextId']
    /\ procs' = [procs EXCEPT ![process].inbox = IF procs[process].alive THEN Append(@, request') ELSE @]
    /\ pc' = "wait"
    /\ UNCHANGED <<setting, process, queue, mode, session, described, got, uses>>

\* The pipe has room for the request.
Write == pc = "write" /\ Written

\* It has not: stdin.write blocks, and no timeout covers it.
WriteBlocks ==
    /\ pc = "write" /\ procs[process].alive
    /\ pc' = "blocked"
    /\ UNCHANGED <<setting, request, process, nextId, queue, mode, session, described, procs, got, uses>>

\* The trial that follows one that failed, if the protocol allows another.
Follows(m, next) ==
    LET trials == Trials(setting.protocol)
    IN  \E k \in 1 .. Len(trials) - 1 : trials[k] = m /\ trials[k + 1] = next
Another == \E m \in Modes : Follows(request.mode, m)

\* What becomes of the request: initialize turns to the next dialect or gives the client
\* up with its process running, close goes on to stop the process, a use just fails.
Fails ==
    CASE request.kind = "initialize" /\ Another ->
            pc' = "restart" /\ UNCHANGED <<process, procs>>
      [] request.kind = "initialize" /\ ~Another ->
            pc' = "idle" /\ process' = 0 /\ procs' = [procs EXCEPT ![process].left = TRUE]
      [] request.kind = "close" -> pc' = "stop" /\ UNCHANGED <<process, procs>>
      [] OTHER -> pc' = "idle" /\ UNCHANGED <<process, procs>>

\* A write to a process that is gone, or dies before it has read enough.
BrokenPipe ==
    /\ pc \in {"write", "blocked"} /\ ~procs[process].alive
    /\ nextId' = nextId + 1
    /\ Fails
    /\ UNCHANGED <<setting, request, queue, mode, session, described, got, uses>>

\* Mutant of Matches: the first message is taken for the answer.
MatchesAny(answer) == TRUE
\* _wait_for_response: messages with another id are dropped.
Matches(answer) == answer.id = request.id

Discard ==
    /\ pc = "wait" /\ queue # <<>> /\ ~Matches(Head(queue))
    /\ queue' = Tail(queue)
    /\ UNCHANGED <<setting, pc, request, process, nextId, mode, session, described, procs, got, uses>>

Accept ==
    /\ pc = "wait" /\ queue # <<>> /\ Matches(Head(queue)) /\ Head(queue).ok
    /\ queue' = Tail(queue) /\ got' = Head(queue).serial
    /\ IF request.kind = "initialize" THEN mode' = request.mode /\ session' = TRUE
                                      ELSE UNCHANGED <<mode, session>>
    /\ described' = (described \/ request.kind = "list")
    /\ pc' = IF request.kind = "close" THEN "stop" ELSE "idle"
    /\ UNCHANGED <<setting, request, process, nextId, procs, uses>>

AcceptError ==
    /\ pc = "wait" /\ queue # <<>> /\ Matches(Head(queue)) /\ ~Head(queue).ok
    /\ queue' = Tail(queue) /\ got' = Head(queue).serial
    /\ Fails
    /\ UNCHANGED <<setting, request, nextId, mode, session, described, uses>>

\* Mutant of TimeOut: the queue is read without a deadline.
TimeOutNever ==
    /\ pc = "wait" /\ ~procs[process].alive /\ Fails
    /\ UNCHANGED <<setting, request, nextId, queue, mode, session, described, got, uses>>

TimeOut ==
    /\ pc = "wait" /\ Fails
    /\ UNCHANGED <<setting, request, nextId, queue, mode, session, described, got, uses>>

\* Mutant of Restart: the process of the failed trial is not stopped.
RestartOnly ==
    /\ pc = "restart"
    /\ procs' = Append(procs, Fresh) /\ process' = Len(procs')
    /\ queue' = <<>> /\ nextId' = 0
    /\ \E m \in Modes : Follows(request.mode, m) /\ Ask("initialize", m)
    /\ pc' = "write"
    /\ UNCHANGED <<setting, mode, session, described, got, uses>>

\* _restart_process: stop, replace the queue, start the ids over, start.
Restart ==
    /\ pc = "restart"
    /\ procs' = Append(Stopped(procs), Fresh) /\ process' = Len(procs')
    /\ queue' = <<>> /\ nextId' = 0
    /\ \E m \in Modes : Follows(request.mode, m) /\ Ask("initialize", m)
    /\ pc' = "write"
    /\ UNCHANGED <<setting, mode, session, described, got, uses>>

\* close_all_sessions clears the descriptors, close_idle_sessions keeps them; the compat
\* dialect says goodbye first.
Close ==
    /\ pc = "idle" /\ session
    /\ described' \in {FALSE, described}
    /\ IF mode = "compat" THEN Ask("close", mode) /\ pc' = "write"
                          ELSE pc' = "stop" /\ UNCHANGED request
    /\ UNCHANGED <<setting, process, nextId, queue, mode, session, procs, got, uses>>

Stop ==
    /\ pc = "stop"
    /\ procs' = Stopped(procs) /\ process' = 0
    /\ session' = FALSE /\ pc' = "idle"
    /\ UNCHANGED <<setting, request, nextId, queue, mode, described, got, uses>>

Client == Connect \/ Use \/ Write \/ WriteBlocks \/ BrokenPipe \/ Discard \/ Accept \/ AcceptError \/ TimeOut
          \/ Restart \/ Close \/ Stop

-----------------------------------------------------------------------------
(* The server's processes and the threads that read from them.                 *)

\* A message in another framing is never recognised as one; a newline-delimited server
\* of either dialect can read the other's initialize.
Reads(m) == (m = "framed") = (setting.speaks = "framed")
\* A compat server's reply lacks protocolVersion, a standard server may not mind the
\* envelope of a compat request.
Verdicts(r) == IF r.mode = setting.speaks THEN BOOLEAN
               ELSE IF r.kind = "initialize" /\ r.mode = "compat" THEN BOOLEAN ELSE {FALSE}

ServerTakes(p) ==
    /\ procs[p].alive /\ procs[p].inbox # <<>>
    /\ LET r == Head(procs[p].inbox)
       IN  \/ procs' = [procs EXCEPT ![p].inbox = Tail(@)]
           \/ /\ Reads(r.mode)
              /\ \E ok \in Verdicts(r) :
                    procs' = [procs EXCEPT ![p].inbox = Tail(@),
                              ![p].pipe = Append(@, [id |-> r.id, serial |-> r.serial, ok |-> ok])]
    /\ UNCHANGED <<setting, client>>

\* The server reads on, and the rest of a blocked request gets into its pipe.
ServerDrains == pc = "blocked" /\ procs[process].alive /\ Written

ServerDies(p) ==
    /\ procs[p].alive
    /\ procs' = [procs EXCEPT ![p].alive = FALSE, ![p].inbox = <<>>]
    /\ UNCHANGED <<setting, client>>

\* _reader_loop looks the queue up when it delivers.
Deliver(p) ==
    /\ procs[p].reading /\ procs[p].pipe # <<>>
    /\ procs' = [procs EXCEPT ![p].pipe = Tail(@)]
    /\ queue' = IF procs[p].mine THEN Append(queue, Head(procs[p].pipe)) ELSE queue
    /\ UNCHANGED <<setting, pc, request, process, nextId, mode, session, described, got, uses>>

\* A line that is not JSON ends the thread.
ReaderFails(p) ==
    /\ procs[p].alive /\ procs[p].reading
    /\ procs' = [procs EXCEPT ![p].reading = FALSE]
    /\ UNCHANGED <<setting, client>>

Environment == ServerDrains \/ \E p \in DOMAIN procs : ServerTakes(p) \/ ServerDies(p) \/ Deliver(p) \/ ReaderFails(p)

Next == Client \/ Environment
Spec == Init /\ [][Next]_vars

\* The using thread runs and its timeouts elapse; the server owes nothing, not even
\* to read what it is sent.
Progress == Write \/ WriteBlocks \/ BrokenPipe \/ Discard \/ Accept \/ AcceptError \/ TimeOut \/ Restart \/ Stop
FairSpec == Spec /\ WF_vars(Progress)

-----------------------------------------------------------------------------
(* Properties.                                                                 *)

\* What a call or a discovery returns is the server's answer to that very request, never
\* one to an earlier request that was given up (_wait_for_response, _restart_process).
UseGetsItsAnswer ==
    [][request.kind \in {"list", "call"} /\ got' # got => got' = request.serial]_vars

\* No process of the client outlives its use: whatever still runs is the client's current
\* process, died of itself, or was left by a client that never got initialized
\* (_restart_process, close).
NoProcessForgotten ==
    /\ TypeOK
    /\ \A p \in DOMAIN procs : procs[p].alive => p = process \/ procs[p].left

\* Using a server ends, whatever it answers and whether or not it lives, unless it lives
\* on and never reads what a use is still writing: the write has no timeout
\* (_write_line_json, _wait_for_response).
NeverRead == pc = "blocked" /\ procs[process].alive
UseEnds == (pc # "idle") ~> (pc = "idle" \/ []NeverRead)
=============================================================================
