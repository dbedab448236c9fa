-------------------------- MODULE ToolCallsProofs --------------------------
(***************************************************************************)
(* For any dynamic tools with any declarations, any policy, any number of  *)
(* sessions and subagents: what may have an effect without a host's review *)
(* is an unguarded tool, a web or browser tool, or the work of a session   *)
(* in its worktree; the read-only mode keeps everything but the unguarded  *)
(* tools out; and the limit on tool calls holds.                           *)
(*                                                                         *)
(* The first part is about the decisions alone (Route, Verdict, MayTouch). *)
(* The second carries them through the steps of a call: between the hook   *)
(* and the tool the verdict is remembered only by the position of the loop *)
(* (Admitted), and an action is in the store, and in the copies that two   *)
(* sessions write back over each other, only if it Fits the policy.        *)
(* The third follows the turn and its token (Held): a review that is due   *)
(* takes the turn's wish to go on from it before the next round, and a     *)
(* token stands for its own call in the store and in the copy on its way   *)
(* back to it, whoever else stages, relabels or answers meanwhile.         *)
(***************************************************************************)
EXTENDS ToolCalls, SequenceTheorems, TLAPS

-----------------------------------------------------------------------------
\* The decisions.

\* A call is a tool and an input of it.
LEMMA CallType ==
    ASSUME NEW c \in Call
    PROVE  c[1] \in Tools /\ c[2] \in Inputs(c[1]) /\ c = <<c[1], c[2]>> /\ Meta[c[1]] \in Metadata
  <1>1. PICK t \in Tools : c \in {t} \X Inputs(t)
    BY DEF Call
  <1> QED
    BY <1>1, MetaAssumption

\* A shell tool's input is a kind of command.
LEMMA ShellInput ==
    ASSUME NEW c \in Call, Meta[c[1]].family = "shell"
    PROVE  c[2] \in Commands /\ (c[1] = "stage_test_command" => c[2] = "change")
  BY CallType DEF Inputs, Commands

\* What classify_shell_effect says of each kind.
LEMMA ShellFacts ==
    ASSUME NEW cmd \in Commands
    PROVE  /\ ShellAnalysis(cmd).network => cmd = "fetch"
           /\ cmd = "fetch" => ShellAnalysis(cmd).network
           /\ cmd = "leave" => ShellAnalysis(cmd).external
           /\ cmd = "erase" => ShellAnalysis(cmd).destructive
           /\ cmd \notin {"fetch", "leave", "erase"} =>
                 ShellAnalysis(cmd).risk \in {"inspect", "workspace_mutation"}
  <1>1. CASE cmd = "look"
    BY <1>1 DEF ShellAnalysis, Blank
  <1>2. CASE cmd = "peek"
    BY <1>2 DEF ShellAnalysis, Blank
  <1>3. CASE cmd = "change"
    BY <1>3 DEF ShellAnalysis, Blank
  <1>4. CASE cmd = "fetch"
    BY <1>4 DEF ShellAnalysis, Blank
  <1>5. CASE cmd = "erase"
    BY <1>5 DEF ShellAnalysis, Blank
  <1>6. CASE cmd = "leave"
    BY <1>6 DEF ShellAnalysis, Blank
  <1> QED
    BY <1>1, <1>2, <1>3, <1>4, <1>5, <1>6 DEF Commands

\* What a dynamic call may touch, by its declarations.
LEMMA DynamicTouches ==
    ASSUME NEW s, NEW c \in Call, Dynamic(c[1])
    PROVE  MayTouch(s, c) = (IF Meta[c[1]].non_side_effectful THEN {} ELSE {"workspace"})
                               \union (IF Network(Meta[c[1]]) THEN {"network"} ELSE {})
                               \union (IF External(Meta[c[1]]) THEN {"outside"} ELSE {})
  BY DEF MayTouch, Dynamic, OnTheWeb

\* The analysis of a dynamic call that lets it run directly.
LEMMA QuietTouchesNothing ==
    ASSUME NEW s, NEW c \in Call, Dynamic(c[1]),
           \/ DynamicAnalysis(Meta[c[1]]).quiet
           \/ DynamicAnalysis(Meta[c[1]]).risk \in {"none", "inspect"}
    PROVE  MayTouch(s, c) = {}
  <1> DEFINE m == Meta[c[1]]
  <1>1. m.non_side_effectful /\ ~Network(m) /\ ~External(m)
    BY DEF DynamicAnalysis
  <1> QED
    BY <1>1, DynamicTouches

\* A dynamic call that a worktree admits.
LEMMA DynamicInWorktree ==
    ASSUME NEW s, NEW c \in Call, Dynamic(c[1]), WorktreeAdmits(Meta[c[1]], Analysis(c))
    PROVE  MayTouch(s, c) = {} \/ InIsolation(s, c)
  <1> DEFINE m == Meta[c[1]]
             an == DynamicAnalysis(m)
  <1>1. Analysis(c) = an
    BY DEF Analysis, Dynamic
  <1>2. /\ ~an.network /\ ~an.external
        /\ an.band \in {"unknown", "low"} /\ ~an.safe => m.exact_effect_mode = "required"
    BY <1>1 DEF WorktreeAdmits
  <1>3. CASE an.safe
    <2>1. an.quiet
      BY <1>3 DEF DynamicAnalysis
    <2> QED
      BY <2>1, QuietTouchesNothing
  <1>4. CASE ~an.safe
    <2>1. an.band = "low" /\ ~Network(m) /\ ~External(m)
      BY <1>2, <1>4 DEF DynamicAnalysis
    <2>2. m.exact_effect_mode = "required"
      BY <1>2, <1>4, <2>1
    <2>3. MayTouch(s, c) \in {{}, {"workspace"}}
      BY <2>1, DynamicTouches
    <2> QED
      BY <2>2, <2>3 DEF InIsolation
  <1> QED
    BY <1>3, <1>4

\* Whatever runs as it is called, without being staged.
LEMMA RunIsHarmless ==
    ASSUME NEW s, NEW c \in Call, Route(s, c) = "run"
    PROVE  MayTouch(s, c) = {} \/ MayRunUnreviewed(s, c)
  <1> DEFINE m == Meta[c[1]]
  <1>1. m \in Metadata /\ m.family \in Families /\ c[1] \in Tools
    BY CallType DEF Metadata
  <1>2. CASE m.family \in {"repo", "memory", "subagent", "web", "browser", "host"}
    BY <1>2 DEF MayTouch, MayRunUnreviewed, Unguarded, OnTheWeb, Dynamic
  <1>3. CASE InWorktree(s) /\ TakenOver(c[1])
    <2>1. m.family = "file" \/ WorktreeAdmits(m, Analysis(c))
      BY <1>3 DEF Route, WorktreeRoute
    <2>2. CASE m.family = "file"
      <3>1. MayTouch(s, c) \in {{}, {"worktree"}}
        BY <1>3, <2>2 DEF MayTouch, Dynamic, OnTheWeb
      <3> QED
        BY <1>3, <2>2, <3>1 DEF MayRunUnreviewed, InIsolation
    <2>3. CASE m.family = "shell"
      <3>1. c[1] = "run_shell"
        BY <1>1, <1>3, <2>3, BuiltinAssumption DEF TakenOver, Dynamic
      <3>2. /\ WorktreeAdmits(m, ShellAnalysis(c[2])) /\ c[2] \in Commands
            /\ c[2] \notin {"fetch", "leave", "erase"}
        BY <2>1, <2>3, ShellInput, ShellFacts DEF Analysis, Dynamic, WorktreeAdmits
      <3> QED
        BY <1>3, <3>1, <3>2, ShellFacts DEF MayRunUnreviewed, InIsolation
    <2>4. CASE Dynamic(c[1])
      <3>1. WorktreeAdmits(m, Analysis(c))
        BY <2>1, <2>4 DEF Dynamic
      <3> QED
        BY <1>3, <2>4, <3>1, DynamicInWorktree DEF MayRunUnreviewed
    <2> QED
      BY <1>1, <1>2, <2>2, <2>3, <2>4 DEF Families, Dynamic
  <1>4. CASE ~(InWorktree(s) /\ TakenOver(c[1]))
    <2>1. CASE m.family = "file"
      BY <1>4, <2>1 DEF Route, FileRoute, MayTouch, Dynamic, OnTheWeb
    <2>2. CASE m.family = "shell"
      BY <1>4, <2>2 DEF Route, ShellRoute
    <2>3. CASE Dynamic(c[1])
      <3>1. DynamicRoute(c[1]) = "run"
        BY <1>4, <2>3 DEF Route, Dynamic
      <3>2. DirectEligible(m, DynamicAnalysis(m))
        BY <2>3, <3>1 DEF DynamicRoute, StageOrFail, Dynamic, OnTheWeb
      <3> QED
        BY <2>3, <3>2, QuietTouchesNothing DEF DirectEligible
    <2> QED
      BY <1>1, <1>2, <2>1, <2>2, <2>3 DEF Families, Dynamic
  <1> QED
    BY <1>3, <1>4

\* In the read-only mode, without a rule for the tool, what the evaluation admits
\* has no effect, but for the unguarded tools; of the web tools it knows too little.
LEMMA ReadOnlyAdmits ==
    ASSUME policy.mode = "read-only", NEW s, NEW c \in Call, RuleFor(c[1]) = "none",
           Verdict(c) # "deny", ~OnTheWeb(Meta[c[1]])
    PROVE  \/ MayTouch(s, c) = {}
           \/ Unguarded(c[1]) /\ Meta[c[1]].family \in {"repo", "memory", "subagent"}
  <1> DEFINE m == Meta[c[1]]
             an == Analysis(c)
  <1>1. m \in Metadata /\ m.family \in Families /\ c[1] \in Tools
    BY CallType DEF Metadata
  <1>2. ReadOnlyAllowed(m, an)
    BY DEF Verdict, Evaluate, ModeVerdict
  <1>3. /\ an.risk \in {"none", "inspect"} /\ ~an.network /\ ~an.external
        /\ m.domain # "edit" /\ m.domain # "bash"
    BY <1>2 DEF ReadOnlyAllowed, HighInspect
  <1>4. CASE m.family = "file"
    BY <1>3, <1>4 DEF MayTouch, Dynamic, OnTheWeb
  <1>5. CASE m.family = "shell"
    BY <1>1, <1>3, <1>5, BuiltinAssumption
  <1>6. CASE Dynamic(c[1])
    <2>1. an = DynamicAnalysis(m)
      BY <1>6 DEF Analysis, Dynamic
    <2> QED
      BY <1>3, <1>6, <2>1, QuietTouchesNothing
  <1>7. CASE m.family \in {"repo", "memory", "subagent", "host"}
    BY <1>7 DEF MayTouch, Unguarded, Dynamic, OnTheWeb
  <1> QED
    BY <1>1, <1>4, <1>5, <1>6, <1>7 DEF Families, Dynamic, OnTheWeb

\* The web and browser tools refuse themselves there.
LEMMA ReadOnlyWeb ==
    ASSUME policy.mode = "read-only", NEW s, NEW c \in Call, RuleFor(c[1]) = "none",
           OnTheWeb(Meta[c[1]])
    PROVE  Route(s, c) = "raise"
  <1> DEFINE m == Meta[c[1]]
             an == DynamicAnalysis(m)
  <1>1. c[1] \in Tools /\ ~TakenOver(c[1])
    BY CallType, BuiltinAssumption DEF TakenOver, Dynamic, OnTheWeb
  <1>2. an.network \/ m.domain = "edit"
    BY <1>1, BuiltinAssumption DEF DynamicAnalysis, Network, OnTheWeb
  <1>3. Evaluate(c[1], an) = "deny"
    BY <1>2 DEF Evaluate, ModeVerdict, ReadOnlyAllowed, HighInspect
  <1> QED
    BY <1>1, <1>3 DEF Route, DynamicRoute, OnTheWeb

\* In the read-only mode what runs has no effect, or is unguarded or named by a rule.
LEMMA ReadOnlyRuns ==
    ASSUME policy.mode = "read-only", NEW s, NEW c \in Call, Verdict(c) # "deny", Route(s, c) = "run"
    PROVE  MayTouch(s, c) = {} \/ Unguarded(c[1]) \/ RuleFor(c[1]) # "none"
  BY ReadOnlyAdmits, ReadOnlyWeb

\* What a host is asked about is never the call of an unguarded tool, and a test command
\* is evaluated as the command it makes.
LEMMA ReadOnlyStages ==
    ASSUME policy.mode = "read-only", NEW s, NEW c \in Call, Verdict(c) # "deny", Route(s, c) = "stage",
           NEW u
    PROVE  MayTouch(u, EffectOf(c)) = {} \/ RuleFor(EffectOf(c)[1]) # "none"
  <1>1. CASE c[1] = "stage_test_command"
    <2>1. /\ Meta[c[1]].family = "shell" /\ "run_shell" \in Tools
          /\ EffectOf(c) = <<"run_shell", "change">> /\ c[2] = "change"
      BY <1>1, CallType, BuiltinAssumption, ShellInput DEF EffectOf
    <2>2. ~TakenOver(c[1])
      BY <1>1, <2>1 DEF TakenOver, Dynamic
    <2>3. Evaluate("run_shell", ShellAnalysis("change")) # "deny"
      <3>1. Analysis(c) = ShellAnalysis("change")
        BY <2>1 DEF Analysis, Dynamic
      <3>2. ShellRoute(c) = "stage"
        BY <2>1, <2>2 DEF Route
      <3> QED
        BY <3>1, <3>2 DEF ShellRoute
    <2>4. CASE RuleFor("run_shell") = "none"
      BY <2>3, <2>4 DEF Evaluate, ModeVerdict, ReadOnlyAllowed, HighInspect, ShellAnalysis, Blank
    <2> QED
      BY <2>1, <2>4
  <1>2. CASE c[1] # "stage_test_command"
    <2>1. Meta[c[1]].family \notin {"repo", "memory", "subagent"}
      <3>1. ASSUME Meta[c[1]].family \in {"repo", "memory", "subagent"}
            PROVE  ~TakenOver(c[1])
        BY <3>1, CallType, BuiltinAssumption DEF TakenOver, Dynamic
      <3> QED
        BY <3>1 DEF Route
    <2> QED
      BY <1>2, <2>1, ReadOnlyAdmits, ReadOnlyWeb DEF EffectOf
  <1> QED
    BY <1>1, <1>2

-----------------------------------------------------------------------------
\* The state.

Turn == [pc : pcs, more : BOOLEAN, keep : BOOLEAN, failed : BOOLEAN, retry : BOOLEAN,
         call : Call \union {<<>>}, token : Nat, copy : Actions \union {NoCopy}, told : BOOLEAN]

\* What the read-only mode lets into the store, and what may have run.
Fits(a) ==
    policy.mode = "read-only" =>
        \A u \in DOMAIN profile : MayTouch(u, a.call) = {} \/ RuleFor(a.call[1]) # "none"
Harmless(run) ==
    /\ MayRunUnreviewed(run[1], run[2])
    /\ policy.mode = "read-only" => Unguarded(run[2][1]) \/ RuleFor(run[2][1]) # "none"

Admitted(q) == q.pc = "execute" => q.call \in Call /\ Verdict(q.call) # "deny"
Carries(q) == q.pc \in {"label", "attach"} => q.copy \in Actions /\ Fits(q.copy)

IInv ==
    /\ loop \in [Sessions -> Turn]
    /\ store \in Seq(Actions)
    /\ \A s \in Sessions : Admitted(loop[s]) /\ Carries(loop[s]) /\ loop[s].token <= Len(store)
    /\ \A k \in 1 .. Len(store) : Fits(store[k])
    /\ \A run \in ran : Harmless(run)

\* A step of one session, which the policy does not change under.
LEMMA Moves ==
    ASSUME IInv, NEW s \in Sessions, NEW q \in Turn, loop' = [loop EXCEPT ![s] = q],
           UNCHANGED settings, Admitted(q), Carries(q),
           store' \in Seq(Actions), Len(store') >= Len(store), q.token <= Len(store'),
           \A k \in 1 .. Len(store') : Fits(store'[k]),
           \A run \in ran' : Harmless(run)
    PROVE  IInv'
  <1>1. loop' \in [Sessions -> Turn]
    BY DEF IInv
  <1>2. ASSUME NEW u \in Sessions
        PROVE  Admitted(loop[u])' /\ Carries(loop[u])' /\ loop'[u].token <= Len(store')
    <2>1. loop'[u] = q \/ loop'[u] = loop[u]
      BY DEF IInv
    <2>2. Admitted(loop[u]) /\ Carries(loop[u]) /\ loop[u].token <= Len(store)
      BY DEF IInv
    <2>3. loop[u].token \in Nat /\ Len(store) \in Nat /\ Len(store') \in Nat
      BY DEF IInv, Turn
    <2>4. Admitted(loop[u])'
      BY <2>1, <2>2 DEF Admitted, settings, Verdict, Evaluate, ModeVerdict, RuleFor
    <2>5. Carries(loop[u])'
      BY <2>1, <2>2 DEF Carries, settings, Fits, RuleFor, MayTouch, InWorktree
    <2> QED
      BY <2>1, <2>2, <2>3, <2>4, <2>5
  <1>3. \A k \in 1 .. Len(store') : Fits(store[k])'
    BY DEF Fits, RuleFor, settings, MayTouch, InWorktree
  <1>4. \A run \in ran' : Harmless(run)'
    BY DEF Harmless, RuleFor, settings, MayRunUnreviewed, InIsolation, MayTouch, InWorktree
  <1> QED
    BY <1>1, <1>2, <1>3, <1>4 DEF IInv

\* Most steps leave the store and the history alone.
LEMMA Silent ==
    ASSUME IInv, NEW s \in Sessions, NEW q \in Turn, loop' = [loop EXCEPT ![s] = q],
           UNCHANGED <<settings, store, ran>>, Admitted(q), Carries(q), q.token <= Len(store)
    PROVE  IInv'
  <1>1. /\ store' \in Seq(Actions) /\ Len(store') >= Len(store) /\ q.token <= Len(store')
        /\ \A k \in 1 .. Len(store') : Fits(store'[k])
    BY DEF IInv
  <1>2. \A run \in ran' : Harmless(run)
    BY DEF IInv
  <1> QED
    BY <1>1, <1>2, Moves

\* The turn of an idle session is well typed.
LEMMA IdleType == Idle \in Turn /\ Idle.pc = "idle" /\ Idle.token = 0
  BY DEF Idle, Turn, pcs

\* A call is over.
LEMMA CallOver ==
    ASSUME NEW s \in Sessions, NEW turn \in Turn, Called(s, turn)
    PROVE  \E q \in Turn : /\ loop' = [loop EXCEPT ![s] = q] /\ q.pc = "tools" /\ q.token = 0
                          /\ q.told = turn.told /\ q.keep = turn.keep
  <1>1. PICK more \in BOOLEAN :
            loop' = [loop EXCEPT ![s] = [turn EXCEPT !.pc = "tools", !.more = more, !.call = <<>>,
                                                    !.token = 0, !.copy = NoCopy]]
    BY DEF Called
  <1> DEFINE q == [turn EXCEPT !.pc = "tools", !.more = more, !.call = <<>>, !.token = 0, !.copy = NoCopy]
  <1>2. q.pc = "tools" /\ q.token = 0 /\ q.told = turn.told /\ q.keep = turn.keep
    BY DEF Turn
  <1>3. q \in Turn
    BY DEF Turn, pcs
  <1> QED
    BY <1>1, <1>2, <1>3

\* A call fails.
LEMMA CallFails ==
    ASSUME NEW s \in Sessions, loop[s] \in Turn, NEW retry, Fail(s, retry)
    PROVE  \E q \in Turn : /\ loop' = [loop EXCEPT ![s] = q] /\ q.pc = "tools" /\ q.token = 0
                          /\ q.told = loop[s].told /\ q.keep = loop[s].keep
  <1> DEFINE turn == [loop[s] EXCEPT !.failed = TRUE, !.retry = loop[s].retry \/ retry]
  <1>1. (loop[s].retry \/ retry) \in BOOLEAN
    OBVIOUS
  <1>2. turn \in Turn
    BY <1>1 DEF Turn
  <1>3. Called(s, turn)
    BY DEF Fail
  <1>4. turn.told = loop[s].told /\ turn.keep = loop[s].keep
    BY DEF Turn
  <1> HIDE DEF turn
  <1> QED
    BY <1>2, <1>3, <1>4, CallOver

\* A result is taken in.
LEMMA TurnGoesOn ==
    ASSUME NEW s \in Sessions, loop[s] \in Turn, After(s)
    PROVE  \E q \in Turn : /\ loop' = [loop EXCEPT ![s] = q] /\ q.pc = "tools" /\ q.token = 0
                          /\ ~(q.told /\ q.keep)
  <1> DEFINE told == loop[s].told \/ loop[s].token # 0
             turn == [loop[s] EXCEPT !.keep = loop[s].keep /\ ~told, !.told = told]
  <1>1. told \in BOOLEAN /\ (loop[s].keep /\ ~told) \in BOOLEAN
    OBVIOUS
  <1>2. turn \in Turn
    BY <1>1 DEF Turn
  <1>3. Called(s, turn)
    BY DEF After
  <1>4. ~(turn.told /\ turn.keep)
    BY DEF Turn
  <1> HIDE DEF turn
  <1> QED
    BY <1>2, <1>3, <1>4, CallOver

\* A cancel drops the result.
LEMMA ResultDropped ==
    ASSUME NEW s \in Sessions, loop[s] \in Turn, Drop(s)
    PROVE  \E q \in Turn : loop' = [loop EXCEPT ![s] = q] /\ q.pc = "tools" /\ q.token = 0 /\ ~q.keep
  <1> DEFINE q == [loop[s] EXCEPT !.pc = "tools", !.more = FALSE, !.failed = TRUE, !.keep = FALSE,
                                  !.call = <<>>, !.token = 0]
  <1>1. loop' = [loop EXCEPT ![s] = q] /\ q.pc = "tools" /\ q.token = 0 /\ ~q.keep
    BY DEF Drop, Turn
  <1>2. q \in Turn
    BY DEF Turn, pcs
  <1> QED
    BY <1>1, <1>2

-----------------------------------------------------------------------------
\* Every step keeps the invariant: first those that neither stage nor run a call.
LEMMA QuietSteps ==
    ASSUME IInv, NEW s \in Sessions,
           \/ BeginTurn(s) \/ AskModel(s) \/ UnknownTool(s) \/ HookRaises(s)
           \/ \E c \in Call : Refuse(s, c) \/ HookRejects(s, c) \/ Admit(s, c)
           \/ Unavailable(s) \/ Return(s) \/ LoadAttach(s) \/ RoundEnds(s) \/ Cancel(s)
    PROVE  IInv'
  <1> DEFINE r == loop[s]
             Result(q) == /\ q \in Turn /\ loop' = [loop EXCEPT ![s] = q]
                          /\ Admitted(q) /\ Carries(q) /\ q.token <= Len(store)
  <1>1. UNCHANGED <<settings, store, ran>>
    BY DEF BeginTurn, AskModel, UnknownTool, HookRaises, Refuse, HookRejects, Admit, Unavailable,
           Return, LoadAttach, RoundEnds, Cancel, history
  <1>2. /\ r \in Turn /\ Admitted(r) /\ Carries(r) /\ r.token <= Len(store)
        /\ r.token \in Nat /\ Len(store) \in Nat /\ loop \in [Sessions -> Turn]
    BY DEF IInv, Turn
  <1> SUFFICES \E q : Result(q)
    BY <1>1, Silent
  <1>3. ASSUME NEW q \in Turn, loop' = [loop EXCEPT ![s] = q],
               q.pc \in {"idle", "model", "tools", "return", "filed"}, q.token \in {0, r.token}
        PROVE  \E x : Result(x)
    <2>1. q.token <= Len(store)
      BY <1>2, <1>3
    <2>2. Admitted(q) /\ Carries(q)
      BY <1>3 DEF Admitted, Carries
    <2> QED
      BY <1>3, <2>1, <2>2, Zenon
  <1>4. CASE loop' = [loop EXCEPT ![s] = Idle]
    BY <1>3, <1>4, IdleType
  <1>5. CASE \E turn \in Turn : Called(s, turn)
    BY <1>3, <1>5, CallOver
  <1>6. CASE \E retry : Fail(s, retry)
    BY <1>2, <1>3, <1>6, CallFails
  <1>7. CASE Drop(s)
    BY <1>2, <1>3, <1>7, ResultDropped
  <1>8. CASE BeginTurn(s)
    <2> DEFINE q == [Idle EXCEPT !.pc = "model", !.keep = TRUE]
    <2>1. q \in Turn /\ q.pc = "model" /\ q.token = 0
      BY DEF Idle, Turn, pcs
    <2>2. loop' = [loop EXCEPT ![s] = q]
      BY <1>8 DEF BeginTurn
    <2> QED
      BY <1>3, <2>1, <2>2
  <1>9. CASE AskModel(s)
    <2> DEFINE q == [r EXCEPT !.pc = "tools", !.more = TRUE, !.failed = FALSE, !.retry = FALSE]
    <2>1. q \in Turn /\ q.pc = "tools" /\ q.token = r.token
      BY <1>2 DEF Turn, pcs
    <2>2. loop' = [loop EXCEPT ![s] = q] \/ loop' = [loop EXCEPT ![s] = Idle]
      BY <1>9 DEF AskModel, Leave
    <2> QED
      BY <1>3, <1>4, <2>1, <2>2
  <1>10. CASE UnknownTool(s) \/ HookRaises(s)
    BY <1>4, <1>6, <1>10 DEF UnknownTool, HookRaises
  <1>11. ASSUME NEW c \in Call, Refuse(s, c) \/ HookRejects(s, c)
         PROVE  \E q : Result(q)
    BY <1>6, <1>11 DEF Refuse, HookRejects
  <1>12. ASSUME NEW c \in Call, Admit(s, c)
         PROVE  \E q : Result(q)
    <2> DEFINE q == [r EXCEPT !.pc = "execute", !.call = c]
    <2>1. q \in Turn /\ q.pc = "execute" /\ q.call = c /\ q.token = r.token
      BY <1>2 DEF Turn, pcs
    <2>2. Verdict(c) # "deny"
      BY <1>12 DEF Admit, HookAdmits
    <2>3. CASE loop' = [loop EXCEPT ![s] = q]
      BY <1>2, <2>1, <2>2, <2>3 DEF Admitted, Carries
    <2>4. (\E retry : Fail(s, retry)) \/ Called(s, loop[s]) \/ loop' = [loop EXCEPT ![s] = q]
      BY <1>12 DEF Admit
    <2> QED
      BY <1>2, <1>5, <1>6, <2>3, <2>4
  <1>13. CASE Unavailable(s)
    <2> DEFINE q == [r EXCEPT !.pc = "return", !.told = TRUE]
    <2>1. q \in Turn /\ q.pc = "return" /\ q.token = r.token
      BY <1>2 DEF Turn, pcs
    <2>2. loop' = [loop EXCEPT ![s] = q]
      BY <1>13 DEF Unavailable
    <2> QED
      BY <1>3, <2>1, <2>2
  <1>14. CASE Return(s)
    <2>1. CASE loop' = [loop EXCEPT ![s] = [r EXCEPT !.pc = "filed"]]
      <3>1. [r EXCEPT !.pc = "filed"] \in Turn /\ [r EXCEPT !.pc = "filed"].pc = "filed"
            /\ [r EXCEPT !.pc = "filed"].token = r.token
        BY <1>2 DEF Turn, pcs
      <3> QED
        BY <1>3, <2>1, <3>1
    <2>2. CASE r.token # 0 /\ loop' = [loop EXCEPT ![s] = [r EXCEPT !.pc = "label", !.copy = store[r.token]]]
      <3> DEFINE q == [r EXCEPT !.pc = "label", !.copy = store[r.token]]
      <3>1. store[r.token] \in Actions /\ Fits(store[r.token])
        BY <1>2, <2>2 DEF IInv
      <3>2. q.pc = "label" /\ q.copy = store[r.token] /\ q.token = r.token
        BY <1>2 DEF Turn
      <3>3. q \in Turn
        BY <1>2, <3>1 DEF Turn, pcs
      <3> QED
        BY <1>2, <2>2, <3>1, <3>2, <3>3 DEF Admitted, Carries
    <2> QED
      BY <1>7, <1>14, <2>1, <2>2 DEF Return
  <1>15. CASE LoadAttach(s)
    <2>1. CASE After(s)
      BY <1>2, <1>3, <2>1, TurnGoesOn
    <2>2. CASE r.token # 0 /\ loop' = [loop EXCEPT ![s] = [r EXCEPT !.pc = "attach", !.copy = store[r.token]]]
      <3> DEFINE q == [r EXCEPT !.pc = "attach", !.copy = store[r.token]]
      <3>1. store[r.token] \in Actions /\ Fits(store[r.token])
        BY <1>2, <2>2 DEF IInv
      <3>2. q.pc = "attach" /\ q.copy = store[r.token] /\ q.token = r.token
        BY <1>2 DEF Turn
      <3>3. q \in Turn
        BY <1>2, <3>1 DEF Turn, pcs
      <3> QED
        BY <1>2, <2>2, <3>1, <3>2, <3>3 DEF Admitted, Carries
    <2> QED
      BY <1>7, <1>15, <2>1, <2>2 DEF LoadAttach
  <1>16. CASE RoundEnds(s)
    <2>1. [r EXCEPT !.pc = "model"] \in Turn /\ [r EXCEPT !.pc = "model"].pc = "model"
          /\ [r EXCEPT !.pc = "model"].token = r.token
      BY <1>2 DEF Turn, pcs
    <2>2. loop' = [loop EXCEPT ![s] = [r EXCEPT !.pc = "model"]] \/ loop' = [loop EXCEPT ![s] = Idle]
      BY <1>16 DEF RoundEnds, Move, Leave
    <2> QED
      BY <1>3, <1>4, <2>1, <2>2
  <1>17. CASE Cancel(s)
    <2>1. loop' = [loop EXCEPT ![s] = r]
      BY <1>2, <1>17 DEF Cancel
    <2> QED
      BY <1>2, <2>1
  <1> QED
    BY <1>8, <1>9, <1>10, <1>11, <1>12, <1>13, <1>14, <1>15, <1>16, <1>17

\* Then those that run a call, stage it, or file its action.
LEMMA Effects ==
    ASSUME IInv, NEW s \in Sessions, Raise(s) \/ Run(s)
    PROVE  IInv'
  <1> DEFINE c == loop[s].call
  <1>1. /\ loop[s] \in Turn /\ loop[s].token \in Nat /\ loop[s].token <= Len(store)
        /\ c \in Call /\ Verdict(c) # "deny" /\ Len(store) \in Nat
    BY DEF IInv, Turn, Admitted, Raise, Run, At
  <1>2. UNCHANGED <<settings, store>>
    BY DEF Raise, Run
  <1>3. \A run \in ran' : Harmless(run)
    <2>1. ran' = ran \/ (Route(s, c) = "run" /\ MayTouch(s, c) # {} /\ ran' = ran \union {<<s, c>>})
      BY DEF Raise, Run, Effected
    <2>2. CASE Route(s, c) = "run" /\ MayTouch(s, c) # {}
      <3>1. Harmless(<<s, c>>)
        BY <1>1, <2>2, RunIsHarmless, ReadOnlyRuns DEF Harmless
      <3> QED
        BY <2>1, <3>1 DEF IInv
    <2> QED
      BY <2>1, <2>2 DEF IInv
  <1>4. \E q \in Turn : loop' = [loop EXCEPT ![s] = q] /\ q.pc \in {"tools", "return"}
                       /\ q.token \in {0, loop[s].token}
    <2>1. CASE Raise(s)
      BY <1>1, <2>1, CallFails DEF Raise
    <2>2. CASE Run(s)
      <3>1. PICK told \in BOOLEAN : loop' = [loop EXCEPT ![s] = [@ EXCEPT !.pc = "return", !.told = told]]
        BY <2>2 DEF Run
      <3> DEFINE q == [loop[s] EXCEPT !.pc = "return", !.told = told]
      <3>2. q \in Turn /\ q.pc = "return" /\ q.token = loop[s].token
        BY <1>1 DEF Turn, pcs
      <3> QED
        BY <3>1, <3>2
    <2> QED
      BY <2>1, <2>2
  <1>5. PICK q \in Turn : loop' = [loop EXCEPT ![s] = q] /\ q.pc \in {"tools", "return"}
                         /\ q.token \in {0, loop[s].token}
    BY <1>4
  <1>6. Admitted(q) /\ Carries(q) /\ q.token <= Len(store)
    BY <1>1, <1>5 DEF Admitted, Carries
  <1>7. /\ store' \in Seq(Actions) /\ Len(store') >= Len(store) /\ q.token <= Len(store')
        /\ \A k \in 1 .. Len(store') : Fits(store'[k])
    BY <1>1, <1>2, <1>6 DEF IInv
  <1> QED
    BY <1>2, <1>3, <1>5, <1>6, <1>7, Moves

\* What the store is after an action was added, and after one was written back.
LEMMA Added ==
    ASSUME store \in Seq(Actions), \A k \in 1 .. Len(store) : Fits(store[k]),
           NEW a \in Actions, Fits(a), store' = Append(store, a)
    PROVE  /\ store' \in Seq(Actions) /\ Len(store') = Len(store) + 1
           /\ \A k \in 1 .. Len(store') : Fits(store'[k])
  <1>1. store' \in Seq(Actions) /\ Len(store') = Len(store) + 1
    OBVIOUS
  <1>2. ASSUME NEW k \in 1 .. Len(store')
        PROVE  Fits(store'[k])
    <2>1. CASE k = Len(store) + 1
      <3>1. store'[k] = a
        BY <2>1
      <3> QED
        BY <3>1
    <2>2. CASE k # Len(store) + 1
      <3>1. k \in 1 .. Len(store) /\ store'[k] = store[k]
        BY <1>1, <1>2, <2>2
      <3> QED
        BY <3>1
    <2> QED
      BY <2>1, <2>2
  <1> QED
    BY <1>1, <1>2

\* An action is written back over its slot.
LEMMA WrittenBack ==
    ASSUME store \in Seq(Actions), \A k \in 1 .. Len(store) : Fits(store[k]),
           NEW a \in Actions, Fits(a), NEW i \in Nat, store' = [store EXCEPT ![i] = a]
    PROVE  /\ store' \in Seq(Actions) /\ Len(store') = Len(store)
           /\ \A k \in 1 .. Len(store') : Fits(store'[k])
  <1>1. CASE i \in 1 .. Len(store)
    <2>1. /\ store' \in Seq(Actions) /\ Len(store') = Len(store)
          /\ \A k \in 1 .. Len(store) : store'[k] = IF k = i THEN a ELSE store[k]
      BY <1>1, ExceptSeq
    <2>2. ASSUME NEW k \in 1 .. Len(store')
          PROVE  Fits(store'[k])
      <3>1. k \in 1 .. Len(store) /\ store'[k] = IF k = i THEN a ELSE store[k]
        BY <2>1, <2>2
      <3> QED
        BY <3>1
    <2> QED
      BY <2>1, <2>2
  <1>2. CASE i \notin 1 .. Len(store)
    <2>1. DOMAIN store = 1 .. Len(store) /\ store = [k \in DOMAIN store |-> store[k]]
      OBVIOUS
    <2>2. store' = store
      BY <1>2, <2>1
    <2> QED
      BY <2>2
  <1> QED
    BY <1>1, <1>2

\* Staging and the two write-backs put only fitting actions into the store.
LEMMA Filings ==
    ASSUME IInv, NEW s \in Sessions, Stage(s) \/ SaveScope(s) \/ SaveAttach(s)
    PROVE  IInv'
  <1> DEFINE r == loop[s]
  <1>1. /\ r \in Turn /\ Admitted(r) /\ Carries(r) /\ r.token <= Len(store)
        /\ r.token \in Nat /\ Len(store) \in Nat /\ loop \in [Sessions -> Turn]
        /\ store \in Seq(Actions) /\ \A k \in 1 .. Len(store) : Fits(store[k])
    BY DEF IInv, Turn
  <1>2. UNCHANGED settings /\ \A run \in ran' : Harmless(run)
    BY DEF Stage, SaveScope, SaveAttach, history, IInv
  <1> SUFFICES \E q \in Turn : /\ loop' = [loop EXCEPT ![s] = q]
                               /\ q.pc \notin {"execute", "label", "attach"} /\ q.token <= Len(store')
                               /\ store' \in Seq(Actions) /\ Len(store') >= Len(store)
                               /\ \A k \in 1 .. Len(store') : Fits(store'[k])
    BY <1>2, Moves DEF Admitted, Carries
  <1>3. CASE Stage(s)
    <2> DEFINE c == r.call
               new == [call |-> EffectOf(c), session |-> StagedFor(s, c), traced |-> FALSE, state |-> "active"]
    <2>1. c \in Call /\ Verdict(c) # "deny" /\ Route(s, c) = "stage"
      BY <1>1, <1>3 DEF Stage, At, Admitted
    <2>2. new \in Actions
      BY <2>1 DEF Actions, StagedFor, Owner
    <2>3. Fits(new)
      BY <2>1, ReadOnlyStages DEF Fits
    <2>4. CASE ActiveMatches(s, c) # {}
      <3>1. store' = store
        BY <1>3, <2>4 DEF Stage
      <3>2. PICK k \in ActiveMatches(s, c) : loop' = [loop EXCEPT ![s] = [@ EXCEPT !.pc = "return", !.token = k]]
        BY <1>3, <2>4 DEF Stage
      <3>3. k \in 1 .. Len(store) /\ k \in Nat
        BY <1>1, <3>2 DEF ActiveMatches
      <3> DEFINE q == [r EXCEPT !.pc = "return", !.token = k]
      <3>4. q \in Turn /\ q.pc = "return" /\ q.token = k
        <4> HIDE DEF r, c, new
        <4> QED
          BY <1>1, <3>3 DEF Turn, pcs
      <3>5. loop' = [loop EXCEPT ![s] = q]
        BY <3>2
      <3> HIDE DEF q, r
      <3>6. q.pc \notin {"execute", "label", "attach"} /\ q.token <= Len(store') /\ Len(store') >= Len(store)
        BY <1>1, <3>1, <3>3, <3>4
      <3> QED
        BY <1>1, <3>1, <3>4, <3>5, <3>6
    <2>5. CASE ActiveMatches(s, c) = {}
      <3>1. store' = Append(store, new)
        BY <1>3, <2>5 DEF Stage
      <3>2. loop' = [loop EXCEPT ![s] = [@ EXCEPT !.pc = "return", !.token = Len(store) + 1]]
        BY <1>3, <2>5 DEF Stage
      <3> DEFINE q == [r EXCEPT !.pc = "return", !.token = Len(store) + 1]
      <3>3. Len(store) + 1 \in Nat
        BY <1>1
      <3>4. q \in Turn /\ q.pc = "return" /\ q.token = Len(store) + 1
        BY <1>1, <3>3 DEF Turn, pcs
      <3>5. loop' = [loop EXCEPT ![s] = q]
        BY <3>2
      <3> HIDE DEF q, r, new
      <3>6. /\ store' \in Seq(Actions) /\ Len(store') = Len(store) + 1
            /\ \A k \in 1 .. Len(store') : Fits(store'[k])
        BY <1>1, <2>2, <2>3, <3>1, Added
      <3>7. q.pc \notin {"execute", "label", "attach"} /\ q.token <= Len(store') /\ Len(store') >= Len(store)
        BY <1>1, <3>4, <3>6
      <3> QED
        BY <3>4, <3>5, <3>6, <3>7
    <2> QED
      BY <2>4, <2>5
  <1>4. CASE SaveScope(s)
    <2> DEFINE mine == [r.copy EXCEPT !.session = s, !.traced = TRUE]
    <2>1. r.copy \in Actions /\ Fits(r.copy)
      BY <1>1, <1>4 DEF SaveScope, At, Carries
    <2>2. mine \in Actions /\ mine.call = r.copy.call
      BY <2>1 DEF Actions
    <2>3. Fits(mine)
      BY <2>1, <2>2 DEF Fits
    <2> HIDE DEF mine
    <2>4. CASE /\ store' \in {store, [store EXCEPT ![r.token] = mine]}
               /\ loop' = [loop EXCEPT ![s] = [@ EXCEPT !.pc = "filed", !.copy = NoCopy]]
      <3> DEFINE q == [r EXCEPT !.pc = "filed", !.copy = NoCopy]
      <3>1. q \in Turn /\ q.pc = "filed" /\ q.token = r.token
        BY <1>1 DEF Turn, pcs
      <3>2. loop' = [loop EXCEPT ![s] = q]
        BY <2>4
      <3> HIDE DEF q, r
      <3>3. /\ store' \in Seq(Actions) /\ Len(store') = Len(store)
            /\ \A k \in 1 .. Len(store') : Fits(store'[k])
        <4>1. CASE store' = store
          BY <1>1, <4>1
        <4>2. CASE store' = [store EXCEPT ![r.token] = mine]
          BY <1>1, <2>2, <2>3, <4>2, WrittenBack
        <4> QED
          BY <2>4, <4>1, <4>2
      <3>4. q.pc \notin {"execute", "label", "attach"} /\ q.token <= Len(store') /\ Len(store') >= Len(store)
        BY <1>1, <3>1, <3>3
      <3> QED
        BY <3>1, <3>2, <3>3, <3>4
    <2>5. CASE /\ store' = Append(store, mine)
               /\ loop' = [loop EXCEPT ![s] =
                             [@ EXCEPT !.pc = "filed", !.copy = NoCopy, !.token = Len(store) + 1]]
      <3> DEFINE q == [r EXCEPT !.pc = "filed", !.copy = NoCopy, !.token = Len(store) + 1]
      <3>1. Len(store) + 1 \in Nat
        BY <1>1
      <3>2. q \in Turn /\ q.pc = "filed" /\ q.token = Len(store) + 1
        BY <1>1, <3>1 DEF Turn, pcs, NoCopy
      <3>3. loop' = [loop EXCEPT ![s] = q]
        BY <2>5
      <3> HIDE DEF q, r
      <3>4. /\ store' \in Seq(Actions) /\ Len(store') = Len(store) + 1
            /\ \A k \in 1 .. Len(store') : Fits(store'[k])
        BY <1>1, <2>2, <2>3, <2>5, Added
      <3>5. q.pc \notin {"execute", "label", "attach"} /\ q.token <= Len(store') /\ Len(store') >= Len(store)
        BY <1>1, <3>2, <3>4
      <3> QED
        BY <3>2, <3>3, <3>4, <3>5
    <2> QED
      BY <1>4, <2>4, <2>5 DEF SaveScope, mine
  <1>5. CASE SaveAttach(s)
    <2>1. r.copy \in Actions /\ Fits(r.copy)
      BY <1>1, <1>5 DEF SaveAttach, At, Carries
    <2>2. store' = [store EXCEPT ![r.token] = r.copy]
      BY <1>5 DEF SaveAttach
    <2>3. PICK q \in Turn : loop' = [loop EXCEPT ![s] = q] /\ q.pc = "tools" /\ q.token = 0
      BY <1>1, <1>5, TurnGoesOn DEF SaveAttach
    <2>4. /\ store' \in Seq(Actions) /\ Len(store') = Len(store)
          /\ \A k \in 1 .. Len(store') : Fits(store'[k])
      BY <1>1, <2>1, <2>2, WrittenBack
    <2>5. q.pc \notin {"execute", "label", "attach"} /\ q.token <= Len(store') /\ Len(store') >= Len(store)
      BY <1>1, <2>3, <2>4
    <2> QED
      BY <2>3, <2>4, <2>5
  <1> QED
    BY <1>3, <1>4, <1>5

\* The host answers an action: the call it is about stays the same.
LEMMA Answered ==
    ASSUME IInv, NEW k \in 1 .. Len(store), Resolve(k)
    PROVE  IInv'
  <1> DEFINE a == [store[k] EXCEPT !.state = "resolved"]
  <1>1. store \in Seq(Actions) /\ \A i \in 1 .. Len(store) : Fits(store[i])
    BY DEF IInv
  <1>2. store[k] \in Actions /\ Fits(store[k]) /\ k \in Nat
    BY <1>1
  <1>3. a \in Actions /\ a.call = store[k].call
    BY <1>2 DEF Actions
  <1>4. Fits(a)
    BY <1>2, <1>3 DEF Fits
  <1>5. store' = [store EXCEPT ![k] = a]
    BY DEF Resolve
  <1> HIDE DEF a
  <1>6. /\ store' \in Seq(Actions) /\ Len(store') = Len(store)
        /\ \A i \in 1 .. Len(store') : Fits(store'[i])
    BY <1>1, <1>2, <1>3, <1>4, <1>5, WrittenBack
  <1>7. UNCHANGED <<settings, loop, ran>>
    BY DEF Resolve, history
  <1>8. ASSUME NEW u \in Sessions
        PROVE  Admitted(loop[u])' /\ Carries(loop[u])' /\ loop'[u].token <= Len(store')
    <2>1. Admitted(loop[u]) /\ Carries(loop[u]) /\ loop[u].token <= Len(store)
      BY DEF IInv
    <2>2. Admitted(loop[u])'
      BY <1>7, <2>1 DEF Admitted, settings, Verdict, Evaluate, ModeVerdict, RuleFor
    <2>3. Carries(loop[u])'
      BY <1>7, <2>1 DEF Carries, settings, Fits, RuleFor, MayTouch, InWorktree
    <2> QED
      BY <1>6, <1>7, <2>1, <2>2, <2>3
  <1>9. \A i \in 1 .. Len(store') : Fits(store[i])'
    BY <1>6, <1>7 DEF Fits, RuleFor, settings, MayTouch, InWorktree
  <1>10. \A run \in ran' : Harmless(run)'
    <2>1. \A run \in ran' : Harmless(run)
      BY <1>7 DEF IInv
    <2> QED
      BY <1>7, <2>1 DEF Harmless, RuleFor, settings, MayRunUnreviewed, InIsolation, MayTouch, InWorktree
  <1>11. loop' \in [Sessions -> Turn]
    BY <1>7 DEF IInv
  <1> QED
    BY <1>6, <1>8, <1>9, <1>10, <1>11 DEF IInv

\* Nothing changes at all.
LEMMA Stutters ==
    ASSUME IInv, UNCHANGED vars
    PROVE  IInv'
  <1>1. UNCHANGED <<settings, loop, store, ran>>
    BY DEF vars, history
  <1>2. ASSUME NEW u \in Sessions
        PROVE  Admitted(loop[u])' /\ Carries(loop[u])' /\ loop'[u].token <= Len(store')
    <2>1. Admitted(loop[u]) /\ Carries(loop[u]) /\ loop[u].token <= Len(store)
      BY DEF IInv
    <2>2. Admitted(loop[u])'
      BY <1>1, <2>1 DEF Admitted, settings, Verdict, Evaluate, ModeVerdict, RuleFor
    <2>3. Carries(loop[u])'
      BY <1>1, <2>1 DEF Carries, settings, Fits, RuleFor, MayTouch, InWorktree
    <2> QED
      BY <1>1, <2>1, <2>2, <2>3
  <1>3. \A i \in 1 .. Len(store') : Fits(store[i])'
    BY <1>1 DEF IInv, Fits, RuleFor, settings, MayTouch, InWorktree
  <1>4. \A run \in ran' : Harmless(run)'
    <2>1. \A run \in ran' : Harmless(run)
      BY <1>1 DEF IInv
    <2> QED
      BY <1>1, <2>1 DEF Harmless, RuleFor, settings, MayRunUnreviewed, InIsolation, MayTouch, InWorktree
  <1>5. loop' \in [Sessions -> Turn] /\ store' \in Seq(Actions)
    BY <1>1 DEF IInv
  <1> QED
    BY <1>2, <1>3, <1>4, <1>5 DEF IInv

\* The invariant holds of an empty store.
LEMMA Starts == Init => IInv
  <1> SUFFICES ASSUME Init
               PROVE  IInv
    OBVIOUS
  <1>1. loop = [s \in Sessions |-> Idle] /\ store = <<>> /\ ran = {}
    BY DEF Init
  <1>2. ASSUME NEW s \in Sessions
        PROVE  Admitted(loop[s]) /\ Carries(loop[s]) /\ loop[s].token <= Len(store)
    <2>1. loop[s].pc = "idle" /\ loop[s].token = 0
      BY <1>1, IdleType
    <2>2. Len(store) = 0
      BY <1>1
    <2> QED
      BY <2>1, <2>2 DEF Admitted, Carries
  <1>3. loop \in [Sessions -> Turn]
    BY <1>1, IdleType
  <1>4. store \in Seq(Actions) /\ \A k \in 1 .. Len(store) : Fits(store[k])
    BY <1>1
  <1> QED
    BY <1>1, <1>2, <1>3, <1>4 DEF IInv

\* Every step keeps the invariant.
LEMMA Stays == IInv /\ [Next]_vars => IInv'
  <1> SUFFICES ASSUME IInv, [Next]_vars
               PROVE  IInv'
    OBVIOUS
  <1>1. CASE \E s \in Sessions :
                \/ BeginTurn(s) \/ AskModel(s) \/ UnknownTool(s) \/ HookRaises(s)
                \/ \E c \in Call : Refuse(s, c) \/ HookRejects(s, c) \/ Admit(s, c)
                \/ Unavailable(s) \/ Return(s) \/ LoadAttach(s) \/ RoundEnds(s) \/ Cancel(s)
    BY <1>1, QuietSteps
  <1>2. CASE \E s \in Sessions : Raise(s) \/ Run(s)
    BY <1>2, Effects
  <1>3. CASE \E s \in Sessions : Stage(s) \/ SaveScope(s) \/ SaveAttach(s)
    BY <1>3, Filings
  <1>4. CASE \E k \in 1 .. Len(store) : Resolve(k)
    BY <1>4, Answered
  <1>5. CASE UNCHANGED vars
    BY <1>5, Stutters
  <1> QED
    BY <1>1, <1>2, <1>3, <1>4, <1>5 DEF Next

\* What may have an effect without a review is an unguarded tool, a web or browser tool
\* or the work of a session in its worktree, and in the read-only mode nothing with an
\* effect is put to a host or run, but for the unguarded tools and those a rule names.
THEOREM Reviewed == Spec => []NothingUnreviewed
  <1>1. IInv => NothingUnreviewed
    <2> SUFFICES ASSUME IInv
                 PROVE  NothingUnreviewed
      OBVIOUS
    <2>1. \A run \in ran : Harmless(run)
      BY DEF IInv
    <2>2. \A k \in 1 .. Len(store) : Fits(store[k])
      BY DEF IInv
    <2> QED
      BY <2>1, <2>2 DEF Harmless, Fits, NothingUnreviewed
  <1> QED
    BY <1>1, Starts, Stays, PTL DEF Spec

-----------------------------------------------------------------------------
\* The limit.  A call is counted when it returns or raises, after it was let through:
\* what bounds the calls is that one counted call is missing while one is in its tool.

InTool(s) == loop[s].pc \in {"execute", "return"}
Tally(s) == made[s] = counter[s] + (IF InTool(s) THEN 1 ELSE 0) /\ made[s] <= MaxToolCalls
BInv ==
    /\ loop \in [Sessions -> Turn]
    /\ counter \in [Sessions -> Nat] /\ made \in [Sessions -> Nat] /\ limited \subseteq Sessions
    /\ \A s \in limited : Tally(s)

\* A call is let through, returns, or neither.
LetThrough(s) == /\ ~InTool(s) /\ InTool(s)' /\ (s \in limited => counter[s] < MaxToolCalls)
                 /\ made' = [made EXCEPT ![s] = made[s] + 1] /\ UNCHANGED counter
Returned(s) == InTool(s) /\ ~InTool(s)' /\ Count(s) /\ UNCHANGED made
Neither(s) == InTool(s)' = InTool(s) /\ UNCHANGED <<counter, made>>

\* A step that lets a call through, counts one, or neither, keeps the tally.
LEMMA Tallied ==
    ASSUME BInv, NEW s \in Sessions, UNCHANGED limited, loop' \in [Sessions -> Turn],
           \A u \in Sessions \ {s} : loop'[u] = loop[u],
           LetThrough(s) \/ Returned(s) \/ Neither(s)
    PROVE  BInv'
  <1>1. MaxToolCalls \in Nat
    BY BoundsAssumption
  <1>2. counter' \in [Sessions -> Nat] /\ made' \in [Sessions -> Nat]
    <2>1. counter \in [Sessions -> Nat] /\ made \in [Sessions -> Nat]
      BY DEF BInv
    <2>2. counter[s] + 1 \in Nat /\ made[s] + 1 \in Nat
      BY <2>1
    <2> QED
      BY <2>1, <2>2 DEF LetThrough, Returned, Neither, Count
  <1>3. ASSUME NEW u \in limited
        PROVE  Tally(u)'
    <2>1. u \in Sessions /\ Tally(u) /\ counter[u] \in Nat /\ made[u] \in Nat
      BY DEF BInv
    <2>2. CASE u # s
      <3>1. InTool(u)' = InTool(u) /\ counter'[u] = counter[u] /\ made'[u] = made[u]
        BY <2>1, <2>2 DEF InTool, LetThrough, Returned, Neither, Count, BInv
      <3> QED
        BY <2>1, <3>1 DEF Tally
    <2>3. CASE u = s /\ LetThrough(s)
      <3>1. made'[u] = made[u] + 1 /\ counter'[u] = counter[u] /\ counter[u] < MaxToolCalls
        BY <2>1, <2>3 DEF LetThrough, BInv
      <3>2. ~InTool(u) /\ InTool(u)'
        BY <2>3 DEF LetThrough
      <3>3. made[u] = counter[u]
        BY <2>1, <3>2 DEF Tally
      <3>4. made'[u] = counter'[u] + 1 /\ made'[u] <= MaxToolCalls
        BY <1>1, <2>1, <3>1, <3>3
      <3> QED
        BY <3>2, <3>4 DEF Tally
    <2>4. CASE u = s /\ Returned(s)
      <3>1. made'[u] = made[u] /\ counter'[u] = counter[u] + 1
        BY <2>1, <2>4 DEF Returned, Count, BInv
      <3>2. InTool(u) /\ ~InTool(u)'
        BY <2>4 DEF Returned
      <3>3. made[u] = counter[u] + 1 /\ made[u] <= MaxToolCalls
        BY <2>1, <3>2 DEF Tally
      <3>4. made'[u] = counter'[u] + 0 /\ made'[u] <= MaxToolCalls
        BY <2>1, <3>1, <3>3
      <3> QED
        BY <3>2, <3>4 DEF Tally
    <2>5. CASE u = s /\ Neither(s)
      BY <2>1, <2>5 DEF Tally, Neither
    <2> QED
      BY <2>2, <2>3, <2>4, <2>5
  <1> QED
    BY <1>2, <1>3 DEF BInv

\* Every step of a session is one of the three.
LEMMA Counts ==
    ASSUME BInv, IInv', NEW s \in Sessions,
           \/ BeginTurn(s) \/ AskModel(s) \/ UnknownTool(s) \/ HookRaises(s)
           \/ \E c \in Call : Refuse(s, c) \/ HookRejects(s, c) \/ Admit(s, c)
           \/ Raise(s) \/ Run(s) \/ Stage(s) \/ Unavailable(s) \/ Return(s)
           \/ SaveScope(s) \/ LoadAttach(s) \/ SaveAttach(s)
           \/ RoundEnds(s) \/ Cancel(s)
    PROVE  BInv'
  <1>1. loop \in [Sessions -> Turn] /\ loop[s] \in Turn /\ loop' \in [Sessions -> Turn]
    BY DEF BInv, IInv
  <1> SUFFICES /\ UNCHANGED limited /\ \A u \in Sessions \ {s} : loop'[u] = loop[u]
               /\ LetThrough(s) \/ Returned(s) \/ Neither(s)
    BY <1>1, Tallied
  <1>2. ASSUME NEW q, loop' = [loop EXCEPT ![s] = q]
        PROVE  loop'[s] = q /\ \A u \in Sessions \ {s} : loop'[u] = loop[u]
    BY <1>1, <1>2
  <1>3. CASE BeginTurn(s)
    <2>1. loop' = [loop EXCEPT ![s] = [Idle EXCEPT !.pc = "model", !.keep = TRUE]] /\ loop[s].pc = "idle"
      BY <1>3 DEF BeginTurn, At
    <2>2. loop'[s].pc = "model"
      BY <1>2, <2>1 DEF Idle
    <2> QED
      BY <1>2, <1>3, <2>1, <2>2 DEF BeginTurn, Neither, InTool, settings, history
  <1>4. CASE AskModel(s)
    <2>1. loop[s].pc = "model" /\ UNCHANGED <<limited, counter, made>>
      BY <1>4 DEF AskModel, At, settings, history
    <2>2. CASE Leave(s)
      <3>1. loop'[s].pc = "idle"
        BY <1>2, <2>2, IdleType DEF Leave
      <3> QED
        BY <1>2, <2>1, <2>2, <3>1 DEF Leave, Neither, InTool
    <2>3. CASE loop' = [loop EXCEPT ![s] = [@ EXCEPT !.pc = "tools", !.more = TRUE, !.failed = FALSE, !.retry = FALSE]]
      <3>1. loop'[s].pc = "tools"
        BY <1>1, <1>2, <2>3 DEF Turn
      <3> QED
        BY <1>2, <2>1, <2>3, <3>1 DEF Neither, InTool
    <2> QED
      BY <1>4, <2>2, <2>3 DEF AskModel
  <1>5. ASSUME UnknownTool(s) \/ \E c \in Call : Refuse(s, c) \/ HookRejects(s, c)
        PROVE  UNCHANGED limited /\ Neither(s) /\ \A u \in Sessions \ {s} : loop'[u] = loop[u]
    <2>1. loop[s].pc = "tools" /\ UNCHANGED <<limited, counter, made>> /\ \E retry : Fail(s, retry)
      BY <1>5 DEF UnknownTool, Refuse, HookRejects, Calling, At, settings, history
    <2>2. PICK q \in Turn : loop' = [loop EXCEPT ![s] = q] /\ q.pc = "tools"
      BY <1>1, <2>1, CallFails
    <2> QED
      BY <1>2, <2>1, <2>2 DEF Neither, InTool
  <1>6. CASE HookRaises(s)
    <2>1. loop' = [loop EXCEPT ![s] = Idle] /\ loop[s].pc = "tools" /\ UNCHANGED <<limited, counter, made>>
      BY <1>6 DEF HookRaises, Calling, At, settings, history
    <2> QED
      BY <1>2, <2>1, IdleType DEF Neither, InTool
  <1>7. ASSUME NEW c \in Call, Admit(s, c)
        PROVE  /\ UNCHANGED limited /\ \A u \in Sessions \ {s} : loop'[u] = loop[u]
               /\ LetThrough(s) \/ Neither(s)
    <2>1. loop[s].pc = "tools" /\ UNCHANGED <<limited, counter>>
      BY <1>7 DEF Admit, Calling, At, settings
    <2>2. CASE UNCHANGED made /\ Fail(s, c[1] \in CodingTools)
      <3>1. PICK q \in Turn : loop' = [loop EXCEPT ![s] = q] /\ q.pc = "tools"
        BY <1>1, <2>2, CallFails
      <3> QED
        BY <1>2, <2>1, <2>2, <3>1 DEF Neither, InTool
    <2>3. CASE UNCHANGED made /\ Called(s, loop[s])
      <3>1. PICK q \in Turn : loop' = [loop EXCEPT ![s] = q] /\ q.pc = "tools"
        BY <1>1, <2>3, CallOver
      <3> QED
        BY <1>2, <2>1, <2>3, <3>1 DEF Neither, InTool
    <2>4. CASE /\ ~Blocked(s)
               /\ loop' = [loop EXCEPT ![s] = [@ EXCEPT !.pc = "execute", !.call = c]]
               /\ made' = [made EXCEPT ![s] = @ + 1]
      <3>1. loop'[s].pc = "execute"
        BY <1>1, <1>2, <2>4 DEF Turn
      <3>2. s \in limited => counter[s] < MaxToolCalls
        <4>1. counter[s] \in Nat /\ MaxToolCalls \in Nat
          BY BoundsAssumption DEF BInv
        <4> QED
          BY <2>4, <4>1 DEF Blocked
      <3> QED
        BY <1>2, <2>1, <2>4, <3>1, <3>2 DEF LetThrough, InTool
    <2> QED
      BY <1>7, <2>2, <2>3, <2>4 DEF Admit
  <1>8. CASE Raise(s)
    <2>1. loop[s].pc = "execute" /\ UNCHANGED <<limited, made>> /\ Count(s)
      BY <1>8 DEF Raise, At, settings
    <2>2. PICK q \in Turn : loop' = [loop EXCEPT ![s] = q] /\ q.pc = "tools"
      BY <1>1, <1>8, CallFails DEF Raise
    <2> QED
      BY <1>2, <2>1, <2>2 DEF Returned, InTool
  <1>9. ASSUME Run(s) \/ Stage(s) \/ Unavailable(s)
        PROVE  UNCHANGED limited /\ Neither(s) /\ \A u \in Sessions \ {s} : loop'[u] = loop[u]
    <2>1. loop[s].pc = "execute" /\ UNCHANGED <<limited, counter, made>>
      BY <1>9 DEF Run, Stage, Unavailable, At, settings, history
    <2>2. \/ \E told : loop' = [loop EXCEPT ![s] = [@ EXCEPT !.pc = "return", !.told = told]]
          \/ \E k : loop' = [loop EXCEPT ![s] = [@ EXCEPT !.pc = "return", !.token = k]]
      BY <1>9 DEF Run, Stage, Unavailable
    <2>3. loop'[s].pc = "return" /\ \A u \in Sessions \ {s} : loop'[u] = loop[u]
      BY <1>1, <1>2, <2>2 DEF Turn
    <2> QED
      BY <2>1, <2>3 DEF Neither, InTool
  <1>10. CASE Return(s)
    <2>1. loop[s].pc = "return" /\ UNCHANGED <<limited, made>> /\ Count(s)
      BY <1>10 DEF Return, At, settings, history
    <2>2. \/ \E q \in Turn : loop' = [loop EXCEPT ![s] = q] /\ q.pc = "tools"
          \/ loop' = [loop EXCEPT ![s] = [@ EXCEPT !.pc = "filed"]]
          \/ \E copy : loop' = [loop EXCEPT ![s] = [@ EXCEPT !.pc = "label", !.copy = copy]]
      BY <1>1, <1>10, ResultDropped DEF Return
    <2>3. loop'[s].pc \in {"tools", "filed", "label"} /\ \A u \in Sessions \ {s} : loop'[u] = loop[u]
      BY <1>1, <1>2, <2>2 DEF Turn
    <2> QED
      BY <2>1, <2>3 DEF Returned, InTool
  <1>11. CASE SaveScope(s)
    <2>1. loop[s].pc = "label" /\ UNCHANGED <<limited, counter, made>>
      BY <1>11 DEF SaveScope, At, settings, history
    <2>2. loop'[s].pc = "filed" /\ \A u \in Sessions \ {s} : loop'[u] = loop[u]
      BY <1>1, <1>2, <1>11 DEF SaveScope, Turn
    <2> QED
      BY <2>1, <2>2 DEF Neither, InTool
  <1>12. CASE LoadAttach(s)
    <2>1. loop[s].pc = "filed" /\ UNCHANGED <<limited, counter, made>>
      BY <1>12 DEF LoadAttach, At, settings, history
    <2>2. \/ \E q \in Turn : loop' = [loop EXCEPT ![s] = q] /\ q.pc = "tools"
          \/ \E copy : loop' = [loop EXCEPT ![s] = [@ EXCEPT !.pc = "attach", !.copy = copy]]
      BY <1>1, <1>12, TurnGoesOn, ResultDropped DEF LoadAttach
    <2>3. loop'[s].pc \in {"tools", "attach"} /\ \A u \in Sessions \ {s} : loop'[u] = loop[u]
      BY <1>1, <1>2, <2>2 DEF Turn
    <2> QED
      BY <2>1, <2>3 DEF Neither, InTool
  <1>13. CASE SaveAttach(s)
    <2>1. loop[s].pc = "attach" /\ UNCHANGED <<limited, counter, made>>
      BY <1>13 DEF SaveAttach, At, settings, history
    <2>2. PICK q \in Turn : loop' = [loop EXCEPT ![s] = q] /\ q.pc = "tools"
      BY <1>1, <1>13, TurnGoesOn DEF SaveAttach
    <2> QED
      BY <1>2, <2>1, <2>2 DEF Neither, InTool
  <1>14. CASE RoundEnds(s)
    <2>1. loop[s].pc = "tools" /\ UNCHANGED <<limited, counter, made>>
      BY <1>14 DEF RoundEnds, At, settings, history
    <2>2. loop' = [loop EXCEPT ![s].pc = "model"] \/ loop' = [loop EXCEPT ![s] = Idle]
      BY <1>14 DEF RoundEnds, Move, Leave
    <2>3. loop'[s].pc \in {"model", "idle"} /\ \A u \in Sessions \ {s} : loop'[u] = loop[u]
      BY <1>1, <2>2, IdleType DEF Turn
    <2> QED
      BY <2>1, <2>3 DEF Neither, InTool
  <1>15. CASE Cancel(s)
    BY <1>15 DEF Cancel, Neither, InTool, settings, history
  <1> QED
    BY <1>3, <1>4, <1>5, <1>6, <1>7, <1>8, <1>9, <1>10, <1>11, <1>12, <1>13, <1>14, <1>15

\* It holds at the start.
LEMMA TalliesStart == Init => BInv
  <1> SUFFICES ASSUME Init
               PROVE  BInv
    OBVIOUS
  <1>1. limited \subseteq Sessions
    BY SetupsAssumption DEF Init
  <1>2. /\ loop = [s \in Sessions |-> Idle] /\ counter = [s \in Sessions |-> 0]
        /\ made = [s \in Sessions |-> 0]
    BY DEF Init
  <1>3. \A s \in Sessions : ~InTool(s) /\ loop[s] \in Turn
    BY <1>2, IdleType DEF InTool
  <1>4. MaxToolCalls \in Nat
    BY BoundsAssumption
  <1>5. \A s \in limited : Tally(s)
    BY <1>1, <1>2, <1>3, <1>4 DEF Tally
  <1> QED
    BY <1>1, <1>2, <1>3, <1>5 DEF BInv

\* Every step keeps it.
LEMMA TalliesStay == BInv /\ IInv' /\ [Next]_vars => BInv'
  <1> SUFFICES ASSUME BInv, IInv', [Next]_vars
               PROVE  BInv'
    OBVIOUS
  <1>1. CASE UNCHANGED <<limited, loop, counter, made>>
    BY <1>1 DEF BInv, Tally, InTool
  <1>2. CASE \E k \in 1 .. Len(store) : Resolve(k)
    BY <1>1, <1>2 DEF Resolve, settings, history
  <1>3. CASE UNCHANGED vars
    BY <1>1, <1>3 DEF vars, settings, history
  <1> QED
    BY <1>2, <1>3, Counts DEF Next

\* A session with a runtime context has no more tools executed than its limit, those that
\* raised, and those whose result a cancel dropped, included.
THEOREM Bounded == Spec => []CallsAreBounded
  <1>1. BInv => CallsAreBounded
    BY DEF BInv, Tally, CallsAreBounded
  <1> QED
    BY <1>1, TalliesStart, TalliesStay, Starts, Stays, PTL DEF Spec

-----------------------------------------------------------------------------
\* The turn and its token.  A review that is due is told when the call is over, so
\* until then the turn may still want to go on; and a token stands for the call that
\* was asked for, in the store and in the copy that is written back.

Back == {"return", "label", "filed", "attach"}
Owned(a) == a.session # NoOne => <<a.session, a.call>> \in asked
Held(s, q) ==
    /\ q.told => q.pc \notin {"idle", "model"} /\ (q.keep => q.pc \in Back)
    /\ q.token # 0 =>
          /\ q.pc \in Back /\ q.token \in 1 .. Len(store)
          /\ store[q.token].call = EffectOf(q.call) /\ <<s, EffectOf(q.call)>> \in asked
    /\ q.pc \in {"label", "attach"} =>
          q.token # 0 /\ q.copy \in Actions /\ q.copy.call = EffectOf(q.call) /\ Owned(q.copy)

TInv ==
    /\ \A s \in Sessions : Held(s, loop[s])
    /\ \A k \in 1 .. Len(store) : Owned(store[k])

\* The actions stay what they are about, and nobody's request is forgotten.
Growing ==
    /\ asked \subseteq asked' /\ Len(store) \in Nat /\ Len(store') \in Nat /\ Len(store) <= Len(store')
    /\ \A k \in 1 .. Len(store) : store'[k].call = store[k].call

\* What is held of a session stays so while the store grows.
LEMMA HeldOn ==
    ASSUME Growing, NEW s \in Sessions, NEW q \in Turn, Held(s, q)
    PROVE  Held(s, q)'
  BY DEF Growing, Held, Owned

\* A step of one session, that keeps its own part, keeps all of it.
LEMMA HeldMoves ==
    ASSUME IInv, TInv, Growing, NEW s \in Sessions, NEW q \in Turn, loop' = [loop EXCEPT ![s] = q],
           Held(s, q)', \A k \in 1 .. Len(store') : Owned(store[k])'
    PROVE  TInv'
  <1>1. loop \in [Sessions -> Turn]
    BY DEF IInv
  <1>2. ASSUME NEW u \in Sessions
        PROVE  Held(u, loop[u])'
    <2>1. CASE u = s
      <3>1. loop'[u] = q
        BY <1>1, <2>1
      <3> QED
        BY <2>1, <3>1
    <2>2. CASE u # s
      <3>1. loop'[u] = loop[u] /\ loop[u] \in Turn /\ Held(u, loop[u])
        BY <1>1, <2>2 DEF TInv
      <3> QED
        BY <3>1, HeldOn DEF Growing, Held, Owned
    <2> QED
      BY <2>1, <2>2
  <1> QED
    BY <1>2 DEF TInv

\* A step that leaves the store and the requests alone.
LEMMA HeldSilently ==
    ASSUME IInv, TInv, NEW s \in Sessions, NEW q \in Turn, loop' = [loop EXCEPT ![s] = q],
           UNCHANGED <<store, asked>>, Held(s, q)
    PROVE  TInv'
  <1>1. Growing
    BY DEF Growing, IInv
  <1>2. \A k \in 1 .. Len(store') : Owned(store[k])'
    BY DEF TInv, Owned
  <1>3. Held(s, q)'
    BY <1>1, HeldOn
  <1> QED
    BY <1>1, <1>2, <1>3, HeldMoves

\* The model is asked again only in a turn that told nothing, and no other session moves.
Unsaid(s) == loop'[s].pc = "model" => loop[s].pc = "model" \/ ~loop[s].told
Only(s) == \A u \in Sessions \ {s} : loop'[u] = loop[u]

\* Most steps of a session neither stage nor file.
LEMMA TurnSteps ==
    ASSUME IInv, TInv, NEW s \in Sessions,
           \/ BeginTurn(s) \/ AskModel(s) \/ UnknownTool(s) \/ HookRaises(s)
           \/ \E c \in Call : Refuse(s, c) \/ HookRejects(s, c) \/ Admit(s, c)
           \/ Raise(s) \/ Run(s) \/ Unavailable(s) \/ Return(s) \/ LoadAttach(s) \/ RoundEnds(s) \/ Cancel(s)
    PROVE  TInv' /\ Unsaid(s) /\ Only(s)
  <1> DEFINE r == loop[s]
             Result(q) == /\ q \in Turn /\ loop' = [loop EXCEPT ![s] = q] /\ Held(s, q)
                          /\ q.pc = "model" => r.pc = "model" \/ ~r.told
  <1>1. UNCHANGED <<store, asked>>
    BY DEF BeginTurn, AskModel, UnknownTool, HookRaises, Refuse, HookRejects, Admit, Unavailable,
           Raise, Run, Return, LoadAttach, RoundEnds, Cancel, history
  <1>2. /\ r \in Turn /\ Held(s, r) /\ r.token \in Nat /\ r.told \in BOOLEAN /\ r.keep \in BOOLEAN
        /\ loop \in [Sessions -> Turn] /\ store \in Seq(Actions)
    BY DEF IInv, TInv, Turn
  <1> SUFFICES \E q : Result(q)
    BY <1>1, <1>2, HeldSilently DEF Unsaid, Only
  <1> HIDE DEF r
  <1>3. ASSUME NEW q \in Turn, loop' = [loop EXCEPT ![s] = q], q.token = 0,
               q.pc \notin {"label", "attach"},
               q.told => q.pc \notin {"idle", "model"} /\ (q.keep => q.pc \in Back),
               q.pc = "model" => r.pc = "model" \/ ~r.told
        PROVE  \E x : Result(x)
    BY <1>3 DEF Held
  <1>4. CASE loop' = [loop EXCEPT ![s] = Idle]
    <2>1. Idle \in Turn /\ Idle.pc = "idle" /\ Idle.token = 0 /\ ~Idle.told
      BY IdleType DEF Idle
    <2> QED
      BY <1>3, <1>4, <2>1
  <1>5. ASSUME Called(s, loop[s]), r.pc \notin Back
        PROVE  \E q : Result(q)
    <2>1. PICK q \in Turn : loop' = [loop EXCEPT ![s] = q] /\ q.pc = "tools" /\ q.token = 0
                            /\ q.told = r.told /\ q.keep = r.keep
      BY <1>2, <1>5, CallOver DEF r
    <2> QED
      BY <1>2, <1>3, <1>5, <2>1 DEF Held
  <1>6. ASSUME \E retry : Fail(s, retry), r.pc \notin Back
        PROVE  \E q : Result(q)
    <2>1. PICK q \in Turn : loop' = [loop EXCEPT ![s] = q] /\ q.pc = "tools" /\ q.token = 0
                            /\ q.told = r.told /\ q.keep = r.keep
      BY <1>2, <1>6, CallFails DEF r
    <2> QED
      BY <1>2, <1>3, <1>6, <2>1 DEF Held
  <1>7. CASE Drop(s) \/ After(s)
    <2>1. PICK q \in Turn : loop' = [loop EXCEPT ![s] = q] /\ q.pc = "tools" /\ q.token = 0
                            /\ ~(q.told /\ q.keep)
      BY <1>2, <1>7, ResultDropped, TurnGoesOn DEF r
    <2> QED
      BY <1>3, <2>1
  <1>8. CASE BeginTurn(s)
    <2> DEFINE q == [Idle EXCEPT !.pc = "model", !.keep = TRUE]
    <2>1. q.pc = "model" /\ q.token = 0 /\ ~q.told
      BY DEF Idle
    <2>2. q \in Turn
      BY DEF Idle, Turn, pcs
    <2>3. loop' = [loop EXCEPT ![s] = q] /\ ~r.told
      BY <1>2, <1>8 DEF BeginTurn, At, Held, r
    <2> HIDE DEF q
    <2> QED
      BY <1>3, <2>1, <2>2, <2>3
  <1>9. CASE AskModel(s)
    <2> DEFINE q == [r EXCEPT !.pc = "tools", !.more = TRUE, !.failed = FALSE, !.retry = FALSE]
    <2>1. q \in Turn /\ q.pc = "tools" /\ q.token = r.token /\ q.told = r.told
      BY <1>2 DEF Turn, pcs
    <2>2. r.token = 0 /\ ~r.told
      BY <1>2, <1>9 DEF AskModel, At, Held, r, Back
    <2>3. loop' = [loop EXCEPT ![s] = q] \/ loop' = [loop EXCEPT ![s] = Idle]
      BY <1>9 DEF AskModel, Leave, r
    <2> HIDE DEF q
    <2> QED
      BY <1>3, <1>4, <2>1, <2>2, <2>3
  <1>10. CASE UnknownTool(s) \/ HookRaises(s)
    BY <1>4, <1>6, <1>10 DEF UnknownTool, HookRaises, Calling, At, r, Back
  <1>11. ASSUME NEW c \in Call, Refuse(s, c) \/ HookRejects(s, c)
         PROVE  \E q : Result(q)
    BY <1>6, <1>11 DEF Refuse, HookRejects, Calling, At, r, Back
  <1>12. ASSUME NEW c \in Call, Admit(s, c)
         PROVE  \E q : Result(q)
    <2> DEFINE q == [r EXCEPT !.pc = "execute", !.call = c]
    <2>1. q.pc = "execute" /\ q.token = r.token /\ q.told = r.told /\ q.keep = r.keep
      BY <1>2 DEF Turn
    <2>2. q \in Turn
      BY <1>2 DEF Turn, pcs
    <2>3. r.pc = "tools"
      BY <1>12 DEF Admit, Calling, At, r
    <2>4. r.token = 0 /\ (r.told => ~r.keep)
      BY <1>2, <2>3 DEF Held, Back
    <2>5. (\E retry : Fail(s, retry)) \/ Called(s, loop[s]) \/ loop' = [loop EXCEPT ![s] = q]
      BY <1>12 DEF Admit, r
    <2> HIDE DEF q
    <2>6. CASE loop' = [loop EXCEPT ![s] = q]
      BY <1>3, <2>1, <2>2, <2>4, <2>6
    <2> QED
      BY <1>5, <1>6, <2>3, <2>5, <2>6 DEF Back
  <1>13. CASE Raise(s)
    BY <1>6, <1>13 DEF Raise, At, r, Back
  <1>14. CASE Run(s) \/ Unavailable(s)
    <2>1. PICK told \in BOOLEAN : loop' = [loop EXCEPT ![s] = [@ EXCEPT !.pc = "return", !.told = told]]
      BY <1>2, <1>14 DEF Run, Unavailable
    <2> DEFINE q == [r EXCEPT !.pc = "return", !.told = told]
    <2>2. q.pc = "return" /\ q.token = r.token /\ q.pc \in Back
      BY <1>2 DEF Turn, Back
    <2>3. q \in Turn
      BY <1>2 DEF Turn, pcs
    <2>4. r.token = 0 /\ loop' = [loop EXCEPT ![s] = q]
      BY <1>2, <1>14, <2>1 DEF Run, Unavailable, At, Held, r, Back
    <2> HIDE DEF q
    <2> QED
      BY <1>3, <2>2, <2>3, <2>4
  <1>15. ASSUME NEW pc \in {"label", "attach"}, r.token # 0, r.pc \in Back,
                loop' = [loop EXCEPT ![s] = [@ EXCEPT !.pc = pc, !.copy = store[loop[s].token]]]
         PROVE  \E q : Result(q)
    <2> DEFINE q == [r EXCEPT !.pc = pc, !.copy = store[r.token]]
    <2>1. /\ r.token \in 1 .. Len(store) /\ store[r.token] \in Actions /\ Owned(store[r.token])
          /\ store[r.token].call = EffectOf(r.call) /\ <<s, EffectOf(r.call)>> \in asked
      BY <1>2, <1>15 DEF Held, TInv
    <2>2. q.pc = pc /\ q.token = r.token /\ q.call = r.call /\ q.copy = store[r.token]
      BY <1>2 DEF Turn
    <2>3. q \in Turn
      BY <1>2, <2>1 DEF Turn, pcs
    <2>4. loop' = [loop EXCEPT ![s] = q]
      BY <1>15 DEF r
    <2> HIDE DEF q
    <2>5. Held(s, q)
      BY <1>15, <2>1, <2>2 DEF Held, Back
    <2> QED
      BY <1>15, <2>2, <2>3, <2>4, <2>5
  <1>16. CASE Return(s)
    <2>1. CASE loop' = [loop EXCEPT ![s] = [@ EXCEPT !.pc = "filed"]]
      <3> DEFINE q == [r EXCEPT !.pc = "filed"]
      <3>1. /\ q.pc = "filed" /\ q.token = r.token /\ q.call = r.call /\ q.told = r.told /\ q.keep = r.keep
            /\ q \in Turn
        BY <1>2 DEF Turn, pcs
      <3>2. r.pc \in Back /\ loop' = [loop EXCEPT ![s] = q]
        BY <1>16, <2>1 DEF Return, At, r, Back
      <3> HIDE DEF q
      <3>3. Held(s, q)
        BY <1>2, <3>1, <3>2 DEF Held, Back
      <3> QED
        BY <3>1, <3>2, <3>3
    <2>2. r.pc \in Back
      BY <1>16 DEF Return, At, r, Back
    <2>3. \/ Drop(s) \/ loop' = [loop EXCEPT ![s] = [@ EXCEPT !.pc = "filed"]]
          \/ r.token # 0 /\ loop' = [loop EXCEPT ![s] = [@ EXCEPT !.pc = "label", !.copy = store[loop[s].token]]]
      BY <1>16 DEF Return, r
    <2> QED
      BY <1>7, <1>15, <2>1, <2>2, <2>3
  <1>17. CASE LoadAttach(s)
    <2>1. r.pc \in Back
      BY <1>17 DEF LoadAttach, At, r, Back
    <2>2. \/ Drop(s) \/ After(s)
          \/ r.token # 0 /\ loop' = [loop EXCEPT ![s] = [@ EXCEPT !.pc = "attach", !.copy = store[loop[s].token]]]
      BY <1>17 DEF LoadAttach, r
    <2> QED
      BY <1>7, <1>15, <2>1, <2>2
  <1>18. CASE RoundEnds(s)
    <2> DEFINE q == [r EXCEPT !.pc = "model"]
    <2>1. q \in Turn /\ q.pc = "model" /\ q.token = r.token /\ q.told = r.told
      BY <1>2 DEF Turn, pcs
    <2>2. r.pc = "tools"
      BY <1>18 DEF RoundEnds, At, r
    <2>3. r.token = 0 /\ (r.told => ~r.keep)
      BY <1>2, <2>2 DEF Held, Back
    <2>4. \/ r.keep /\ loop' = [loop EXCEPT ![s] = q]
          \/ loop' = [loop EXCEPT ![s] = Idle]
      BY <1>18 DEF RoundEnds, Move, Leave, r
    <2> HIDE DEF q
    <2> QED
      BY <1>2, <1>3, <1>4, <2>1, <2>3, <2>4
  <1>19. CASE Cancel(s)
    <2>1. loop' = [loop EXCEPT ![s] = r]
      BY <1>2, <1>19 DEF Cancel, r
    <2> QED
      BY <1>2, <2>1
  <1> QED
    BY <1>8, <1>9, <1>10, <1>11, <1>12, <1>13, <1>14, <1>16, <1>17, <1>18, <1>19

\* A new action in the store.
LEMMA Filed ==
    ASSUME store \in Seq(Actions), \A k \in 1 .. Len(store) : Owned(store[k]),
           NEW a \in Actions, store' = Append(store, a), asked \subseteq asked',
           a.session # NoOne => <<a.session, a.call>> \in asked'
    PROVE  /\ Growing /\ Len(store') = Len(store) + 1 /\ store'[Len(store) + 1] = a
           /\ \A k \in 1 .. Len(store') : Owned(store[k])'
  <1>1. /\ Len(store) \in Nat /\ Len(store') = Len(store) + 1 /\ store'[Len(store) + 1] = a
        /\ \A k \in 1 .. Len(store) : store'[k] = store[k]
    OBVIOUS
  <1>2. ASSUME NEW k \in 1 .. Len(store')
        PROVE  Owned(store[k])'
    <2>1. k \in 1 .. Len(store) \/ k = Len(store) + 1
      BY <1>1
    <2> QED
      BY <1>1, <2>1 DEF Owned
  <1>3. Growing
    BY <1>1 DEF Growing
  <1> QED
    BY <1>1, <1>2, <1>3

\* An action written over its slot, about the same call.
LEMMA Rewritten ==
    ASSUME store \in Seq(Actions), \A k \in 1 .. Len(store) : Owned(store[k]),
           NEW a \in Actions, NEW i \in 1 .. Len(store), store' = [store EXCEPT ![i] = a],
           a.call = store[i].call, Owned(a), asked' = asked
    PROVE  Growing /\ \A k \in 1 .. Len(store') : Owned(store[k])'
  <1>1. /\ Len(store) \in Nat /\ Len(store') = Len(store)
        /\ \A k \in 1 .. Len(store) : store'[k] = IF k = i THEN a ELSE store[k]
    BY ExceptSeq
  <1>2. \A k \in 1 .. Len(store') : Owned(store[k])'
    BY <1>1 DEF Owned
  <1>3. Growing
    BY <1>1 DEF Growing
  <1> QED
    BY <1>2, <1>3

\* A staged call gets a token for itself, shared or new.
LEMMA StageHeld ==
    ASSUME IInv, TInv, NEW s \in Sessions, Stage(s)
    PROVE  TInv' /\ Unsaid(s) /\ Only(s)
  <1> DEFINE r == loop[s]
             c == r.call
             new == [call |-> EffectOf(c), session |-> StagedFor(s, c), traced |-> FALSE, state |-> "active"]
  <1>0. r.pc = "execute" /\ c \in Call
    BY DEF IInv, Admitted, Stage, At
  <1>1. /\ r \in Turn /\ Held(s, r) /\ c \in Call /\ r.pc = "execute"
        /\ loop \in [Sessions -> Turn] /\ store \in Seq(Actions) /\ Len(store) \in Nat
        /\ \A k \in 1 .. Len(store) : Owned(store[k])
    BY <1>0 DEF IInv, TInv
  <1>2. /\ new \in Actions /\ new.call = EffectOf(c) /\ new.session = StagedFor(s, c)
    BY <1>1 DEF Actions, StagedFor, Owner
  <1>3. asked' = asked \union {<<who, EffectOf(c)>> : who \in {s, Owner(s)}}
    BY DEF Stage
  <1>4. <<s, EffectOf(c)>> \in asked' /\ asked \subseteq asked'
        /\ (StagedFor(s, c) # NoOne => <<StagedFor(s, c), EffectOf(c)>> \in asked')
    BY <1>3 DEF StagedFor
  <1> HIDE DEF new
  <1>5. ASSUME NEW q \in Turn, loop' = [loop EXCEPT ![s] = q], q.pc = "return", q.call = c,
               Growing, \A j \in 1 .. Len(store') : Owned(store[j])',
               q.token \in 1 .. Len(store'), store'[q.token].call = EffectOf(c)
        PROVE  TInv' /\ Unsaid(s) /\ Only(s)
    <2>1. Held(s, q)'
      BY <1>4, <1>5 DEF Held, Back
    <2>2. loop'[s] = q /\ Only(s)
      BY <1>1, <1>5 DEF Only
    <2>3. TInv'
      BY <1>5, <2>1, HeldMoves
    <2> QED
      BY <1>5, <2>2, <2>3 DEF Unsaid
  <1>a. ASSUME NEW k \in Nat, loop' = [loop EXCEPT ![s] = [@ EXCEPT !.pc = "return", !.token = k]]
        PROVE  \E q \in Turn : loop' = [loop EXCEPT ![s] = q] /\ q.pc = "return" /\ q.call = c /\ q.token = k
    <2> DEFINE q == [r EXCEPT !.pc = "return", !.token = k]
    <2>1. q.pc = "return" /\ q.token = k /\ q.call = c
      BY <1>1 DEF Turn
    <2>2. q \in Turn
      BY <1>1, <1>a DEF Turn, pcs
    <2> QED
      BY <1>a, <2>1, <2>2
  <1>6. CASE ActiveMatches(s, c) # {}
    <2>1. store' = store
      BY <1>6 DEF Stage
    <2>2. PICK k \in ActiveMatches(s, c) : loop' = [loop EXCEPT ![s] = [@ EXCEPT !.pc = "return", !.token = k]]
      BY <1>6 DEF Stage
    <2>3. k \in 1 .. Len(store) /\ k \in Nat /\ store[k].call = EffectOf(c)
      BY <1>1, <2>2 DEF ActiveMatches
    <2>4. Growing /\ \A j \in 1 .. Len(store') : Owned(store[j])'
      BY <1>1, <1>4, <2>1 DEF Growing, Owned
    <2>5. PICK q \in Turn : loop' = [loop EXCEPT ![s] = q] /\ q.pc = "return" /\ q.call = c /\ q.token = k
      BY <1>a, <2>2, <2>3
    <2> QED
      BY <1>5, <2>1, <2>3, <2>4, <2>5
  <1>7. CASE ActiveMatches(s, c) = {}
    <2>1. store' = Append(store, new)
      BY <1>7 DEF Stage, new
    <2>2. loop' = [loop EXCEPT ![s] = [@ EXCEPT !.pc = "return", !.token = Len(store) + 1]]
      BY <1>7 DEF Stage
    <2>3. /\ Growing /\ Len(store') = Len(store) + 1 /\ store'[Len(store) + 1] = new
          /\ \A j \in 1 .. Len(store') : Owned(store[j])'
      BY <1>1, <1>2, <1>4, <2>1, Filed
    <2>4. Len(store) + 1 \in Nat /\ Len(store) + 1 \in 1 .. Len(store')
      BY <1>1, <2>3
    <2>5. PICK q \in Turn : /\ loop' = [loop EXCEPT ![s] = q] /\ q.pc = "return" /\ q.call = c
                            /\ q.token = Len(store) + 1
      BY <1>a, <2>2, <2>4
    <2> QED
      BY <1>2, <1>5, <2>3, <2>4, <2>5
  <1> QED
    BY <1>6, <1>7

\* An action is relabelled, or copied for the session that asked too.
LEMMA ScopeHeld ==
    ASSUME IInv, TInv, NEW s \in Sessions, SaveScope(s)
    PROVE  TInv' /\ Unsaid(s) /\ Only(s)
  <1> DEFINE r == loop[s]
             mine == [r.copy EXCEPT !.session = s, !.traced = TRUE]
  <1>1. /\ r \in Turn /\ Held(s, r) /\ r.pc = "label"
        /\ loop \in [Sessions -> Turn] /\ store \in Seq(Actions) /\ Len(store) \in Nat
        /\ \A k \in 1 .. Len(store) : Owned(store[k])
    BY DEF IInv, TInv, SaveScope, At
  <1>2. /\ r.token \in 1 .. Len(store) /\ store[r.token].call = EffectOf(r.call)
        /\ <<s, EffectOf(r.call)>> \in asked /\ r.copy \in Actions /\ r.copy.call = EffectOf(r.call)
    BY <1>1 DEF Held
  <1>3. mine \in Actions /\ mine.call = EffectOf(r.call) /\ mine.session = s
    BY <1>2 DEF Actions
  <1>4. asked' = asked /\ Owned(mine)
    <2>1. asked' = asked
      BY DEF SaveScope, history
    <2> HIDE DEF mine
    <2> QED
      BY <1>2, <1>3, <2>1 DEF Owned
  <1>5. \/ /\ store' \in {store, [store EXCEPT ![r.token] = mine]}
           /\ loop' = [loop EXCEPT ![s] = [@ EXCEPT !.pc = "filed", !.copy = NoCopy]]
        \/ /\ store' = Append(store, mine)
           /\ loop' = [loop EXCEPT ![s] =
                         [@ EXCEPT !.pc = "filed", !.copy = NoCopy, !.token = Len(store) + 1]]
    BY DEF SaveScope
  <1> HIDE DEF mine
  <1>6. ASSUME NEW q \in Turn, loop' = [loop EXCEPT ![s] = q], q.pc = "filed", q.call = r.call,
               q.token \in 1 .. Len(store'), store'[q.token].call = EffectOf(r.call),
               Growing, \A j \in 1 .. Len(store') : Owned(store[j])'
        PROVE  TInv' /\ Unsaid(s) /\ Only(s)
    <2>1. Held(s, q)'
      BY <1>2, <1>4, <1>6 DEF Held, Back
    <2>2. loop'[s] = q /\ Only(s)
      BY <1>1, <1>6 DEF Only
    <2>3. TInv'
      BY <1>6, <2>1, HeldMoves
    <2> QED
      BY <1>6, <2>2, <2>3 DEF Unsaid
  <1>7. CASE /\ store' \in {store, [store EXCEPT ![r.token] = mine]}
             /\ loop' = [loop EXCEPT ![s] = [@ EXCEPT !.pc = "filed", !.copy = NoCopy]]
    <2> DEFINE q == [r EXCEPT !.pc = "filed", !.copy = NoCopy]
    <2>1. q.pc = "filed" /\ q.token = r.token /\ q.call = r.call
      BY <1>1 DEF Turn
    <2>2. q \in Turn
      BY <1>1 DEF Turn, pcs
    <2>3. loop' = [loop EXCEPT ![s] = q]
      BY <1>7
    <2> HIDE DEF q, r
    <2>4. Growing /\ \A j \in 1 .. Len(store') : Owned(store[j])'
      <3>1. CASE store' = store
        BY <1>1, <1>4, <3>1 DEF Growing, Owned
      <3>2. CASE store' = [store EXCEPT ![r.token] = mine]
        BY <1>1, <1>2, <1>3, <1>4, <3>2, Rewritten
      <3> QED
        BY <1>7, <3>1, <3>2
    <2>5. r.token \in 1 .. Len(store') /\ store'[r.token].call = EffectOf(r.call)
      BY <1>1, <1>2, <2>4 DEF Growing
    <2> QED
      BY <1>6, <2>1, <2>2, <2>3, <2>4, <2>5
  <1>8. CASE /\ store' = Append(store, mine)
             /\ loop' = [loop EXCEPT ![s] =
                           [@ EXCEPT !.pc = "filed", !.copy = NoCopy, !.token = Len(store) + 1]]
    <2> DEFINE q == [r EXCEPT !.pc = "filed", !.copy = NoCopy, !.token = Len(store) + 1]
    <2>1. q.pc = "filed" /\ q.token = Len(store) + 1 /\ q.call = r.call
      BY <1>1 DEF Turn
    <2>2. Len(store) + 1 \in Nat
      BY <1>1
    <2>3. q \in Turn
      BY <1>1, <2>2 DEF Turn, pcs
    <2>4. loop' = [loop EXCEPT ![s] = q]
      BY <1>8
    <2> HIDE DEF q, r
    <2>5. /\ Growing /\ Len(store') = Len(store) + 1 /\ store'[Len(store) + 1] = mine
          /\ \A j \in 1 .. Len(store') : Owned(store[j])'
      BY <1>1, <1>3, <1>4, <1>8, Filed DEF Owned
    <2>6. Len(store) + 1 \in 1 .. Len(store')
      BY <1>1, <2>5
    <2> QED
      BY <1>3, <1>6, <2>1, <2>3, <2>4, <2>5, <2>6
  <1> QED
    BY <1>5, <1>7, <1>8

\* The second write-back.
LEMMA AttachHeld ==
    ASSUME IInv, TInv, NEW s \in Sessions, SaveAttach(s)
    PROVE  TInv' /\ Unsaid(s) /\ Only(s)
  <1> DEFINE r == loop[s]
  <1>1. /\ r \in Turn /\ Held(s, r) /\ r.pc = "attach"
        /\ loop \in [Sessions -> Turn] /\ store \in Seq(Actions)
        /\ \A k \in 1 .. Len(store) : Owned(store[k])
    BY DEF IInv, TInv, SaveAttach, At
  <1>2. /\ r.token \in 1 .. Len(store) /\ store[r.token].call = EffectOf(r.call)
        /\ r.copy \in Actions /\ r.copy.call = EffectOf(r.call) /\ Owned(r.copy)
    BY <1>1 DEF Held
  <1>3. store' = [store EXCEPT ![r.token] = r.copy] /\ asked' = asked
    BY DEF SaveAttach, history
  <1>4. PICK q \in Turn : loop' = [loop EXCEPT ![s] = q] /\ q.pc = "tools" /\ q.token = 0
                          /\ ~(q.told /\ q.keep)
    BY <1>1, TurnGoesOn DEF SaveAttach
  <1> HIDE DEF r
  <1>5. Growing /\ \A j \in 1 .. Len(store') : Owned(store[j])'
    BY <1>1, <1>2, <1>3, Rewritten
  <1>6. Held(s, q)'
    BY <1>4 DEF Held
  <1>7. loop'[s] = q /\ Only(s)
    BY <1>1, <1>4 DEF Only
  <1> QED
    BY <1>4, <1>5, <1>6, <1>7, HeldMoves DEF Unsaid

\* A host's answer changes neither the call of an action nor its session.
LEMMA ResolveHeld ==
    ASSUME IInv, TInv, NEW k \in 1 .. Len(store), Resolve(k)
    PROVE  TInv' /\ loop' = loop
  <1> DEFINE a == [store[k] EXCEPT !.state = "resolved"]
  <1>1. /\ store \in Seq(Actions) /\ store[k] \in Actions /\ Owned(store[k])
        /\ \A j \in 1 .. Len(store) : Owned(store[j])
    BY DEF IInv, TInv
  <1>2. a \in Actions /\ a.call = store[k].call /\ a.session = store[k].session
    BY <1>1 DEF Actions
  <1>3. store' = [store EXCEPT ![k] = a] /\ asked' = asked /\ loop' = loop
    BY DEF Resolve, history
  <1> HIDE DEF a
  <1>4. Owned(a)
    BY <1>1, <1>2 DEF Owned
  <1>5. Growing /\ \A j \in 1 .. Len(store') : Owned(store[j])'
    BY <1>1, <1>2, <1>3, <1>4, Rewritten
  <1>6. ASSUME NEW u \in Sessions
        PROVE  Held(u, loop[u])'
    <2>1. loop'[u] = loop[u] /\ loop[u] \in Turn /\ Held(u, loop[u])
      BY <1>3 DEF IInv, TInv
    <2> QED
      BY <1>5, <2>1 DEF Growing, Held, Owned
  <1> QED
    BY <1>3, <1>5, <1>6 DEF TInv

\* So every step keeps it, and asks the model again only in a turn that told nothing.
LEMMA TInvStep ==
    ASSUME IInv, TInv, [Next]_vars
    PROVE  TInv' /\ \A s \in Sessions : Unsaid(s)
  <1>1. ASSUME NEW s \in Sessions,
               \/ BeginTurn(s) \/ AskModel(s) \/ UnknownTool(s) \/ HookRaises(s)
               \/ \E c \in Call : Refuse(s, c) \/ HookRejects(s, c) \/ Admit(s, c)
               \/ Raise(s) \/ Run(s) \/ Stage(s) \/ Unavailable(s) \/ Return(s)
               \/ SaveScope(s) \/ LoadAttach(s) \/ SaveAttach(s)
               \/ RoundEnds(s) \/ Cancel(s)
        PROVE  TInv' /\ \A u \in Sessions : Unsaid(u)
    <2>1. TInv' /\ Unsaid(s) /\ Only(s)
      BY <1>1, TurnSteps, StageHeld, ScopeHeld, AttachHeld
    <2> QED
      BY <2>1 DEF Unsaid, Only
  <1>2. ASSUME NEW k \in 1 .. Len(store), Resolve(k)
        PROVE  TInv' /\ \A u \in Sessions : Unsaid(u)
    BY <1>2, ResolveHeld DEF Unsaid
  <1>3. CASE UNCHANGED vars
    <2>1. store' = store /\ asked' = asked /\ loop' = loop
      BY <1>3 DEF vars, history
    <2> QED
      BY <2>1 DEF TInv, Held, Owned, Unsaid
  <1>4. CASE Next
    BY <1>1, <1>2, <1>4 DEF Next
  <1> QED
    BY <1>3, <1>4

\* At the start nothing is staged.
LEMMA TInvInit == Init => TInv
  <1> SUFFICES ASSUME Init PROVE TInv
    OBVIOUS
  <1>1. /\ loop = [s \in Sessions |-> Idle] /\ store = <<>> /\ Len(store) = 0
        /\ Idle.pc = "idle" /\ Idle.token = 0 /\ ~Idle.told
    BY IdleType DEF Init, Idle
  <1> QED
    BY <1>1 DEF TInv, Held

\* Once a call of the round waits for a host, _default_after_tool_call keeps the loop from
\* another pass: the model is not asked again in this turn.
THEOREM Stops == Spec => ReviewEndsTheTurn
  <1>1. IInv /\ TInv /\ [Next]_vars => TInv'
    BY TInvStep
  <1>2. IInv /\ TInv /\ [Next]_vars =>
          [\A s \in Sessions : loop[s].told /\ loop'[s].pc = "model" => loop[s].pc = "model"]_vars
    BY TInvStep DEF Unsaid
  <1> QED
    BY <1>1, <1>2, TInvInit, Starts, Stays, PTL DEF Spec, ReviewEndsTheTurn

\* The settings stay one of the setups, and the histories are about sessions and calls.
Ledgers ==
    /\ [policy |-> policy, tools |-> tools, profile |-> profile, limited |-> limited] \in Setups
    /\ plan \in [Sessions -> BOOLEAN] /\ cancel \in [Sessions -> BOOLEAN]
    /\ asked \subseteq (Sessions \union {Parent}) \X {EffectOf(c) : c \in Call}
    /\ ran \subseteq Sessions \X Call

\* A flag of one session is set or cleared.
LEMMA FlagType ==
    ASSUME NEW f \in [Sessions -> BOOLEAN], NEW s \in Sessions, NEW b \in BOOLEAN
    PROVE  [f EXCEPT ![s] = b] \in [Sessions -> BOOLEAN]
  OBVIOUS

\* Every step keeps the ledgers.
LEMMA LedgersStep ==
    ASSUME IInv, Ledgers, [Next]_vars
    PROVE  Ledgers'
  <1>1. UNCHANGED settings
    BY DEF Next, vars, BeginTurn, AskModel, UnknownTool, HookRaises, Refuse, HookRejects, Admit, Raise, Run,
           Stage, Unavailable, Return, SaveScope, LoadAttach, SaveAttach, RoundEnds, Cancel, Resolve
  <1>2. plan' \in [Sessions -> BOOLEAN]
    <2>1. CASE UNCHANGED plan
      BY <2>1 DEF Ledgers
    <2>2. ASSUME NEW s \in Sessions, BeginTurn(s)
          PROVE  plan' \in [Sessions -> BOOLEAN]
      <3>1. (plan[s] \/ (s \in Planned /\ ~Child(s))) \in BOOLEAN
        OBVIOUS
      <3>2. plan' = plan \/ plan' = [plan EXCEPT ![s] = plan[s] \/ (s \in Planned /\ ~Child(s))]
        BY <2>2 DEF BeginTurn
      <3> QED
        BY <3>1, <3>2, FlagType DEF Ledgers
    <2>3. ASSUME NEW s \in Sessions, RoundEnds(s)
          PROVE  plan' \in [Sessions -> BOOLEAN]
      BY <2>3, FlagType DEF Ledgers, RoundEnds
    <2> QED
      BY <2>1, <2>2, <2>3 DEF Next, vars, AskModel, UnknownTool, HookRaises, Refuse, HookRejects, Admit, Raise,
           Run, Stage, Unavailable, Return, SaveScope, LoadAttach, SaveAttach, Cancel, Resolve
  <1>3. cancel' \in [Sessions -> BOOLEAN]
    <2>1. CASE UNCHANGED cancel
      BY <2>1 DEF Ledgers
    <2>2. ASSUME NEW s \in Sessions, NEW b \in BOOLEAN, cancel' = [cancel EXCEPT ![s] = b]
          PROVE  cancel' \in [Sessions -> BOOLEAN]
      BY <2>2, FlagType DEF Ledgers
    <2> QED
      BY <2>1, <2>2 DEF Next, vars, BeginTurn, AskModel, Leave, UnknownTool, HookRaises, Refuse, HookRejects,
           Admit, Raise, Run, Stage, Unavailable, Return, SaveScope, LoadAttach, SaveAttach, RoundEnds, Cancel,
           Resolve
  <1>4. asked' \subseteq (Sessions \union {Parent}) \X {EffectOf(c) : c \in Call}
    <2>1. CASE UNCHANGED asked
      BY <2>1 DEF Ledgers
    <2>2. ASSUME NEW s \in Sessions, Stage(s)
          PROVE  asked' \subseteq (Sessions \union {Parent}) \X {EffectOf(c) : c \in Call}
      <3>1. loop[s].call \in Call
        BY <2>2 DEF IInv, Admitted, Stage, At
      <3>2. asked' = asked \union {<<who, EffectOf(loop[s].call)>> : who \in {s, Owner(s)}}
        BY <2>2 DEF Stage
      <3> QED
        BY <3>1, <3>2 DEF Ledgers, Owner
    <2> QED
      BY <2>1, <2>2 DEF Next, vars, history, BeginTurn, AskModel, UnknownTool, HookRaises, Refuse, HookRejects,
           Admit, Raise, Run, Unavailable, Return, SaveScope, LoadAttach, SaveAttach, RoundEnds, Cancel, Resolve
  <1>5. ran' \subseteq Sessions \X Call
    <2>1. CASE UNCHANGED ran
      BY <2>1 DEF Ledgers
    <2>2. ASSUME NEW s \in Sessions, Raise(s) \/ Run(s)
          PROVE  ran' \subseteq Sessions \X Call
      <3>1. loop[s].call \in Call
        BY <2>2 DEF IInv, Admitted, Raise, Run, At
      <3>2. ran' = ran \/ ran' = ran \union {<<s, loop[s].call>>}
        BY <2>2 DEF Raise, Run, Effected
      <3> QED
        BY <3>1, <3>2 DEF Ledgers
    <2> QED
      BY <2>1, <2>2 DEF Next, vars, history, BeginTurn, AskModel, UnknownTool, HookRaises, Refuse, HookRejects,
           Admit, Stage, Unavailable, Return, SaveScope, LoadAttach, SaveAttach, RoundEnds, Cancel, Resolve
  <1> QED
    BY <1>1, <1>2, <1>3, <1>4, <1>5 DEF Ledgers, settings

\* It holds at the start.
LEMMA LedgersInit == Init => Ledgers
  <1> SUFFICES ASSUME Init PROVE Ledgers
    OBVIOUS
  <1>1. PICK setup \in Setups : /\ policy = setup.policy /\ tools = setup.tools
                                /\ profile = setup.profile /\ limited = setup.limited
    BY DEF Init
  <1>2. setup = [policy |-> setup.policy, tools |-> setup.tools, profile |-> setup.profile,
                 limited |-> setup.limited]
    BY SetupsAssumption
  <1>3. plan = [s \in Sessions |-> FALSE] /\ cancel = [s \in Sessions |-> FALSE] /\ asked = {} /\ ran = {}
    BY DEF Init
  <1> QED
    BY <1>1, <1>2, <1>3 DEF Ledgers

\* The invariants together.
LEMMA TypesHold == IInv /\ BInv /\ TInv /\ Ledgers => StagedForTheAsker
  <1> SUFFICES ASSUME IInv, BInv, TInv, Ledgers PROVE StagedForTheAsker
    OBVIOUS
  <1>1. ASSUME NEW s \in Sessions
        PROVE  loop[s] \in [pc : pcs, more : BOOLEAN, keep : BOOLEAN, failed : BOOLEAN, retry : BOOLEAN,
                            call : Call \union {<<>>}, token : 0 .. Len(store),
                            copy : Actions \union {NoCopy}, told : BOOLEAN]
    <2>1. loop[s] \in Turn /\ loop[s].token <= Len(store) /\ Len(store) \in Nat
      BY DEF IInv
    <2>2. loop[s].token \in 0 .. Len(store)
      BY <2>1 DEF Turn
    <2> QED
      BY <2>1, <2>2 DEF Turn
  <1>2. loop = [s \in Sessions |-> loop[s]]
    BY DEF IInv
  <1>3. TypeOK
    BY <1>1, <1>2 DEF TypeOK, Ledgers, IInv, BInv
  <1>4. \A s \in Sessions : loop[s].token # 0 => store[loop[s].token].call = EffectOf(loop[s].call)
    BY DEF TInv, Held
  <1>5. \A k \in 1 .. Len(store) : store[k].session # NoOne => <<store[k].session, store[k].call>> \in asked
    BY DEF TInv, Owned
  <1> QED
    BY <1>3, <1>4, <1>5 DEF StagedForTheAsker

\* The token a call returns names an action for this very call, and every action is filed under
\* a session that asked for it or whose subagent did, though sessions share an action
\* (PendingActionStore.stage), relabel it and copy it by reads and writes that interleave.
THEOREM FiledRight == Spec => []StagedForTheAsker
  <1>1. IInv /\ TInv /\ [Next]_vars => TInv'
    BY TInvStep
  <1>2. IInv /\ Ledgers /\ [Next]_vars => Ledgers'
    BY LedgersStep
  <1> QED
    BY <1>1, <1>2, TInvInit, LedgersInit, TalliesStart, TalliesStay, TypesHold, Starts, Stays, PTL DEF Spec

=============================================================================
