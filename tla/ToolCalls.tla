----------------------------- MODULE ToolCalls -----------------------------
(* A tool call from the model to its effect: the runtime's hooks around the    *)
(* call, ToolRegistry.execute with its policy, guardrail and worktree mode,    *)
(* the staging of what a host must review, and the session the pending action  *)
(* is filed under.  Sessions of one workspace share the pending store and run  *)
(* in threads of their own; a subagent's session has a capability profile and  *)
(* a registry cloned from its parent's.                                        *)
EXTENDS Integers, FiniteSets, Sequences, Functions

CONSTANTS
    Sessions,      \* the sessions whose loops run
    Parent,        \* the session the subagents among them were forked from
    NoOne,         \* no session
    Tools, Meta,   \* the tools, and the ToolMetadata of each
    Arguments,     \* the kinds of paths and of commands the model names
    Setups,        \* the policy and the tools a host may configure, who runs, who has a limit
    Planned,       \* the sessions whose host may approve a risky plan
    Cancelled,     \* the sessions whose turn may be cancelled
    MaxCalls,      \* calls in a behaviour that reach their tool
    MaxToolCalls   \* RuntimeExecutionGuardrails.max_tool_calls

Modes == {"workspace-write", "prompt", "read-only", "danger-full-access"}
Verdicts == {"allow", "ask", "deny"}
Families == {"file", "shell", "repo", "memory", "subagent", "extension", "mcp", "web", "browser", "host"}
Overrides == {"requests_network", "touches_external", "destructive_hint", "protected_path_hint", "touches_workspace"}
Metadata ==
    [family : Families, domain : {"read", "edit", "bash", "repo", "external_directory", "approval"},
     model_callable : BOOLEAN, requires_confirmation : BOOLEAN, exact_effect_mode : {"none", "auto", "required"},
     non_side_effectful : BOOLEAN, known_safe_inspect : BOOLEAN,
     requests_network_hint : BOOLEAN, touches_external_hint : BOOLEAN,
     risk_overrides : SUBSET Overrides]

\* ToolMetadata._validate_dynamic_declarations.
ValidMetadata(m) ==
    m.known_safe_inspect =>
        m.non_side_effectful /\ ~m.requests_network_hint /\ ~m.touches_external_hint

PathArgs == {"inside", "outside", "protected"}
Commands == {"look", "peek", "change", "fetch", "erase", "leave"}
Inputs(t) ==
    CASE Meta[t].family = "file"  -> PathArgs \intersect Arguments
      [] Meta[t].family = "shell" -> IF t = "stage_test_command" THEN {"change"} ELSE Commands \intersect Arguments
      [] OTHER                    -> {"any"}
Profiles == {"none", "read_only", "staged_edits", "worktree"}
Call == UNION {{t} \X Inputs(t) : t \in Tools}
Rules == {NoOne} \union (Tools \X Verdicts)

ASSUME SessionsAssumption ==
    /\ Planned \union Cancelled \subseteq Sessions
    /\ Parent \notin Sessions /\ NoOne \notin Sessions \union {Parent} \union (Tools \X Verdicts)
ASSUME MetaAssumption == Meta \in [Tools -> Metadata] /\ \A t \in Tools : ValidMetadata(Meta[t])
\* What the program registers itself: the file and shell tools, the rewind, the web and
\* the browser.
ASSUME BuiltinAssumption ==
    /\ \A t \in Tools :
          /\ Meta[t].family = "shell" <=> t \in {"run_shell", "stage_test_command"}
          /\ Meta[t].family = "shell" => Meta[t].domain = "bash"
          /\ t \in {"write_file", "edit_file"} => Meta[t].family = "file" /\ Meta[t].domain = "edit"
          /\ t = "execute_safe_rewind" => Meta[t].family = "repo"
          /\ Meta[t].family = "web" => Meta[t].requests_network_hint
          /\ Meta[t].family = "browser" => Meta[t].domain = "edit"
    /\ "stage_test_command" \in Tools => "run_shell" \in Tools
ASSUME SetupsAssumption ==
    /\ Setups \subseteq [policy : [mode : Modes, rule : Rules], tools : SUBSET Tools,
                         profile : UNION {[S -> Profiles] : S \in SUBSET Sessions},
                         limited : SUBSET Sessions]
    /\ \A setup \in Setups : setup.limited \subseteq {s \in DOMAIN setup.profile : setup.profile[s] = "none"}
ASSUME BoundsAssumption == {MaxCalls, MaxToolCalls} \subseteq Nat

VARIABLES
    policy,     \* ToolPolicyConfig of the workspace
    tools,      \* the tools registered in it
    profile,    \* the sessions that run, and the capability profile of each
    limited,    \* the sessions with a RuntimeExecutionContext attached
    plan,       \* AgentRuntime._approved_pending_plan
    loop,       \* where a session's _run_loop is
    cancel,     \* its cancellation token
    counter,    \* RuntimeExecutionCounters.tool_calls of its registry
    store,      \* the pending actions; a token is an index
    made,       \* history: how often tools of a session were executed
    asked,      \* history: who asked for a review of which call
    ran         \* history: the calls with an effect that ran without a review

settings == <<policy, tools, profile, limited>>
history == <<made, asked, ran>>
vars == <<settings, plan, loop, cancel, counter, store, history>>

Child(s) == profile[s] # "none"
InWorktree(s) == profile[s] = "worktree"
-----------------------------------------------------------------------------
(* What the program thinks a call does: the analysis of effects.py.           *)

Dynamic(t) == Meta[t].family \in {"extension", "mcp"}
OnTheWeb(m) == m.family \in {"web", "browser"}
Blank == [risk |-> "none", band |-> "unknown", network |-> FALSE, external |-> FALSE, destructive |-> FALSE,
          protected |-> FALSE, safe |-> FALSE, quiet |-> FALSE]

FileAnalysis(t, path) ==
    [Blank EXCEPT !.risk = IF Meta[t].domain = "read" THEN "inspect" ELSE "workspace_mutation",
                  !.band = "high", !.external = path = "outside", !.protected = path = "protected"]

\* classify_shell_effect, by the kinds of commands it tells apart.
ShellAnalysis(cmd) ==
    CASE cmd = "look"   -> [Blank EXCEPT !.risk = "inspect", !.band = "high", !.safe = TRUE]
      [] cmd = "peek"   -> [Blank EXCEPT !.risk = "inspect", !.band = "medium"]
      [] cmd = "change" -> [Blank EXCEPT !.risk = "workspace_mutation", !.band = "medium"]
      [] cmd = "fetch"  -> [Blank EXCEPT !.risk = "networked", !.band = "medium", !.network = TRUE]
      [] cmd = "erase"  -> [Blank EXCEPT !.risk = "destructive", !.band = "medium", !.destructive = TRUE]
      [] cmd = "leave"  -> [Blank EXCEPT !.risk = "external_mutation", !.band = "medium", !.external = TRUE]

Network(m) == m.requests_network_hint \/ "requests_network" \in m.risk_overrides
External(m) == m.touches_external_hint \/ "touches_external" \in m.risk_overrides

\* _dynamic_base_analysis: only a declared inspection reaches the high band.
DynamicAnalysis(m) ==
    LET network == Network(m)
        external == External(m)
        destructive == "destructive_hint" \in m.risk_overrides
        quiet == m.non_side_effectful /\ ~(network \/ external \/ destructive)
        safe == m.known_safe_inspect /\ quiet
    IN  [risk |-> IF safe THEN "inspect" ELSE "unknown", band |-> IF safe THEN "high" ELSE "low",
         network |-> network, external |-> external, destructive |-> destructive,
         protected |-> "protected_path_hint" \in m.risk_overrides, safe |-> safe, quiet |-> quiet]

RepoAnalysis == [Blank EXCEPT !.risk = "inspect", !.band = "high", !.safe = TRUE]

\* The analysis evaluate_call passes on: none for the web and browser tools.
Analysis(c) ==
    CASE Meta[c[1]].family = "file"  -> FileAnalysis(c[1], c[2])
      [] Meta[c[1]].family = "shell" -> ShellAnalysis(c[2])
      [] Meta[c[1]].family = "repo"  -> RepoAnalysis
      [] Dynamic(c[1])               -> DynamicAnalysis(Meta[c[1]])
      [] OTHER                       -> Blank
-----------------------------------------------------------------------------
(* What a call may do when it runs, whatever the program thinks of it.  A tool *)
(* of an extension or a server does what its author declares; it was built for *)
(* the parent's workspace, and a subagent in a worktree calls the same tool.   *)
(* The text of a command says nothing certain about what the command does.     *)

Anywhere == {"worktree", "workspace", "outside", "network"}
MayTouch(s, c) ==
    LET m == Meta[c[1]]
    IN  CASE m.family = "file" ->
                IF m.domain = "edit" THEN {IF InWorktree(s) THEN "worktree" ELSE "workspace"} ELSE {}
          [] m.family = "shell" -> Anywhere
          [] Dynamic(c[1]) ->
                (IF m.non_side_effectful THEN {} ELSE {"workspace"})
                    \union (IF Network(m) THEN {"network"} ELSE {})
                    \union (IF External(m) THEN {"outside"} ELSE {})
          [] OnTheWeb(m) -> {"network"}
          [] m.family = "repo" -> IF c[1] = "execute_safe_rewind" THEN {"workspace", "conversation"} ELSE {}
          [] m.family = "memory" -> {"memory"}
          [] m.family = "subagent" -> {"conversation"}
          [] OTHER -> {}
-----------------------------------------------------------------------------
(* ToolPolicyEvaluator.evaluate.                                               *)

RuleFor(t) == IF policy.rule # NoOne /\ policy.rule[1] = t THEN policy.rule[2] ELSE "none"

HighInspect(m, an) ==
    /\ m.domain \in {"read", "repo"} /\ an.risk = "inspect" /\ an.band = "high"
    /\ ~an.network /\ ~an.destructive /\ ~an.external

ReadOnlyAllowed(m, an) ==
    IF m.domain = "read"
    THEN ~an.network /\ ~an.destructive /\ ~an.external /\ an.risk \in {"none", "inspect"}
    ELSE HighInspect(m, an)

ModeVerdict(m, an) ==
    CASE policy.mode = "danger-full-access" -> "allow"
      [] policy.mode = "prompt"             -> IF HighInspect(m, an) THEN "allow" ELSE "ask"
      [] policy.mode = "read-only"          -> IF ReadOnlyAllowed(m, an) THEN "allow" ELSE "deny"

AnalysisVerdict(m, an) ==
    CASE an.external                          -> "deny"
      [] ~an.external /\ m.family \in {"extension", "mcp"} ->
            IF an.risk = "inspect" /\ an.band = "high" /\ an.safe /\ an.quiet /\ ~an.network /\ ~an.destructive
            THEN "allow" ELSE "ask"
      [] ~an.external /\ m.family = "shell"   ->
            IF an.band = "high" /\ an.risk = "inspect" /\ an.safe THEN "allow" ELSE "ask"
      [] OTHER                                -> "allow"

Evaluate(t, an) ==
    LET m == Meta[t]
        outside == m.domain = "external_directory" \/ (m.family = "file" /\ an.external)
    IN  IF outside \/ an.protected THEN "deny"
        ELSE IF RuleFor(t) # "none" THEN RuleFor(t)
        ELSE IF policy.mode # "workspace-write" THEN ModeVerdict(m, an)
        ELSE IF OnTheWeb(m) THEN "allow"
        ELSE IF m.domain = "edit" THEN "ask"
        ELSE AnalysisVerdict(m, an)

Verdict(c) == Evaluate(c[1], Analysis(c))

\* _allow_tool of a profile whose allowlists and flags admit every other tool.
WriteTools == {"write_file", "edit_file", "run_shell", "stage_test_command", "execute_safe_rewind"}
ApprovalTools == {"approve_pending_action", "reject_pending_action", "rollback_file_checkpoint"}
ToolAllowed(s, t) ==
    /\ profile[s] = "read_only" => t \notin WriteTools \union ApprovalTools
    /\ Child(s) => t \notin ApprovalTools

\* build_subagent_tool_registry: the clone registers the tools its profile names.
Registered(s, t) == t \in tools /\ (Child(s) => ToolAllowed(s, t) /\ Meta[t].model_callable)
-----------------------------------------------------------------------------
(* Where an admitted call goes.                                                *)

\* _dynamic_exact_effect_approvable.
Explicit(m) ==
    \/ m.exact_effect_mode = "required"
    \/ m.non_side_effectful \/ m.known_safe_inspect \/ m.requests_network_hint \/ m.touches_external_hint
Approvable(m, an) ==
    /\ m.exact_effect_mode # "none"
    /\ m.exact_effect_mode = "auto" => Explicit(m)
    /\ an.band \in {"unknown", "low"} => m.exact_effect_mode = "required"

\* Mutant of DirectEligible: what the policy allows is run as it is.
DirectEligibleIfAllowed(m, an) == m.family \in {"extension", "mcp"} /\ m.exact_effect_mode # "none"

DirectEligible(m, an) ==
    /\ m.family \in {"extension", "mcp"} /\ m.exact_effect_mode # "none"
    /\ an.band = "high" /\ an.risk = "inspect" /\ an.safe /\ an.quiet
    /\ ~an.network /\ ~an.external /\ ~an.destructive

StageOrFail(m, an) == IF Approvable(m, an) THEN "stage" ELSE "unavailable"

\* _FunctionTool.execute: it evaluates the call again, now with the analysis that
\* evaluate_call leaves out for the web and browser tools.
DynamicRoute(t) ==
    LET m == Meta[t]
        an == DynamicAnalysis(m)
        verdict == Evaluate(t, an)
    IN  CASE verdict = "deny" -> "raise"
          [] verdict = "ask"  -> StageOrFail(m, an)
          [] OTHER -> IF OnTheWeb(m) THEN "run"
                      ELSE IF m.exact_effect_mode = "required" THEN StageOrFail(m, an)
                      ELSE IF DirectEligible(m, an) THEN "run" ELSE "raise"

\* _enforce_worktree_analysis.
WorktreeAdmits(m, an) ==
    /\ ~an.network /\ ~an.external /\ ~an.destructive /\ ~an.protected
    /\ an.band \in {"unknown", "low"} /\ ~an.safe => m.exact_effect_mode = "required"

\* The tools _execute_worktree_tool takes over.
TakenOver(t) == t \in {"write_file", "edit_file", "run_shell"} \/ Dynamic(t)
WorktreeRoute(c) ==
    IF Meta[c[1]].family = "file" \/ WorktreeAdmits(Meta[c[1]], Analysis(c)) THEN "run" ELSE "raise"

\* The built-in tools: a read runs, an edit and a command are always staged, whatever
\* the verdict was; a test command is staged as the command it makes.
FileRoute(c) ==
    IF Meta[c[1]].domain = "edit" THEN "stage" ELSE IF Verdict(c) = "allow" THEN "run" ELSE "raise"
ShellRoute(c) == IF Evaluate("run_shell", Analysis(c)) = "deny" THEN "raise" ELSE "stage"

Route(s, c) ==
    IF InWorktree(s) /\ TakenOver(c[1]) THEN WorktreeRoute(c)
    ELSE CASE Meta[c[1]].family = "file"  -> FileRoute(c)
           [] Meta[c[1]].family = "shell" -> ShellRoute(c)
           [] Meta[c[1]].family \in {"repo", "memory", "subagent"} -> "run"
           [] OTHER                       -> DynamicRoute(c[1])
-----------------------------------------------------------------------------
(* The pending store.                                                          *)

\* Commands and dynamic calls are staged without a session; an edit carries the
\* session of the registry its tool was built by: clone_selected keeps the
\* registrations, and with them the factories, of the parent.
Owner(s) == IF Child(s) THEN Parent ELSE s
StagedFor(s, c) == IF Meta[c[1]].family = "file" THEN Owner(s) ELSE NoOne
\* stage_test_command stages the run_shell action of its command.
EffectOf(c) == IF c[1] = "stage_test_command" THEN <<"run_shell", c[2]>> ELSE c

\* Mutant of ActiveMatches: any active action of the same tool.
ActiveMatchesByTool(s, c) ==
    {k \in 1 .. Len(store) :
        /\ store[k].state = "active" /\ store[k].call[1] = EffectOf(c)[1]
        /\ StagedFor(s, c) # NoOne => store[k].session \in {NoOne, StagedFor(s, c)}}

\* PendingActionStore._find_active_match.
ActiveMatches(s, c) ==
    {k \in 1 .. Len(store) :
        /\ store[k].state = "active" /\ store[k].call = EffectOf(c)
        /\ StagedFor(s, c) # NoOne => store[k].session \in {NoOne, StagedFor(s, c)}}

NoCopy == [call |-> <<>>, session |-> NoOne, traced |-> FALSE, state |-> "none"]
Actions ==
    [call : {EffectOf(c) : c \in Call}, session : Sessions \union {Parent, NoOne},
     traced : BOOLEAN, state : {"active", "resolved"}]
-----------------------------------------------------------------------------
Idle == [pc |-> "idle", more |-> FALSE, keep |-> FALSE, failed |-> FALSE, retry |-> FALSE,
         call |-> <<>>, token |-> 0, copy |-> NoCopy, told |-> FALSE]
pcs == {"idle", "model", "tools", "execute", "return", "label", "filed", "attach"}

TypeOK ==
    /\ [policy |-> policy, tools |-> tools, profile |-> profile, limited |-> limited] \in Setups
    /\ plan \in [Sessions -> BOOLEAN] /\ cancel \in [Sessions -> BOOLEAN]
    /\ loop \in [Sessions -> [pc : pcs, more : BOOLEAN, keep : BOOLEAN, failed : BOOLEAN, retry : BOOLEAN,
                               call : Call \union {<<>>}, token : 0 .. Len(store),
                               copy : Actions \union {NoCopy}, told : BOOLEAN]]
    /\ counter \in [Sessions -> Nat] /\ made \in [Sessions -> Nat]
    /\ store \in Seq(Actions)
    /\ asked \subseteq (Sessions \union {Parent}) \X {EffectOf(c) : c \in Call}
    /\ ran \subseteq Sessions \X Call

Init ==
    /\ \E setup \in Setups :
          /\ policy = setup.policy /\ tools = setup.tools
          /\ profile = setup.profile /\ limited = setup.limited
    /\ plan = [s \in Sessions |-> FALSE] /\ cancel = [s \in Sessions |-> FALSE]
    /\ loop = [s \in Sessions |-> Idle]
    /\ counter = [s \in Sessions |-> 0] /\ made = [s \in Sessions |-> 0]
    /\ store = <<>> /\ asked = {} /\ ran = {}
-----------------------------------------------------------------------------
(* The loop of one session.                                                    *)

At(s, pc) == loop[s].pc = pc
Move(s, pc) == loop' = [loop EXCEPT ![s].pc = pc]
Made == FoldFunction(+, 0, made)

\* The end of _run_loop clears the token it found set.
Leave(s) ==
    /\ loop' = [loop EXCEPT ![s] = Idle]
    /\ cancel' = [cancel EXCEPT ![s] = FALSE]

\* prompt, or approve_pending_plan for the session of a user.
BeginTurn(s) ==
    /\ s \in DOMAIN profile /\ At(s, "idle") /\ Made < MaxCalls
    /\ loop' = [loop EXCEPT ![s] = [Idle EXCEPT !.pc = "model", !.keep = TRUE]]
    /\ cancel' = [cancel EXCEPT ![s] = FALSE]
    /\ plan' \in {plan, [plan EXCEPT ![s] = @ \/ (s \in Planned /\ ~Child(s))]}
    /\ UNCHANGED <<settings, counter, store, history>>

\* One pass of _run_loop: the model answers, with calls or without.
AskModel(s) ==
    /\ At(s, "model")
    /\ \/ Leave(s)
       \/ /\ ~cancel[s] /\ UNCHANGED cancel
          /\ loop' = [loop EXCEPT ![s] = [@ EXCEPT !.pc = "tools", !.more = TRUE, !.failed = FALSE, !.retry = FALSE]]
    /\ UNCHANGED <<settings, plan, counter, store, history>>

Calling(s) == At(s, "tools") /\ loop[s].more /\ ~cancel[s]

\* A call is over: the answer names another one, or it was the last.
Called(s, turn) ==
    \E more \in BOOLEAN :
        loop' = [loop EXCEPT ![s] = [turn EXCEPT !.pc = "tools", !.more = more, !.call = <<>>,
                                                !.token = 0, !.copy = NoCopy]]

\* A call failed: the error hook says whether the model may try again.
Fail(s, retry) ==
    Called(s, [loop[s] EXCEPT !.failed = TRUE, !.retry = loop[s].retry \/ retry])
\* _default_tool_error_hook: the coding tools are retried, unless they wait for a host.
CodingTools == {"write_file", "edit_file", "run_shell", "stage_test_command", "git_diff_worktree"}

\* The model names a tool the registry does not have: no hook is asked.
UnknownTool(s) ==
    /\ Calling(s) /\ Made < MaxCalls
    /\ Fail(s, FALSE)
    /\ UNCHANGED <<settings, plan, cancel, counter, store, history>>

\* The contract of the turn (an orchestrated edit, an explicit subagent) or the
\* user's confirmation refuses the call.
Refuse(s, c) ==
    /\ Calling(s) /\ Registered(s, c[1]) /\ Made < MaxCalls
    /\ Fail(s, c[1] \in CodingTools)
    /\ UNCHANGED <<settings, plan, cancel, counter, store, history>>

\* _default_before_tool_call: what a host must review passes under an approved plan,
\* or when the tool can only be staged.
HookAdmits(s, c) ==
    \/ Verdict(c) = "allow"
    \/ Verdict(c) = "ask" /\ (plan[s] \/ (Dynamic(c[1]) /\ Meta[c[1]].exact_effect_mode = "required"))

HookRejects(s, c) ==
    /\ Calling(s) /\ Registered(s, c[1]) /\ Made < MaxCalls
    /\ ~HookAdmits(s, c)
    /\ Fail(s, c[1] \in CodingTools /\ Verdict(c) = "deny")
    /\ UNCHANGED <<settings, plan, cancel, counter, store, history>>

\* The hook raises: evaluate_call on a test target it cannot use, the console that asks
\* the user to confirm a call when it is closed.  The exception leaves _run_loop by way
\* of prompt, before the tail of the loop.
HookRaises(s) ==
    /\ Calling(s)
    /\ \E t \in Tools :
          /\ Registered(s, t)
          /\ t = "stage_test_command" \/ (Meta[t].requires_confirmation /\ ~plan[s])
    /\ loop' = [loop EXCEPT ![s] = Idle]
    /\ UNCHANGED <<settings, plan, cancel, counter, store, history>>

\* ToolRegistry.execute up to the tool: a tool for the host alone raises, a session
\* at its limit gets a result that says so.
Blocked(s) == s \in limited /\ counter[s] >= MaxToolCalls
Admit(s, c) ==
    /\ Calling(s) /\ Registered(s, c[1]) /\ HookAdmits(s, c) /\ Made < MaxCalls
    /\ \/ ~Meta[c[1]].model_callable /\ Fail(s, c[1] \in CodingTools) /\ UNCHANGED made
       \/ /\ Meta[c[1]].model_callable /\ Blocked(s)
          /\ Called(s, loop[s]) /\ UNCHANGED made
       \/ /\ Meta[c[1]].model_callable /\ ~Blocked(s)
          /\ loop' = [loop EXCEPT ![s] = [@ EXCEPT !.pc = "execute", !.call = c]]
          /\ made' = [made EXCEPT ![s] = @ + 1]
    /\ UNCHANGED <<settings, plan, cancel, counter, store, asked, ran>>

\* increment_runtime_counter, also on the way of an exception.
Count(s) == counter' = IF s \in limited THEN [counter EXCEPT ![s] = @ + 1] ELSE counter

Effected(s, c) == IF MayTouch(s, c) = {} THEN ran ELSE ran \union {<<s, c>>}

\* Mutant of Raise: only a call that returns is counted.
RaiseUncounted(s) ==
    /\ At(s, "execute")
    /\ Fail(s, loop[s].call[1] \in CodingTools)
    /\ \/ UNCHANGED ran
       \/ Route(s, loop[s].call) = "run" /\ ran' = Effected(s, loop[s].call)
    /\ UNCHANGED <<settings, plan, cancel, counter, store, made, asked>>

\* The tool raises: policy, a file that exists, a command that fails.
Raise(s) ==
    /\ At(s, "execute")
    /\ Count(s)
    /\ Fail(s, loop[s].call[1] \in CodingTools)
    /\ \/ UNCHANGED ran
       \/ Route(s, loop[s].call) = "run" /\ ran' = Effected(s, loop[s].call)
    /\ UNCHANGED <<settings, plan, cancel, store, made, asked>>

\* The tool runs.  A change in a worktree ends the turn as a staged one does.
Run(s) ==
    LET c == loop[s].call
        isolated == /\ InWorktree(s) /\ TakenOver(c[1])
                    /\ Dynamic(c[1]) => "touches_workspace" \in Meta[c[1]].risk_overrides
    IN  /\ At(s, "execute") /\ Route(s, c) = "run"
        /\ ran' = Effected(s, c)
        /\ loop' = [loop EXCEPT ![s] = [@ EXCEPT !.pc = "return", !.told = loop[s].told \/ isolated]]
        /\ UNCHANGED <<settings, plan, cancel, counter, store, made, asked>>

\* PendingActionStore.stage: an active action of the same effect is returned.
Stage(s) ==
    LET c == loop[s].call
        matches == ActiveMatches(s, c)
        new == [call |-> EffectOf(c), session |-> StagedFor(s, c), traced |-> FALSE, state |-> "active"]
    IN  /\ At(s, "execute") /\ Route(s, c) = "stage"
        /\ asked' = asked \union {<<who, EffectOf(c)>> : who \in {s, Owner(s)}}
        /\ \/ /\ matches # {} /\ UNCHANGED store
              /\ \E k \in matches :
                    loop' = [loop EXCEPT ![s] = [@ EXCEPT !.pc = "return", !.token = k]]
           \/ /\ matches = {} /\ store' = Append(store, new)
              /\ loop' = [loop EXCEPT ![s] = [@ EXCEPT !.pc = "return", !.token = Len(store) + 1]]
        /\ UNCHANGED <<settings, plan, cancel, counter, made, ran>>

\* The call cannot be put to a host either: an error result, and the turn ends.
Unavailable(s) ==
    /\ At(s, "execute") /\ Route(s, loop[s].call) = "unavailable"
    /\ loop' = [loop EXCEPT ![s] = [@ EXCEPT !.pc = "return", !.told = TRUE]]
    /\ UNCHANGED <<settings, plan, cancel, counter, store, history>>

\* A cancel seen here or before the result is filed loses the result: the round
\* is broken off, whatever was staged stays.
Drop(s) ==
    loop' = [loop EXCEPT ![s] =
        [@ EXCEPT !.pc = "tools", !.more = FALSE, !.failed = TRUE, !.keep = FALSE, !.call = <<>>, !.token = 0]]
\* The result is counted; _backfill_pending_scope reads the action in the store of its
\* own workspace ...
Return(s) ==
    /\ At(s, "return")
    /\ Count(s)
    /\ IF cancel[s] THEN Drop(s)
       ELSE loop' = [loop EXCEPT ![s] =
                IF loop[s].token = 0 \/ InWorktree(s) THEN [@ EXCEPT !.pc = "filed"]
                ELSE [@ EXCEPT !.pc = "label", !.copy = store[loop[s].token]]]
    /\ UNCHANGED <<settings, plan, cancel, store, history>>

\* ... and writes it back with the session, or files a copy for the session when
\* the action is another's.
SaveScope(s) ==
    LET copy == loop[s].copy
        mine == [copy EXCEPT !.session = s, !.traced = TRUE]
    IN  /\ At(s, "label")
        /\ \/ /\ copy.session \in {NoOne, s}
              /\ store' = IF copy = mine THEN store ELSE [store EXCEPT ![loop[s].token] = mine]
              /\ loop' = [loop EXCEPT ![s] = [@ EXCEPT !.pc = "filed", !.copy = NoCopy]]
           \/ /\ copy.session \notin {NoOne, s}
              /\ store' = Append(store, mine)
              /\ loop' = [loop EXCEPT ![s] =
                            [@ EXCEPT !.pc = "filed", !.copy = NoCopy, !.token = Len(store) + 1]]
        /\ UNCHANGED <<settings, plan, cancel, counter, history>>

\* Mutant of After: the last call of the round decides.
AfterLastDecides(s) ==
    LET told == loop[s].token # 0
    IN  Called(s, [loop[s] EXCEPT !.keep = ~told, !.told = loop[s].told \/ told])

\* _default_after_tool_call: a review that is due keeps the loop from another pass;
\* the other calls of the round are made all the same.
After(s) ==
    LET told == loop[s].told \/ loop[s].token # 0
    IN  Called(s, [loop[s] EXCEPT !.keep = loop[s].keep /\ ~told, !.told = told])

\* _attach_session_to_pending_action reads the action again ...
LoadAttach(s) ==
    /\ At(s, "filed")
    /\ IF cancel[s] THEN Drop(s)
       ELSE IF loop[s].token = 0 \/ InWorktree(s) THEN After(s)
       ELSE loop' = [loop EXCEPT ![s] = [@ EXCEPT !.pc = "attach", !.copy = store[loop[s].token]]]
    /\ UNCHANGED <<settings, plan, cancel, counter, store, history>>

\* ... and writes it back with the turn's details.
SaveAttach(s) ==
    /\ At(s, "attach")
    /\ store' = [store EXCEPT ![loop[s].token] = loop[s].copy]
    /\ After(s)
    /\ UNCHANGED <<settings, plan, cancel, counter, history>>

\* The round is over: the approval of the plan is used up, a failure stops the loop
\* unless some failed call may be tried again, a steering message stops it too.
RoundEnds(s) ==
    /\ At(s, "tools")
    /\ ~loop[s].more \/ cancel[s]
    /\ plan' = [plan EXCEPT ![s] = FALSE]
    /\ LET goesOn == loop[s].keep /\ ~cancel[s] /\ (loop[s].failed => loop[s].retry)
       IN  \/ goesOn /\ Move(s, "model") /\ UNCHANGED cancel
           \/ (goesOn => ~loop[s].failed) /\ Leave(s)
    /\ UNCHANGED <<settings, counter, store, history>>

Cancel(s) ==
    /\ s \in Cancelled /\ ~At(s, "idle") /\ ~cancel[s]
    /\ cancel' = [cancel EXCEPT ![s] = TRUE]
    /\ UNCHANGED <<settings, plan, loop, counter, store, history>>

\* The host answers an action, or it expires (ApprovalGate has the steps).
Resolve(k) ==
    /\ store[k].state = "active"
    /\ store' = [store EXCEPT ![k].state = "resolved"]
    /\ UNCHANGED <<settings, plan, loop, cancel, counter, history>>

Next ==
    \/ \E s \in Sessions :
        \/ BeginTurn(s) \/ AskModel(s) \/ UnknownTool(s) \/ HookRaises(s)
        \/ \E c \in Call : Refuse(s, c) \/ HookRejects(s, c) \/ Admit(s, c)
        \/ Raise(s) \/ Run(s) \/ Stage(s) \/ Unavailable(s) \/ Return(s)
        \/ SaveScope(s) \/ LoadAttach(s) \/ SaveAttach(s)
        \/ RoundEnds(s) \/ Cancel(s)
    \/ \E k \in 1 .. Len(store) : Resolve(k)

Spec == Init /\ [][Next]_vars
-----------------------------------------------------------------------------
(* What the calls may and must not do.                                         *)

\* The calls that the program never puts to a host, in any mode: a proposal of a memory,
\* a subagent, and the rewind, which restores files and the conversation.
Unguarded(t) == Meta[t].family \in {"memory", "subagent"} \/ t = "execute_safe_rewind"

\* In a worktree: an edit, which stays there; a command classified as harmless; a tool
\* declared "required", which changes the workspace of the parent.
InIsolation(s, c) ==
    \/ Meta[c[1]].family = "file" /\ MayTouch(s, c) = {"worktree"}
    \/ c[1] = "run_shell" /\ ShellAnalysis(c[2]).risk \in {"inspect", "workspace_mutation"}
    \/ Dynamic(c[1]) /\ Meta[c[1]].exact_effect_mode = "required" /\ MayTouch(s, c) = {"workspace"}

MayRunUnreviewed(s, c) ==
    \/ Unguarded(c[1]) \/ OnTheWeb(Meta[c[1]])
    \/ InWorktree(s) /\ InIsolation(s, c)

\* Which calls may have an effect without a host's review, whatever the policy, the
\* approval of a plan and the two evaluations of the call say: the unguarded tools (the
\* rewind among them, although docs/tool_policy.md:10-11 says that the read-only mode
\* blocks writes and that such tools are staged), the web and browser tools, and what a
\* session does in its worktree (where a tool declared "required" is not isolated at all,
\* although test_worktree_dynamic_workspace_tool_executes_in_isolation says so of one
\* built there).  In the read-only mode nothing else than the unguarded tools
\* has an effect or is put to a host, unless the host named the tool in a rule: the web
\* tools are refused at the tool, since the evaluation before the call knows nothing of
\* the network.
NothingUnreviewed ==
    /\ \A run \in ran : MayRunUnreviewed(run[1], run[2])
    /\ policy.mode = "read-only" =>
          /\ \A run \in ran : Unguarded(run[2][1]) \/ RuleFor(run[2][1]) # "none"
          /\ \A k \in 1 .. Len(store), s \in DOMAIN profile :
                MayTouch(s, store[k].call) = {} \/ RuleFor(store[k].call[1]) # "none"

\* Once a call of the round waits for a host, the model is not asked again in this
\* turn, whatever the later calls of the round return or raise.
ReviewEndsTheTurn ==
    [][\A s \in Sessions : loop[s].told /\ loop'[s].pc = "model" => loop[s].pc = "model"]_vars

\* A session with a runtime context never has more tools executed than its limit,
\* those that raised or were cancelled included.
CallsAreBounded == \A s \in limited : made[s] <= MaxToolCalls

\* The token a call returns names an action for this very call, and an action is filed
\* under a session that asked for it, or whose subagent did: sessions that stage the
\* same effect share one action, relabel it and copy it, each in two steps.
StagedForTheAsker ==
    /\ TypeOK
    /\ \A s \in Sessions : loop[s].token # 0 => store[loop[s].token].call = EffectOf(loop[s].call)
    /\ \A k \in 1 .. Len(store) :
          store[k].session # NoOne => <<store[k].session, store[k].call>> \in asked
=============================================================================
