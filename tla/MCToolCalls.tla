---------------------------- MODULE MCToolCalls ----------------------------
EXTENDS ToolCalls, TLC
CONSTANTS s1, s2

Quiet ==
    [family |-> "extension", domain |-> "read", model_callable |-> TRUE, requires_confirmation |-> FALSE, exact_effect_mode |-> "auto",
     non_side_effectful |-> FALSE, known_safe_inspect |-> FALSE, requests_network_hint |-> FALSE,
     touches_external_hint |-> FALSE, risk_overrides |-> {}]
MCMeta ==
    [t \in Tools |->
        CASE t = "read_file"  -> [Quiet EXCEPT !.family = "file"]
          [] t = "write_file" -> [Quiet EXCEPT !.family = "file", !.domain = "edit"]
          [] t \in {"run_shell", "stage_test_command"} ->
                [Quiet EXCEPT !.family = "shell", !.domain = "bash", !.requires_confirmation = TRUE]
          [] t = "execute_safe_rewind" ->
                [Quiet EXCEPT !.family = "repo", !.domain = "repo", !.requires_confirmation = TRUE,
                              !.exact_effect_mode = "none"]
          [] t = "memory_propose" -> [Quiet EXCEPT !.family = "memory"]
          [] t = "spawn_subagent" -> [Quiet EXCEPT !.family = "subagent", !.exact_effect_mode = "none"]
          [] t = "approve_pending_action" ->
                [Quiet EXCEPT !.family = "host", !.domain = "approval", !.model_callable = FALSE]
          [] t = "web_search" ->
                [Quiet EXCEPT !.family = "web", !.exact_effect_mode = "none", !.non_side_effectful = TRUE,
                              !.requests_network_hint = TRUE]
          [] t = "browser"    ->
                [Quiet EXCEPT !.family = "browser", !.domain = "edit", !.exact_effect_mode = "none"]
          [] t = "ext_look"   -> [Quiet EXCEPT !.non_side_effectful = TRUE, !.known_safe_inspect = TRUE]
          [] t = "ext_write"  ->
                [Quiet EXCEPT !.domain = "edit", !.exact_effect_mode = "required",
                              !.risk_overrides = {"touches_workspace"}]
          [] t = "mcp_post"   -> [Quiet EXCEPT !.family = "mcp", !.requests_network_hint = TRUE]]

Ways ==
    [mode : Modes, rule : {NoOne}]
        \union {[mode |-> "workspace-write", rule |-> <<"run_shell", "allow">>],
                [mode |-> "read-only", rule |-> <<"ext_write", "allow">>]}
\* One session with every tool and policy, a subagent of each profile, and two
\* sessions that stage the same effects.
Plain == [mode |-> "workspace-write", rule |-> NoOne]
MCSetups ==
    {[policy |-> way, tools |-> Tools, profile |-> s1 :> who[1], limited |-> who[2]] :
            way \in Ways, who \in {<<"none", {}>>, <<"none", {s1}>>, <<"worktree", {}>>}}
        \union {[policy |-> Plain, tools |-> {"ext_write", "run_shell"},
                 profile |-> (s1 :> "none" @@ s2 :> "none"), limited |-> {}],
                [policy |-> Plain, tools |-> {"ext_write"},
                 profile |-> (s1 :> "none" @@ s2 :> "staged_edits"), limited |-> {}]}
        \union {[policy |-> [Plain EXCEPT !.rule = <<"write_file", "allow">>],
                 tools |-> {"write_file", "stage_test_command"},
                 profile |-> (s1 :> "none" @@ s2 :> kind), limited |-> {}] : kind \in {"none", "read_only", "staged_edits"}}
=============================================================================
