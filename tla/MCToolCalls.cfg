SPECIFICATION Spec
CONSTANTS
    s1 = s1
    s2 = s2
    Sessions = {s1, s2}
    Parent = parent
    NoOne = none
    Tools = {"read_file", "write_file", "execute_safe_rewind", "memory_propose", "spawn_subagent", "run_shell", "stage_test_command", "approve_pending_action", "web_search", "browser", "ext_look", "ext_write", "mcp_post"}
    Meta <- MCMeta
    Arguments = {"inside", "outside", "look", "change", "fetch"}
    Setups <- MCSetups
    Planned = {s1}
    Cancelled = {s1}
    MaxCalls = 2
    MaxToolCalls = 1
INVARIANTS
    NothingUnreviewed
    CallsAreBounded
    StagedForTheAsker
PROPERTIES
    ReviewEndsTheTurn
CHECK_DEADLOCK FALSE
