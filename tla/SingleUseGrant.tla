--------------------------- MODULE SingleUseGrant ---------------------------
(***************************************************************************)
(* What the approval gate promises about one token, without files, loads   *)
(* or saves: a staged action waits for the user, an approval lets it run,  *)
(* a failed run may be approved again, and an action that ran or that was  *)
(* voided (rejected, expired, invalidated, abandoned by a crash) never     *)
(* runs any more.                                                          *)
(***************************************************************************)
CONSTANT Tokens
VARIABLE status

Statuses == {"unasked", "waiting", "running", "used", "void"}

Init == status = [t \in Tokens |-> "unasked"]

Move(t, from, to) == status[t] \in from /\ status' = [status EXCEPT ![t] = to]

Ask(t)     == Move(t, {"unasked"}, "waiting")
Begin(t)   == Move(t, {"waiting"}, "running")
Succeed(t) == Move(t, {"running"}, "used")
Fail(t)    == Move(t, {"running"}, "waiting")
Void(t)    == Move(t, {"waiting", "running"}, "void")

Next == \E t \in Tokens : Ask(t) \/ Begin(t) \/ Succeed(t) \/ Fail(t) \/ Void(t)

Spec == Init /\ [][Next]_status
=============================================================================
