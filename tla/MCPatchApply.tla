---------------------------- MODULE MCPatchApply -----------------------------
(***************************************************************************)
(* PatchApply on two files, with candidates that overlap: one modifies a   *)
(* file and adds the other, one is its inverse (modify and delete), one    *)
(* changes a single file the same way as the first.                        *)
(***************************************************************************)
EXTENDS PatchApply

CONSTANTS f1, f2, c1, c2

MCPath    == {f1, f2}
MCContent == {c1, c2}

Change(o, n) == [old |-> o, new |-> n]

ModifyAndAdd    == [f \in MCPath |-> IF f = f1 THEN Change(c1, c2) ELSE Change(Absent, c1)]
ModifyAndDelete == [f \in MCPath |-> IF f = f1 THEN Change(c2, c1) ELSE Change(c1, Absent)]
ModifyOne       == [f \in {f1} |-> Change(c1, c2)]

MCCandidates == {ModifyAndAdd, ModifyAndDelete, ModifyOne}

\* Workspaces in which some candidate applies, or only half applies.
MCInit == /\ Init
          /\ files \in {[f \in MCPath |-> IF f = f1 THEN x ELSE y] : x \in {c1, c2}, y \in {Absent, c1}}

MCFairSpec == MCInit /\ [][Next]_vars /\ \A p \in Proc : WF_vars(Step(p))
=============================================================================
