--------------------------- MODULE MCCodingTasks ---------------------------
(* A small instance of CodingTasks: pairs of hosts on one workspace.       *)
EXTENDS CodingTasks, TLC

CONSTANTS e1, e2, r1, r2

MCScenes == {{"task", r1, "shell"}, {"task", r1, r2}, {"task", r1, "cycle"},
             {"cycle", "shell"}}
MCSymmetry == Permutations({e1, e2})
=============================================================================
