--------------------------- MODULE MCApprovalGate ---------------------------
(* Instances of ApprovalGate for TLC: the hosts and the tokens.               *)
EXTENDS ApprovalGate

CONSTANTS h1, t1
=============================================================================
