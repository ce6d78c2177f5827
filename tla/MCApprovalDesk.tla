--------------------------- MODULE MCApprovalDesk ---------------------------
(***************************************************************************)
(* ApprovalDesk on small instances.                                        *)
(***************************************************************************)
EXTENDS ApprovalDesk, TLC

\* No step tells one analyst from another.
AnalystSymmetry == Permutations(Analysts)
=============================================================================
