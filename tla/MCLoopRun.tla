----------------------------- MODULE MCLoopRun -----------------------------
(***************************************************************************)
(* Root of the runs of LoopRun, its screens and its refinement; the        *)
(* instances are in the configurations.                                    *)
(***************************************************************************)
EXTENDS LoopGate
=============================================================================
