---------------------------- MODULE MCRiskLedger ----------------------------
(***************************************************************************)
(* RiskLedger on a short scale, with weights in the proportions of WEIGHTS *)
(* (risk_engine.py): a click outweighs everything else, a completion that  *)
(* is understood earns more than one that is not.                          *)
(***************************************************************************)
EXTENDS RiskLedger, TLC

SmallChange ==
    [k \in Kinds |->
        CASE k = "click"         -> {3}
          [] k = "report"        -> {-2}
          [] k = "sensor"        -> {-1}
          [] k = "exposure"      -> {0}
          [] k = "completed"     -> {-1}
          [] k = "comprehension" -> {-2, -1}
          [] k = "failed"        -> {1}
          [] k = "ignored"       -> {1}]

\* A signal for each half of the score, and one in the other direction.
FewChanges ==
    [k \in Kinds |->
        CASE k = "click"   -> {3}
          [] k = "report"  -> {-2}
          [] k = "ignored" -> {1}
          [] OTHER         -> {}]

Interchangeable == Permutations(Sessions)
=============================================================================
