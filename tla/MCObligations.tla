--------------------------- MODULE MCObligations ---------------------------
(***************************************************************************)
(* Obligations on a small instance.                                        *)
(***************************************************************************)
EXTENDS Obligations
=============================================================================
