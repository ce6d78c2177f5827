--------------------------- MODULE MCClientCache ---------------------------
(***************************************************************************)
(* ClientCache on a small instance, and its tables, which have none.       *)
(***************************************************************************)
EXTENDS ClientCache

\* What is listed as forgotten is really neither invalidated nor polled.
ASSUME NothingExcusedInVain == \A p \in Pairs : p.excused => ~p.covered /\ ~p.polled
=============================================================================
