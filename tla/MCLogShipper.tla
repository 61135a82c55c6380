--------------------------- MODULE MCLogShipper ---------------------------
(***************************************************************************)
(* LogShipper for TLC.                                                     *)
(***************************************************************************)
EXTENDS LogShipper, TLC

\* The events are interchangeable: no definition orders them.
EventSymmetry == Permutations(Events)
=============================================================================
