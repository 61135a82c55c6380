--------------------------- MODULE MCForwardAuth ---------------------------
(***************************************************************************)
(* ForwardAuth for TLC: two requests, one address, and a list that is      *)
(* empty or holds that address.                                            *)
(***************************************************************************)
EXTENDS ForwardAuth

CONSTANT a1

MCAddrs == {a1}
MCLists == SUBSET MCAddrs
=============================================================================
