--------------------------- MODULE MCLeakyBucket ---------------------------
(***************************************************************************)
(* LeakyBucket for TLC: 7 ticks make a second and 3 tokens, so a token     *)
(* takes 2 1/3 ticks and refills cut off each fraction; 7 ticks make       *)
(* exactly 3 tokens, where the computed number may be one less.            *)
(***************************************************************************)
EXTENDS LeakyBucket
=============================================================================
