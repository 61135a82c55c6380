--------------------------- MODULE MCEnforcement ---------------------------
(***************************************************************************)
(* Enforcement for TLC: three editions that add, remove and empty the      *)
(* list.  The first has a duplicate line, so entries is not the number of  *)
(* addresses.                                                              *)
(***************************************************************************)
EXTENDS Enforcement

CONSTANTS a1, a2

MCAddrs == {a1, a2}
MCEDL == << [ips |-> {a1}, entries |-> 2],
            [ips |-> {a1, a2}, entries |-> 2],
            [ips |-> {}, entries |-> 0] >>
=============================================================================
