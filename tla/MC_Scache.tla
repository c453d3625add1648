----------------------------- MODULE MC_Scache -----------------------------
EXTENDS Scache
(* With two sets of three blocks, but only four hash chains: four blocks   *)
(* of one set, 7 the one address -1 lies in, 1 and 5 in one chain.  The    *)
(* other set must not be touched.                                          *)
MCAddrs == {1, 3, 5, 7}
=============================================================================
