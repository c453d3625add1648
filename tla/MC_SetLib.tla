------------------------------ MODULE MC_SetLib ------------------------------
EXTENDS SetLib
(* Two words of one vector, a vector in the second granule, and negative   *)
(* elements in the first granule and in the second.                        *)
MCElements == {0, 3, 8, -1, -9}
=============================================================================
