----------------------------- MODULE SeqFilter -----------------------------
(***************************************************************************)
(* A sequence without some of its elements, for modules that are proved    *)
(* about: SelectSeq takes its test as an operator, this takes a set.       *)
(***************************************************************************)
EXTENDS Integers, Sequences

(* The elements of q that are in S, in the order they have in q.           *)
Only(q, S) ==
  LET f[n \in 0 .. Len(q)] ==
        IF n = 0 THEN << >>
        ELSE IF q[n] \in S THEN Append(f[n - 1], q[n]) ELSE f[n - 1]
  IN f[Len(q)]
=============================================================================
