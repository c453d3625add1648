------------------------------- MODULE LruOps -------------------------------
(***************************************************************************)
(* Set associative LRU storage as a value.  lines[s] is the sequence of    *)
(* slots of set s, most recently used first; a slot holds a block number   *)
(* or NoBlock.                                                             *)
(***************************************************************************)
EXTENDS Integers, SequencesExt

CONSTANTS NumSets,   \* number of sets (tag_store_size)
          Assoc      \* slots in a set (assoc)

NoBlock == -1

EmptyLines == [s \in 0 .. NumSets - 1 |-> [i \in 1 .. Assoc |-> NoBlock]]

SetOf(a) == a % NumSets

Has(lines, a) == Contains(lines[SetOf(a)], a)

(* The slots of a set without the one that holds a.                        *)
Without(set, a) == RemoveAt(set, CHOOSE i \in DOMAIN set : set[i] = a)

(* a becomes the most recently used block of its set.                      *)
Promote(lines, a) == [lines EXCEPT ![SetOf(a)] = <<a>> \o Without(@, a)]

(* a becomes the least recently used block of its set.                     *)
Demote(lines, a) == [lines EXCEPT ![SetOf(a)] = Append(Without(@, a), a)]

(* a replaces the least recently used slot and becomes the most recent.    *)
Fill(lines, a) == [lines EXCEPT ![SetOf(a)] = <<a>> \o Front(@)]

(* a replaces the least recently used slot and stays in its place.         *)
FillInPlace(lines, a) == [lines EXCEPT ![SetOf(a)] = Append(Front(@), a)]

(* The slot of a is emptied and becomes the least recently used one.       *)
Drop(lines, a) == [lines EXCEPT ![SetOf(a)] = Append(Without(@, a), NoBlock)]
=============================================================================
