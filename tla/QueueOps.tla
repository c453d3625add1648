------------------------------ MODULE QueueOps ------------------------------
(***************************************************************************)
(* The doubly linked queues of Lsim at pointer level, common to s_queue.c  *)
(* and s_mqueue.c.  A heap h holds the queue headers (head, tail, size)    *)
(* and the entries (next_entry, prev_entry, queue); 0 is NULL, and the     *)
(* fields of a freed entry are corrupted (Freed).                          *)
(***************************************************************************)
EXTENDS Integers, SequencesExt

CONSTANTS Qs, Ids

NULL == 0
Freed == -1

ASSUME QueueAssumption == Qs \subseteq Nat \ {0} /\ Ids \subseteq Nat \ {0}

(* Empty queues over a pool of free entries.                               *)
EmptyHeap ==
  [head |-> [q \in Qs |-> NULL], tail |-> [q \in Qs |-> NULL],
   size |-> [q \in Qs |-> 0],
   next_entry |-> [e \in Ids |-> Freed], prev_entry |-> [e \in Ids |-> Freed],
   queue |-> [e \in Ids |-> Freed]]

FreeEntries(h) == {e \in Ids : h.queue[e] = Freed}

(* f with f[x] = v, where x may be NULL: no such pointer, no assignment.   *)
Set(f, x, v) == [y \in DOMAIN f |-> IF y = x THEN v ELSE f[y]]

(* Mutant: the next entry keeps pointing back at the one that left.        *)
Unlink_StaleBackPointer(h, e) ==
  LET q == h.queue[e]
      p == h.prev_entry[e]
      n == h.next_entry[e]
  IN [h EXCEPT !.head[q] = IF p = NULL THEN n ELSE @,
               !.next_entry = Set(@, p, n),
               !.tail[q] = IF n = NULL THEN p ELSE @,
               !.size[q] = @ - 1]

(* Remove entry e from the queue it is in.                                 *)
Unlink(h, e) ==
  LET q == h.queue[e]
      p == h.prev_entry[e]
      n == h.next_entry[e]
  IN [h EXCEPT !.head[q] = IF p = NULL THEN n ELSE @,
               !.next_entry = Set(@, p, n),
               !.tail[q] = IF n = NULL THEN p ELSE @,
               !.prev_entry = Set(@, n, p),
               !.size[q] = @ - 1]

(* Put entry e into queue q before b, at the end if b is NULL.             *)
LinkBefore(h, q, e, b) ==
  LET p == IF b = NULL THEN h.tail[q] ELSE h.prev_entry[b]
  IN [h EXCEPT !.queue[e] = q,
               !.head[q] = IF p = NULL THEN e ELSE @,
               !.next_entry = Set(Set(@, p, e), e, b),
               !.prev_entry = Set(Set(@, b, e), e, p),
               !.tail[q] = IF b = NULL THEN e ELSE @,
               !.size[q] = @ + 1]

(* L_free: the entry goes back to the pool.                                *)
Release(h, e) ==
  [h EXCEPT !.next_entry[e] = Freed, !.prev_entry[e] = Freed, !.queue[e] = Freed]

(* The entries met from start along a pointer field, at most as many as    *)
(* there are.                                                              *)
Follow(start, field) ==
  LET walk[n \in 0 .. Cardinality(Ids)] ==
        IF n = 0 THEN << >>
        ELSE LET s == walk[n - 1]
                 e == IF s = << >> THEN start ELSE field[Last(s)]
             IN IF e \in Ids /\ Len(s) = n - 1 THEN Append(s, e) ELSE s
  IN walk[Cardinality(Ids)]

Forward(h, q) == Follow(h.head[q], h.next_entry)
Backward(h, q) == Follow(h.tail[q], h.prev_entry)

(* The size field, the forward and the backward list of a queue agree.     *)
WellFormed(h) ==
  \A q \in Qs : /\ Forward(h, q) = Reverse(Backward(h, q))
                /\ h.size[q] = Len(Forward(h, q))
                /\ \A e \in Range(Forward(h, q)) : h.queue[e] = q
=============================================================================
