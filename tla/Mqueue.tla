------------------------------- MODULE Mqueue -------------------------------
(***************************************************************************)
(* The memory request queues of Lsim (s_mqueue.c), used by the caches for  *)
(* misses, prefetches and writes.                                          *)
(***************************************************************************)
EXTENDS QueueOps

CONSTANT Requests   \* what an entry asks for (type, address, size...)

VARIABLES heap,      \* queues and entries
          request,   \* the request of each entry, 0 while it is free
          call       \* the call just made, with its arguments (history)

vars == <<heap, request, call>>

Init ==
  /\ heap = EmptyHeap
  /\ request = [e \in Ids |-> 0]
  /\ call = << >>

M_enqueue(q, r) ==
  /\ call' = <<"enqueue", q, r, NULL>>
  /\ \E e \in FreeEntries(heap) :
       /\ heap' = LinkBefore(heap, q, e, NULL)
       /\ request' = [request EXCEPT ![e] = r]

M_dequeue(e) ==
  /\ call' = <<"dequeue", e>>
  /\ heap' = Release(Unlink(heap, e), e)
  /\ request' = [request EXCEPT ![e] = 0]

(* Mutant: the old queue keeps its size.                                   *)
MoveUnlink_KeepsSize(h, e) ==
  LET q == h.queue[e]
      n == h.next_entry[e]
      p == IF h.prev_entry[e] = NULL THEN NULL ELSE n
  IN [h EXCEPT !.head[q] = IF h.prev_entry[e] = NULL THEN n ELSE @,
               !.tail[q] = IF n = NULL THEN p ELSE @,
               !.prev_entry = Set(Set(@, e, p), n, p)]

(* The first half of M_move_entry_before.  Unlike Unlink it assigns the    *)
(* next entry to entry->prev_entry where it should assign it to            *)
(* entry->prev_entry->next_entry.                                          *)
MoveUnlink(h, e) ==
  LET q == h.queue[e]
      n == h.next_entry[e]
      p == IF h.prev_entry[e] = NULL THEN NULL ELSE n
  IN [h EXCEPT !.head[q] = IF h.prev_entry[e] = NULL THEN n ELSE @,
               !.tail[q] = IF n = NULL THEN p ELSE @,
               !.prev_entry = Set(Set(@, e, p), n, p),
               !.size[q] = @ - 1]

(* Mutant: the entry goes back to the queue it came from.                  *)
M_move_entry_before_OldQueue(new_queue, e, before) ==
  /\ call' = <<"move", new_queue, e, before>>
  /\ heap' = LinkBefore(MoveUnlink(heap, e), heap.queue[e], e, before)
  /\ UNCHANGED request

M_move_entry_before(new_queue, e, before) ==
  /\ call' = <<"move", new_queue, e, before>>
  /\ heap' = LinkBefore(MoveUnlink(heap, e), new_queue, e, before)
  /\ UNCHANGED request

InUse == Ids \ FreeEntries(heap)
In(q) == {e \in InUse : heap.queue[e] = q}

EnqueueOrDequeue ==
  \/ \E q \in Qs, r \in Requests : M_enqueue(q, r)
  \/ \E e \in InUse : M_dequeue(e)

(* The second level cache, the only caller, moves the head of its prefetch *)
(* request buffer to the end of another queue.                             *)
Next ==
  \/ EnqueueOrDequeue
  \/ \E q, old \in Qs : /\ q # old /\ heap.head[old] # NULL
                        /\ M_move_entry_before(q, heap.head[old], NULL)

Spec == Init /\ [][Next]_vars
=============================================================================
