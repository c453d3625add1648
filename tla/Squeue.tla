------------------------------- MODULE Squeue -------------------------------
(***************************************************************************)
(* The instruction queues of Lsim (s_queue.c).  An instruction (sint) may  *)
(* have entries in several queues; they are also linked to each other from *)
(* sint->entry_list, so that a squashed or retired instruction can be      *)
(* taken out of all of them.                                               *)
(***************************************************************************)
EXTENDS QueueOps

CONSTANT Sints   \* instructions

VARIABLES heap,   \* queues and entries
          sints,  \* sint of each entry, and the list of entries of a sint
          call    \* the call just made, with its arguments (history)

vars == <<heap, sints, call>>

Init ==
  /\ heap = EmptyHeap
  /\ sints = [sint |-> [e \in Ids |-> 0],
              next_queue |-> [e \in Ids |-> Freed],
              prev_queue |-> [e \in Ids |-> Freed],
              entry_list |-> [s \in Sints |-> NULL]]
  /\ call = << >>

(* Add entry e at the head of s's entry list.                              *)
AddToSint(l, e, s) ==
  LET first == l.entry_list[s]
  IN [l EXCEPT !.sint[e] = s,
               !.next_queue[e] = first,
               !.prev_queue = Set(Set(@, first, e), e, NULL),
               !.entry_list[s] = e]

(* Mutant: the head of the entry list is not moved on.                     *)
DropFromSint_StaleHead(l, e) ==
  LET p == l.prev_queue[e]
      n == l.next_queue[e]
  IN [l EXCEPT !.next_queue = Set(Set(@, p, n), e, Freed),
               !.prev_queue = Set(Set(@, n, p), e, Freed),
               !.sint[e] = 0]

(* Remove entry e from its sint's entry list, and free it.                 *)
DropFromSint(l, e) ==
  LET p == l.prev_queue[e]
      n == l.next_queue[e]
  IN [l EXCEPT !.entry_list[l.sint[e]] = IF p = NULL THEN n ELSE @,
               !.next_queue = Set(Set(@, p, n), e, Freed),
               !.prev_queue = Set(Set(@, n, p), e, Freed),
               !.sint[e] = 0]

(* S_enqueue_before; S_enqueue is the case of a NULL before.               *)
S_enqueue_before(q, s, before) ==
  /\ call' = <<"enqueue", q, s, before>>
  /\ \E e \in FreeEntries(heap) :
       /\ heap' = LinkBefore(heap, q, e, before)
       /\ sints' = AddToSint(sints, e, s)

(* S_dequeue, on the heap and the entry lists.                             *)
Dequeued(st, e) ==
  [heap |-> Release(Unlink(st.heap, e), e), sints |-> DropFromSint(st.sints, e)]

S_dequeue(e) ==
  LET new == Dequeued([heap |-> heap, sints |-> sints], e)
  IN heap' = new.heap /\ sints' = new.sints /\ call' = <<"dequeue", e>>

(* Mutant: the next entry is read after this one is freed.                 *)
DequeueStep_ReadsFreed(st) ==
  IF st.next \notin Ids THEN st
  ELSE LET new == Dequeued(st, st.next)
       IN [heap |-> new.heap, sints |-> new.sints,
           next |-> new.sints.next_queue[st.next]]

(* The loop of S_dequeue_from_all: the next entry is read before this one  *)
(* is freed.                                                               *)
DequeueStep(st) ==
  IF st.next \notin Ids THEN st
  ELSE LET new == Dequeued(st, st.next)
       IN [heap |-> new.heap, sints |-> new.sints,
           next |-> st.sints.next_queue[st.next]]

S_dequeue_from_all(s) ==
  LET loop[n \in 0 .. Cardinality(Ids)] ==
        IF n = 0 THEN [heap |-> heap, sints |-> sints, next |-> sints.entry_list[s]]
        ELSE DequeueStep(loop[n - 1])
      new == loop[Cardinality(Ids)]
  IN /\ sints.entry_list[s] # NULL
     /\ heap' = new.heap /\ sints' = new.sints
     /\ call' = <<"dequeue from all", s>>

S_move_entry_before(new_queue, e, before) ==
  /\ call' = <<"move", new_queue, e, before>>
  /\ heap' = LinkBefore(Unlink(heap, e), new_queue, e, before)
  /\ UNCHANGED sints

InUse == Ids \ FreeEntries(heap)
In(q) == {e \in InUse : heap.queue[e] = q}

(* The callers name live entries, and an entry of the queue as before.     *)
Next ==
  \/ \E q \in Qs, s \in Sints : \E b \in In(q) \cup {NULL} : S_enqueue_before(q, s, b)
  \/ \E e \in InUse : S_dequeue(e)
  \/ \E s \in Sints : S_dequeue_from_all(s)
  \/ \E q \in Qs, e \in InUse : \E b \in (In(q) \ {e}) \cup {NULL} :
       S_move_entry_before(q, e, b)

Spec == Init /\ [][Next]_vars
=============================================================================
