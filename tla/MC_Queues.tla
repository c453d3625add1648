------------------------------ MODULE MC_Queues ------------------------------
(***************************************************************************)
(* The instruction queues and the memory request queues against the one    *)
(* abstract specification both implement.  They are separate modules of    *)
(* the program with the same links; a behavior is of one of them.          *)
(***************************************************************************)
EXTENDS QueueOps

CONSTANTS Sints, Requests

VARIABLES kind,      \* "sint" or "mreq"
          heap, sints, request, call

S == INSTANCE Squeue
M == INSTANCE Mqueue

Init ==
  /\ S!Init /\ M!Init
  /\ kind \in {"sint", "mreq"}

Next ==
  \/ kind = "sint" /\ S!Next /\ UNCHANGED <<request, kind>>
  \/ kind = "mreq" /\ M!Next /\ UNCHANGED <<sints, kind>>

Spec == Init /\ [][Next]_<<kind, heap, sints, request, call>>
-----------------------------------------------------------------------------
(* Whatever entries are inserted, moved and freed, the two directions of   *)
(* every queue, its size and the queue field of its entries agree; and the *)
(* entry list of an instruction holds exactly its entries, so that none is *)
(* left in a queue by S_dequeue_from_all and none is freed twice.          *)
QueuesAreWellFormed ==
  /\ WellFormed(heap)
  /\ kind = "sint" =>
       \A s \in Sints :
         LET l == Follow(sints.entry_list[s], sints.next_queue)
         IN /\ IsInjective(l)
            /\ Range(l) = {e \in S!InUse : sints.sint[e] = s}

Q == INSTANCE Queues WITH
       Owners <- Sints \cup Requests,
       content <- [q \in Qs |-> Forward(heap, q)],
       owner <- IF kind = "sint" THEN sints.sint ELSE request

(* The pointer manipulations implement the queues as sequences: every call *)
(* does to them what it promises, for its own arguments, and nothing else. *)
ImplementsQueues == Q!Spec
=============================================================================
