------------------------------- MODULE Queues -------------------------------
(***************************************************************************)
(* What the queue routines of Lsim promise: every queue is a sequence of   *)
(* entries, an entry is in one queue at a time and carries an owner (the   *)
(* instruction or request it was made for).  Entries enter at the end or   *)
(* before another, leave from anywhere, and move between queues.           *)
(***************************************************************************)
EXTENDS Integers, SequencesExt

CONSTANTS Qs,       \* queues
          Ids,      \* entries of the allocation pool
          Owners    \* instructions or memory requests

VARIABLES content,   \* Qs -> sequence of entries
          owner,     \* entry -> owner, 0 while the entry is free
          call       \* the call just made, with its arguments

NoEntry == 0

InQueue(q) == Range(content[q])
Used == UNION {InQueue(q) : q \in Qs}

(* e before b in s, at the end if b is NoEntry.                            *)
Inserted(s, e, b) ==
  IF b = NoEntry THEN Append(s, e)
  ELSE LET i == CHOOSE j \in DOMAIN s : s[j] = b
       IN SubSeq(s, 1, i - 1) \o <<e>> \o SubSeq(s, i, Len(s))

Removed(c, es) == [q \in Qs |-> SelectSeq(c[q], LAMBDA e : e \notin es)]

Init ==
  /\ content = [q \in Qs |-> << >>]
  /\ owner = [e \in Ids |-> 0]
  /\ call = << >>

Enqueue(q, o, b) ==
  /\ call' = <<"enqueue", q, o, b>>
  /\ b \in InQueue(q) \cup {NoEntry}
  /\ \E e \in Ids \ Used :
       /\ content' = [content EXCEPT ![q] = Inserted(@, e, b)]
       /\ owner' = [owner EXCEPT ![e] = o]

(* Entries leave together: one, or all those of an owner.                  *)
Dequeue(es) ==
  /\ es # {}
  /\ content' = Removed(content, es)
  /\ owner' = [e \in Ids |-> IF e \in es THEN 0 ELSE owner[e]]

DequeueOne(e) == call' = <<"dequeue", e>> /\ e \in Used /\ Dequeue({e})

DequeueOwner(o) ==
  call' = <<"dequeue from all", o>> /\ Dequeue({e \in Used : owner[e] = o})

Move(q, e, b) ==
  /\ call' = <<"move", q, e, b>>
  /\ e \in Used /\ b \in (InQueue(q) \ {e}) \cup {NoEntry}
  /\ content' = [Removed(content, {e}) EXCEPT ![q] = Inserted(@, e, b)]
  /\ UNCHANGED owner

Next ==
  \/ \E q \in Qs, o \in Owners, b \in Ids \cup {NoEntry} : Enqueue(q, o, b)
  \/ \E e \in Ids : DequeueOne(e)
  \/ \E o \in Owners : DequeueOwner(o)
  \/ \E q \in Qs, e \in Ids, b \in Ids \cup {NoEntry} : Move(q, e, b)

Spec == Init /\ [][Next]_<<content, owner, call>>
=============================================================================
