----------------------------- MODULE QueueSpec -----------------------------
(***************************************************************************)
(* What queue_t (src/lib/queue.c) promises its callers: a FIFO of at most  *)
(* Cap entries.  An entry is put at the tail and taken from the head, one *)
(* at a time; a put on a full queue and a take on an empty one change      *)
(* nothing (they block, or fail with QFULL / QEMPTY).                      *)
(***************************************************************************)
EXTENDS Sequences, Naturals

CONSTANTS Cap, Vals

VARIABLE q

Init == q = <<>>

Put(e) == /\ Len(q) < Cap
          /\ q' = Append(q, e)

Take == /\ q # <<>>
        /\ q' = Tail(q)

Next == (\E e \in Vals : Put(e)) \/ Take

Spec == Init /\ [][Next]_q

====
