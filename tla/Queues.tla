------------------------------- MODULE Queues -------------------------------
(* What the device's queues share: an array that is filtered.              *)
EXTENDS Naturals, Sequences

(* The entries of q that are in S, in the order they have in q.            *)
KeepIn(q, S) ==
  LET kept[n \in 0 .. Len(q)] ==
        IF n = 0 THEN <<>>
        ELSE IF q[n] \in S THEN Append(kept[n - 1], q[n]) ELSE kept[n - 1]
  IN kept[Len(q)]
=============================================================================
