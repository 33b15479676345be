---------------------------- MODULE MCQueueSlots ----------------------------
(* Instances of QueueSlots for TLC. *)
EXTENDS QueueSlots, TLC

CONSTANTS p1, p2, p3, q1, q2, r1, r2, f1

Interchangeable ==
  Permutations({p1, p2, p3}) \cup Permutations({q1, q2}) \cup Permutations({r1, r2})

=============================================================================
