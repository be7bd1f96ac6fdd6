---------------------------- MODULE MCQueueStore ----------------------------
(* Small instances of QueueStore. *)
EXTENDS QueueStore, TLC

CONSTANTS g1, g2, s1, s2, w1, w2, w3, w4

Symmetry == Permutations(Clients) \cup Permutations(Workers) \cup Permutations(Scalers)
=============================================================================
