---------------------------- MODULE MCWorkerPool ----------------------------
(* Small instances of WorkerPool. *)
EXTENDS WorkerPool

CONSTANTS p1, c1, c2, w1, w2, x, y

\* A worker of context.Background() and one of a context derived from the
\* queue's, as the store makes them.
TwoWorkers == {c1, c2}
OneBackground == {c1}
OneChild == {c2}
=============================================================================
