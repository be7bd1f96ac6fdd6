----------------------------- MODULE FifoQueue -----------------------------
(***************************************************************************)
(* What queue.Queue[T] (src/core/queue/memory.go:24-30) promises its       *)
(* callers, with every method taking effect in one step.  MemoryQueue      *)
(* implements it with a mutex, a condition variable and watcher            *)
(* goroutines.                                                             *)
(***************************************************************************)
EXTENDS Sequences

CONSTANTS
    Producers,  \* goroutines that call Enqueue
    Consumers,  \* goroutines that call Dequeue or DequeueContext
    Items       \* what is queued

VARIABLES
    items,      \* the queue, its head first
    stopped,    \* is the queue's context canceled?
    cancelled,  \* the consumers whose own context is canceled
    answer,     \* what Enqueue last answered each producer
    ret         \* what the last dequeue gave each consumer, or that it is pending

vars == <<items, stopped, cancelled, answer, ret>>

Init ==
    /\ items = <<>>
    /\ stopped = FALSE
    /\ cancelled = {}
    /\ answer = [p \in Producers |-> "none"]
    /\ ret = [c \in Consumers |-> "none"]

\* Enqueue on a live queue appends the item.
Put(p, x) ==
    /\ ~stopped
    /\ items' = Append(items, x)
    /\ answer' = [answer EXCEPT ![p] = "ok"]
    /\ UNCHANGED <<stopped, cancelled, ret>>

\* Enqueue on a stopped queue leaves it alone.
Refuse(p) ==
    /\ stopped
    /\ answer' = [answer EXCEPT ![p] = "canceled"]
    /\ UNCHANGED <<items, stopped, cancelled, ret>>

\* A consumer starts to wait for an item.
Call(c) ==
    /\ ret[c] # "pending"
    /\ ret' = [ret EXCEPT ![c] = "pending"]
    /\ UNCHANGED <<items, stopped, cancelled, answer>>

\* It gets the oldest item, also when the queue is stopped by then.
Take(c) ==
    /\ ret[c] = "pending"
    /\ items # <<>>
    /\ ret' = [ret EXCEPT ![c] = Head(items)]
    /\ items' = Tail(items)
    /\ UNCHANGED <<stopped, cancelled, answer>>

\* It gets an error: its own context is canceled, or the queue is stopped
\* and holds nothing any more.
Fail(c) ==
    /\ ret[c] = "pending"
    /\ c \in cancelled \/ (stopped /\ items = <<>>)
    /\ ret' = [ret EXCEPT ![c] = "canceled"]
    /\ UNCHANGED <<items, stopped, cancelled, answer>>

\* The queue is stopped, and with it the contexts derived from its own.
Stop ==
    /\ stopped' = TRUE
    /\ \E C \in SUBSET Consumers : cancelled' = cancelled \cup C
    /\ UNCHANGED <<items, answer, ret>>

\* A consumer's own context is canceled.
Cancel(c) ==
    /\ cancelled' = cancelled \cup {c}
    /\ UNCHANGED <<items, stopped, answer, ret>>

Next ==
    \/ \E p \in Producers : Refuse(p) \/ \E x \in Items : Put(p, x)
    \/ \E c \in Consumers : Call(c) \/ Take(c) \/ Fail(c) \/ Cancel(c)
    \/ Stop

Spec == Init /\ [][Next]_vars
=============================================================================
