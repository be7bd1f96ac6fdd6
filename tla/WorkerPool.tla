----------------------------- MODULE WorkerPool -----------------------------
(***************************************************************************)
(* The loop of queue.NewWorker (src/core/queue/worker.go:23-67) run by     *)
(* every consumer of a MemoryQueue: check the context, dequeue, hand the   *)
(* job to the processor, catch its panic, again.                           *)
(***************************************************************************)
EXTENDS MemoryQueue

VARIABLES
    worker,     \* where the loop of each worker is
    outcome,    \* how its last processor call ended
    callbacks,  \* how often its cancel callbacks ran
    handled     \* history: the jobs handed to a processor, in order

wvars == <<worker, outcome, callbacks, handled>>
allvars == <<vars, wvars>>

\* The types; a worker is inside DequeueContext only while its loop is.
WTypeOK ==
    /\ worker \in [Consumers -> {"check", "dequeue", "busy", "exited"}]
    /\ outcome \in [Consumers -> {"none", "done", "panicked"}]
    /\ callbacks = [c \in Consumers |-> IF worker[c] = "exited" THEN 1 ELSE 0]
    /\ handled \in Seq(Items)
    /\ \A c \in Consumers : pc[c] # "out" => worker[c] = "dequeue"

WInit ==
    /\ Init
    /\ worker = [c \in Consumers |-> "check"]
    /\ outcome = [c \in Consumers |-> "none"]
    /\ callbacks = [c \in Consumers |-> 0]
    /\ handled = <<>>

-----------------------------------------------------------------------------
\* The worker returns, after callCancelCallbacks.
Exit(c) ==
    /\ worker' = [worker EXCEPT ![c] = "exited"]
    /\ callbacks' = [callbacks EXCEPT ![c] = @ + 1]
    /\ UNCHANGED <<vars, outcome, handled>>

\* ctx.Err() is set at the top of the loop.
WorkerQuits(c) ==
    /\ worker[c] = "check"
    /\ c \in cancelled
    /\ Exit(c)

\* It is not: call DequeueContext.
WorkerDequeues(c) ==
    /\ worker[c] = "check"
    /\ c \notin cancelled
    /\ DequeueCall(c)
    /\ worker' = [worker EXCEPT ![c] = "dequeue"]
    /\ UNCHANGED <<outcome, callbacks, handled>>

\* Faulty: the callbacks run only when the worker's own context is canceled.
FailsSilently(c) ==
    /\ worker[c] = "dequeue"
    /\ pc[c] = "out"
    /\ ret[c] = "canceled"
    /\ IF c \in cancelled THEN Exit(c) ELSE
        /\ worker' = [worker EXCEPT ![c] = "exited"]
        /\ UNCHANGED <<vars, outcome, callbacks, handled>>

\* DequeueContext failed with context.Canceled.
WorkerFails(c) ==
    /\ worker[c] = "dequeue"
    /\ pc[c] = "out"
    /\ ret[c] = "canceled"
    /\ Exit(c)

\* Faulty: the context is checked once more, and the job is dropped.
DropsJobWhenCancelled(c) ==
    /\ worker[c] = "dequeue"
    /\ pc[c] = "out"
    /\ ret[c] \in Items
    /\ IF c \in cancelled THEN Exit(c) ELSE
        /\ worker' = [worker EXCEPT ![c] = "busy"]
        /\ handled' = Append(handled, ret[c])
        /\ UNCHANGED <<vars, outcome, callbacks>>

\* The job goes to the processor, whatever became of the context.
WorkerGetsJob(c) ==
    /\ worker[c] = "dequeue"
    /\ pc[c] = "out"
    /\ ret[c] \in Items
    /\ worker' = [worker EXCEPT ![c] = "busy"]
    /\ handled' = Append(handled, ret[c])
    /\ UNCHANGED <<vars, outcome, callbacks>>

\* Faulty: a panic that is caught outside the loop ends the goroutine.
PanicEndsWorker(c) ==
    /\ worker[c] = "busy"
    /\ outcome[c] # "panicked"
    /\ \E o \in {"done", "panicked"} :
        /\ outcome' = [outcome EXCEPT ![c] = o]
        /\ worker' = [worker EXCEPT ![c] = IF o = "done" THEN "check" ELSE @]
    /\ UNCHANGED <<vars, callbacks, handled>>

\* The processor returns, or panics and the deferred recover hands the value
\* to recoverFn; the loop goes on either way.
ProcessorEnds(c) ==
    /\ worker[c] = "busy"
    /\ worker' = [worker EXCEPT ![c] = "check"]
    /\ \E o \in {"done", "panicked"} : outcome' = [outcome EXCEPT ![c] = o]
    /\ UNCHANGED <<vars, callbacks, handled>>

WorkerStep(c) ==
    \/ WorkerQuits(c)
    \/ WorkerDequeues(c)
    \/ WorkerFails(c)
    \/ WorkerGetsJob(c)
    \/ ProcessorEnds(c)

\* What the queue, its producers and its cancelers do meanwhile.
QueueStep ==
    /\ \/ \E c \in Consumers : ConsumerStep(c) \/ CancelCaller(c)
       \/ \E c \in Consumers, w \in Watchers : WatcherStep(c, w)
       \/ \E p \in Producers : ProducerStep(p)
       \/ Stop
    /\ UNCHANGED wvars

WNext == QueueStep \/ \E c \in Consumers : WorkerStep(c)

WSpec == WInit /\ [][WNext]_allvars

\* On top of the queue's fairness: a worker goroutine runs, and the
\* application's processor comes back, normally or by a panic.
WFairSpec ==
    /\ WSpec
    /\ \A c \in Consumers : SF_allvars(ConsumerStep(c) /\ UNCHANGED wvars)
    /\ \A c \in Consumers : WF_allvars(WorkerStep(c))
    /\ \A c \in Consumers, w \in Watchers :
        SF_allvars(WatcherStep(c, w) /\ UNCHANGED wvars)
    /\ \A p \in Producers : WF_allvars(EnqueueSignal(p) /\ UNCHANGED wvars)

-----------------------------------------------------------------------------
\* Every job taken from the queue reaches a processor, also when the worker is
\* canceled between the dequeue and the call (worker.go:49-64): the jobs taken
\* are those handled and those on their way out of DequeueContext.
TakenJobsAreHandled ==
    Len(taken) = Len(handled)
        + Cardinality({c \in Consumers : worker[c] = "dequeue" /\ ret[c] \in Items})

\* Once the queue is stopped every worker whose context is the queue's child
\* or context.Background() exits, whatever its processor does.
WorkersExitAfterStop ==
    \A c \in Background \cup Children : stopped ~> worker[c] = "exited"

=============================================================================
