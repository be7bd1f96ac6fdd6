---------------------------- MODULE MemoryQueue ----------------------------
(***************************************************************************)
(* The in-memory queue of src/core/queue/memory.go: a list guarded by a    *)
(* sync.Mutex, a sync.Cond on it, an atomic size, the queue's context and, *)
(* for every DequeueContext call whose context can be canceled, a watcher  *)
(* goroutine that turns the cancellation into a Broadcast.                 *)
(*                                                                         *)
(* A critical section whose reads and writes are all guarded by the mutex  *)
(* is one step; it is split where another goroutine can see its middle: at *)
(* the reads of the caller's context, which is canceled without the mutex, *)
(* and between the list and the atomic size, which Len reads without it.   *)
(***************************************************************************)
EXTENDS Integers, Sequences, FiniteSets

CONSTANTS
    Producers,    \* goroutines that call Enqueue
    Consumers,    \* goroutines that call Dequeue or DequeueContext
    Background,   \* consumers that pass context.Background()
    Children,     \* consumers whose context derives from the queue's own
    MayCancel,    \* consumers whose context is canceled by someone else too
    Watchers,     \* bounds how many watcher goroutines of a consumer live at once
    Items,        \* what is queued
    MaxEnqueues,  \* bounds how many items are accepted in all
    Free          \* the mutex when nobody holds it

ASSUME ConsumersAssumption ==
    /\ Background \subseteq Consumers
    /\ Children \subseteq Consumers \ Background
    /\ MayCancel \subseteq Consumers \ Background

ASSUME MutexAssumption ==
    /\ Producers \cap Consumers = {}
    /\ Free \notin Producers \cup Consumers

ASSUME ItemsAssumption ==
    /\ MaxEnqueues \in Nat
    /\ Items \cap {"none", "pending", "canceled"} = {}

VARIABLES
    \* the fields of Memory
    mutex,      \* the goroutine that holds q.mutex, or Free
    items,      \* q.items
    size,       \* q.size, the atomic counter
    stopped,    \* q.ctx.Err() # nil
    waiting,    \* q.cond: the goroutines asleep in cond.Wait
    \* the goroutines around it
    cancelled,  \* the consumers whose own context is canceled
    pc,         \* where a consumer is in DequeueContext
    ret,        \* what its last call returned, "pending" during a call
    answer,     \* what a producer's last Enqueue returned
    watch,      \* where the watcher goroutines of a consumer are
    \* history
    sent,       \* the items accepted, in order
    taken       \* the items removed, in order

fields == <<mutex, items, size, stopped, waiting>>
callers == <<cancelled, pc, ret, answer, watch>>
history == <<sent, taken>>
vars == <<fields, callers, history>>

-----------------------------------------------------------------------------
(* What may be the value of each variable. *)

InLock == {"loop", "wait", "take", "count"}
Sleeping == {"asleep"}
InCall == InLock \cup Sleeping \cup {"lock", "close"}

\* A watcher has not reached its select ("new"; "late" when its done channel
\* is closed already), is blocked in it, or has left it to broadcast.
WatcherStates == {"gone", "new", "late", "parked", "fired"}

\* The types; that Len (memory.go:139), which takes no lock, never reports a
\* negative number of items is one of them.
TypeOK ==
    /\ mutex \in Consumers \cup Producers \cup {Free}
    /\ items \in Seq(Items)
    /\ size \in Nat
    /\ stopped \in BOOLEAN
    /\ waiting \in SUBSET Consumers
    /\ cancelled \in SUBSET Consumers
    /\ pc \in [Consumers -> InCall \cup {"out"}]
    /\ ret \in [Consumers -> Items \cup {"none", "pending", "canceled"}]
    /\ answer \in [Producers -> {"none", "ok", "canceled"}]
    /\ watch \in [Consumers -> [Watchers -> WatcherStates]]
    /\ sent \in Seq(Items)
    /\ taken \in Seq(Items)

Init ==
    /\ mutex = Free
    /\ items = <<>>
    /\ size = 0
    /\ stopped = FALSE
    /\ waiting = {}
    /\ cancelled = {}
    /\ pc = [c \in Consumers |-> "out"]
    /\ ret = [c \in Consumers |-> "none"]
    /\ answer = [p \in Producers |-> "none"]
    /\ watch = [c \in Consumers |-> [w \in Watchers |-> "gone"]]
    /\ sent = <<>>
    /\ taken = <<>>

-----------------------------------------------------------------------------
(* The watcher goroutine of DequeueContext. *)

\* A select blocked on two channels commits to the one that becomes ready.
\* Canceling the contexts of C so decides every parked watcher of C.
Fire(C) ==
    [c \in Consumers |-> [w \in Watchers |->
        IF c \in C /\ watch[c][w] = "parked" THEN "fired" ELSE watch[c][w]]]

\* close(done) decides the watcher of c's call the other way.
CloseDone(c) ==
    [watch EXCEPT ![c] = [w \in Watchers |->
        IF watch[c][w] = "parked" THEN "gone"
        ELSE IF watch[c][w] = "new" THEN "late" ELSE watch[c][w]]]

\* A step of a watcher that changes nothing else.
WatcherGoes(c, w, from, to) ==
    /\ watch[c][w] = from
    /\ watch' = [watch EXCEPT ![c][w] = to]
    /\ UNCHANGED <<fields, cancelled, pc, ret, answer, history>>

\* The goroutine reaches its select with neither channel ready.
WatcherParks(c, w) == c \notin cancelled /\ WatcherGoes(c, w, "new", "parked")

\* It reaches its select with ctx.Done ready; the runtime may pick this case
\* although done is ready too.
WatcherFires(c, w) ==
    /\ c \in cancelled
    /\ WatcherGoes(c, w, "new", "fired") \/ WatcherGoes(c, w, "late", "fired")

\* It reaches its select with done ready.
WatcherLeaves(c, w) == WatcherGoes(c, w, "late", "gone")

\* Faulty: the watcher wakes one sleeper, perhaps another call's.
WatcherSignals(c, w) ==
    /\ watch[c][w] = "fired"
    /\ mutex = Free
    /\ IF waiting = {}
       THEN waiting' = {}
       ELSE \E sleeper \in waiting : waiting' = waiting \ {sleeper}
    /\ watch' = [watch EXCEPT ![c][w] = "gone"]
    /\ UNCHANGED <<mutex, items, size, stopped, cancelled, pc, ret, answer, history>>

\* Faulty: the watcher broadcasts without the mutex.
WatcherBroadcastsUnlocked(c, w) ==
    /\ watch[c][w] = "fired"
    /\ waiting' = {}
    /\ watch' = [watch EXCEPT ![c][w] = "gone"]
    /\ UNCHANGED <<mutex, items, size, stopped, cancelled, pc, ret, answer, history>>

\* Lock; Broadcast; Unlock.
WatcherBroadcast(c, w) ==
    /\ watch[c][w] = "fired"
    /\ mutex = Free
    /\ waiting' = {}
    /\ watch' = [watch EXCEPT ![c][w] = "gone"]
    /\ UNCHANGED <<mutex, items, size, stopped, cancelled, pc, ret, answer, history>>

-----------------------------------------------------------------------------
(* Enqueue. *)

\* Enqueue on a stopped queue returns the context's error.
EnqueueRefused(p) ==
    /\ mutex = Free
    /\ stopped
    /\ answer' = [answer EXCEPT ![p] = "canceled"]
    /\ UNCHANGED <<fields, cancelled, pc, ret, watch, history>>

\* Lock, the check of q.ctx and PushBack.
EnqueuePush(p, x) ==
    /\ Len(sent) < MaxEnqueues
    /\ mutex = Free
    /\ ~stopped
    /\ mutex' = p
    /\ items' = Append(items, x)
    /\ sent' = Append(sent, x)
    /\ answer' = [answer EXCEPT ![p] = "ok"]
    /\ UNCHANGED <<size, stopped, waiting, cancelled, pc, ret, watch, taken>>

\* Faulty: only an item that joins others is signaled, an off-by-one in a check
\* that saves signals.
SignalSecondOnly ==
    IF waiting = {} \/ Len(items) <= 1
    THEN waiting' = waiting
    ELSE \E c \in waiting : waiting' = waiting \ {c}

\* cond.Signal wakes some sleeper, if there is one.
Signal ==
    IF waiting = {}
    THEN waiting' = {}
    ELSE \E c \in waiting : waiting' = waiting \ {c}

\* Faulty: the size is not incremented.
EnqueueNotCounted(p) ==
    /\ mutex = p
    /\ Signal
    /\ mutex' = Free
    /\ UNCHANGED <<items, size, stopped, callers, history>>

\* AddInt64, Signal and the deferred Unlock.
EnqueueSignal(p) ==
    /\ mutex = p
    /\ size' = size + 1
    /\ Signal
    /\ mutex' = Free
    /\ UNCHANGED <<items, stopped, callers, history>>

-----------------------------------------------------------------------------
(* DequeueContext. *)

\* Answer a call that holds the mutex, and unlock.
ReturnCanceled(c) ==
    /\ ret' = [ret EXCEPT ![c] = "canceled"]
    /\ pc' = [pc EXCEPT ![c] = "close"]
    /\ mutex' = Free
    /\ UNCHANGED <<items, size, stopped, waiting, cancelled, answer, watch, history>>

\* The call starts; a context that can be canceled gets a watcher.
DequeueCall(c) ==
    /\ pc[c] = "out"
    /\ pc' = [pc EXCEPT ![c] = "lock"]
    /\ ret' = [ret EXCEPT ![c] = "pending"]
    /\ IF c \in Background
       THEN watch' = watch
       ELSE \E w \in Watchers :
                /\ watch[c][w] = "gone"
                /\ watch' = [watch EXCEPT ![c][w] = "new"]
    /\ UNCHANGED <<fields, cancelled, answer, history>>

\* q.mutex.Lock at the start of the call.
DequeueLock(c) ==
    /\ pc[c] = "lock"
    /\ mutex = Free
    /\ mutex' = c
    /\ pc' = [pc EXCEPT ![c] = "loop"]
    /\ UNCHANGED <<items, size, stopped, waiting, cancelled, ret, answer, watch, history>>

\* Lines 99-106 and 109: a canceled caller leaves the items to others, a
\* live one gives up when the queue is stopped and empty.
GiveUp(c) ==
    /\ pc[c] = "loop"
    /\ c \in cancelled \/ (stopped /\ items = <<>>)
    /\ ReturnCanceled(c)

\* The checks pass: go on to cond.Wait, or to take the first item.
CarryOn(c) ==
    /\ pc[c] = "loop"
    /\ c \notin cancelled
    /\ stopped => items # <<>>
    /\ pc' = [pc EXCEPT ![c] = IF items = <<>> THEN "wait" ELSE "take"]
    /\ UNCHANGED <<fields, cancelled, ret, answer, watch, history>>

\* cond.Wait: join the sleepers and unlock.
Wait(c) ==
    /\ pc[c] = "wait"
    /\ waiting' = waiting \cup {c}
    /\ mutex' = Free
    /\ pc' = [pc EXCEPT ![c] = "asleep"]
    /\ UNCHANGED <<items, size, stopped, cancelled, ret, answer, watch, history>>

\* A woken sleeper takes the mutex again and goes round the loop.
Wake(c) ==
    /\ pc[c] = "asleep"
    /\ c \notin waiting
    /\ mutex = Free
    /\ mutex' = c
    /\ pc' = [pc EXCEPT ![c] = "loop"]
    /\ UNCHANGED <<items, size, stopped, waiting, cancelled, ret, answer, watch, history>>

\* Faulty: the newest item is removed.
TakeBack(c) ==
    /\ pc[c] = "take"
    /\ items' = SubSeq(items, 1, Len(items) - 1)
    /\ taken' = Append(taken, items[Len(items)])
    /\ ret' = [ret EXCEPT ![c] = items[Len(items)]]
    /\ pc' = [pc EXCEPT ![c] = "count"]
    /\ UNCHANGED <<mutex, size, stopped, waiting, cancelled, answer, watch, sent>>

\* q.items.Remove(q.items.Front()).
Take(c) ==
    /\ pc[c] = "take"
    /\ items' = Tail(items)
    /\ taken' = Append(taken, Head(items))
    /\ ret' = [ret EXCEPT ![c] = Head(items)]
    /\ pc' = [pc EXCEPT ![c] = "count"]
    /\ UNCHANGED <<mutex, size, stopped, waiting, cancelled, answer, watch, sent>>

\* AddInt64(&q.size, -1) and the deferred Unlock.
TakeCounted(c) ==
    /\ pc[c] = "count"
    /\ size' = size - 1
    /\ mutex' = Free
    /\ pc' = [pc EXCEPT ![c] = "close"]
    /\ UNCHANGED <<items, stopped, waiting, cancelled, ret, answer, watch, history>>

\* The deferred close(done), after the Unlock; the call returns.
DequeueReturn(c) ==
    /\ pc[c] = "close"
    /\ pc' = [pc EXCEPT ![c] = "out"]
    /\ watch' = CloseDone(c)
    /\ UNCHANGED <<fields, cancelled, ret, answer, history>>

-----------------------------------------------------------------------------
(* Cancellation. *)

\* Faulty: the context is canceled without the mutex, so without excluding a
\* call that is about to sleep.
StopUnlocked ==
    /\ stopped' = TRUE
    /\ cancelled' = cancelled \cup Children
    /\ watch' = Fire(Children)
    /\ waiting' = {}
    /\ UNCHANGED <<mutex, items, size, pc, ret, answer, history>>

\* stop, in one critical section: q.cancel, which reaches the contexts
\* derived from the queue's, and Broadcast.
Stop ==
    /\ mutex = Free
    /\ stopped' = TRUE
    /\ cancelled' = cancelled \cup Children
    /\ watch' = Fire(Children)
    /\ waiting' = {}
    /\ UNCHANGED <<mutex, items, size, pc, ret, answer, history>>

\* Somebody cancels a consumer's context; no lock is involved.
CancelCaller(c) ==
    /\ c \in MayCancel
    /\ c \notin cancelled
    /\ cancelled' = cancelled \cup {c}
    /\ watch' = Fire({c})
    /\ UNCHANGED <<fields, pc, ret, answer, history>>

-----------------------------------------------------------------------------
\* A consumer's steps inside a call.
ConsumerStep(c) ==
    \/ DequeueLock(c)
    \/ GiveUp(c)
    \/ CarryOn(c)
    \/ Wait(c)
    \/ Wake(c)
    \/ Take(c)
    \/ TakeCounted(c)
    \/ DequeueReturn(c)

WatcherStep(c, w) ==
    WatcherParks(c, w) \/ WatcherFires(c, w) \/ WatcherLeaves(c, w) \/ WatcherBroadcast(c, w)

ProducerStep(p) ==
    \/ EnqueueRefused(p)
    \/ \E x \in Items : EnqueuePush(p, x)
    \/ EnqueueSignal(p)

Next ==
    \/ \E c \in Consumers :
        \/ DequeueCall(c) \/ ConsumerStep(c) \/ CancelCaller(c)
        \/ \E w \in Watchers : WatcherStep(c, w)
    \/ \E p \in Producers : ProducerStep(p)
    \/ Stop

Spec == Init /\ [][Next]_vars

\* A started goroutine is scheduled again and again, and a sync.Mutex hands
\* itself over to a waiter that has starved for a millisecond: a goroutine
\* that needs the mutex gets it although others keep taking it.  Nobody is
\* obliged to call Dequeue, to call Enqueue, to stop or to cancel.
Fairness ==
    /\ \A c \in Consumers : SF_vars(ConsumerStep(c))
    /\ \A c \in Consumers, w \in Watchers : SF_vars(WatcherStep(c, w))
    /\ \A p \in Producers : WF_vars(EnqueueSignal(p))

FairSpec == Spec /\ Fairness

-----------------------------------------------------------------------------
(* Safety. *)

\* Whenever nobody is inside a critical section the atomic counter that Len
\* reads is the number of items (memory.go:66-67, 114-115 and 139).
SizeExact == mutex = Free => size = Len(items)

\* "Should return leftover enqueued items even if queue was canceled"
\* (memory.go:28): a caller that never canceled its own context is told
\* "canceled" only when the queue is stopped and nothing is left in it, nor
\* ever will be.
LeftoversComeFirst ==
    \A c \in Consumers :
        ret[c] = "canceled" => c \in cancelled \/ (stopped /\ items = <<>>)

\* Once the queue is stopped nobody sleeps on its condition variable, or is
\* about to: a call that checked the context before stop canceled it cannot
\* fall asleep after the Broadcast (memory.go:98-108 against 144-149).
NobodySleepsAfterStop ==
    stopped => waiting = {} /\ \A c \in Consumers : pc[c] # "wait"

\* A call that sleeps, or is about to, with its own context canceled has a
\* watcher that will still broadcast (memory.go:84-92): the cancellation is
\* never lost between the check of the context and the sleep.
CancelledSleeperIsWatched ==
    \A c \in Consumers \cap cancelled :
        pc[c] = "wait" \/ c \in waiting =>
            \E w \in Watchers : watch[c][w] \in {"new", "fired"}

\* With every method taken as one step, this is a FIFO queue: items leave in
\* the order they were accepted in, each to one caller, none is accepted
\* after the stop and none disappears when a caller gives up.
Fifo == INSTANCE FifoQueue
    WITH Producers <- Producers, Consumers <- Consumers, Items <- Items,
         items <- items, stopped <- stopped, cancelled <- cancelled, answer <- answer, ret <- ret
ImplementsFifoQueue == Fifo!Spec

-----------------------------------------------------------------------------
(* Liveness. *)

\* A call comes back once the queue is stopped or its own context is canceled
\* (memory.go:78).
GivenUpCallsReturn ==
    \A c \in Consumers :
        (stopped \/ c \in cancelled) /\ ret[c] = "pending" ~> ret[c] # "pending"

\* As long as no caller's context is canceled, a call does not sleep for ever
\* beside an item: Signal wakes it, or others take all there is
\* (memory.go:69).
SleeperGetsItem ==
    \A c \in Consumers :
        c \in waiting /\ items # <<>>
            ~> c \notin waiting \/ items = <<>> \/ cancelled # {}

\* "removes an item from the queue start or returns when ctx or queue context
\* is canceled" (memory.go:78), for an item that Enqueue announced by "Signal
\* one waiting goroutine" (memory.go:69): the same, whoever is canceled.
SignalReachesSleeper ==
    \A c \in Consumers :
        c \in waiting /\ items # <<>> ~> c \notin waiting \/ items = <<>>
=============================================================================
