----------------------------- MODULE QueueStore -----------------------------
(***************************************************************************)
(* The queues of one id in queue.Store (src/core/queue/store.go): Get      *)
(* makes the queue, its workers and its autoscaler, Remove stops them, and *)
(* autoscalers add and stop workers meanwhile.  Ids share nothing but the  *)
(* two mutexes.                                                            *)
(*                                                                         *)
(* A queue is the number of its construction; a worker is a slot of        *)
(* Workers, taken again when its context is canceled and no stop function  *)
(* of it is kept.  Every section under stopsLock is one step.              *)
(***************************************************************************)
EXTENDS Integers, Sequences, FiniteSets

CONSTANTS
    Clients,        \* goroutines that call Get, Remove and WithScaleFunc
    Scalers,        \* bounds how many performAutoScale goroutines live at once
    Workers,        \* bounds how many workers live or are listed at once
    MaxQueues,      \* bounds how many queues are constructed
    numWorkers,
    maxNumWorkers,
    HasConstructor, \* workerConstructor # nil
    QueueCancels,   \* does the queue's stop function cancel queue.Context()?
    CanRemove,      \* do clients call Remove?
    CanScaleLate,   \* do clients call WithScaleFunc on a store in use?
    Free            \* getLock when nobody holds it

ASSUME StoreAssumption ==
    /\ MaxQueues \in Nat
    /\ numWorkers \in Nat
    /\ maxNumWorkers \in Nat
    /\ {HasConstructor, QueueCancels, CanRemove, CanScaleLate} \subseteq BOOLEAN
    /\ Free \notin Clients

Queues == 1..MaxQueues
None == 0   \* no queue, and a nil stop function

VARIABLES
    \* the fields of Store, for one id
    m,          \* the queue stored, or None
    getLock,    \* the client that holds getLock, or Free
    queueStopMap,   \* the id's stopFuncList
    scaleFunc,  \* is a ScaleFunc set?
    \* queues and workers
    created,    \* how many queues were constructed
    stopped,    \* the queues whose stop function was called
    queueOf,    \* whose queue a worker dequeues from
    running,    \* the workers whose context is live
    \* the goroutines
    client,     \* where a client is
    list,       \* what it is about to register or has yet to call
    scaler,     \* where an autoscaler is
    scales,     \* the queue it was started for
    target      \* the queue addWorker loaded, or the worker stopWorker popped

storeVars == <<m, getLock, queueStopMap, scaleFunc>>
workerVars == <<created, stopped, queueOf, running>>
clientVars == <<client, list>>
scalerVars == <<scaler, scales, target>>
vars == <<storeVars, workerVars, clientVars, scalerVars>>

\* No entry in the map; an entry with workers only has a nil queue.
NoEntry == [present |-> FALSE, queue |-> None, workers |-> <<>>]
Entry(q, ws) == [present |-> TRUE, queue |-> q, workers |-> ws]
Listed(e) == {e.workers[i] : i \in DOMAIN e.workers}

\* The queues whose context is canceled.
Canceled == IF QueueCancels THEN stopped ELSE {}

Entries ==
    {e \in [present : BOOLEAN, queue : Queues \cup {None}, workers : Seq(Workers)] :
        ~e.present => e = NoEntry}

\* The types; no stop function is listed twice, so none is called for a
\* worker that took the slot later.
TypeOK ==
    /\ m \in Queues \cup {None}
    /\ getLock \in Clients \cup {Free}
    /\ queueStopMap \in Entries
    /\ scaleFunc \in BOOLEAN
    /\ created \in 0..MaxQueues
    /\ stopped \subseteq 1..created
    /\ queueOf \in [Workers -> Queues \cup {None}]
    /\ running \subseteq Workers
    /\ client \in [Clients -> {"idle", "get", "workers", "stoppers", "autoscale",
                               "invoke", "stopqueue", "stopworkers", "delete", "range"}]
    /\ list \in [Clients -> Entries]
    /\ scaler \in [Scalers -> {"off", "wait", "scaling", "add", "stop", "cancel"}]
    /\ scales \in [Scalers -> Queues \cup {None}]
    /\ target \in [Scalers -> Queues \cup {None} \cup Workers]
    /\ Len(queueStopMap.workers) = Cardinality(Listed(queueStopMap))

Init ==
    /\ m = None
    /\ getLock = Free
    /\ queueStopMap = NoEntry
    /\ scaleFunc \in IF CanScaleLate THEN {FALSE} ELSE {TRUE}
    /\ created = 0
    /\ stopped = {}
    /\ queueOf = [w \in Workers |-> None]
    /\ running = {}
    /\ client = [c \in Clients |-> "idle"]
    /\ list = [c \in Clients |-> NoEntry]
    /\ scaler = [s \in Scalers |-> "off"]
    /\ scales = [s \in Scalers |-> None]
    /\ target = [s \in Scalers |-> None]

-----------------------------------------------------------------------------
(* Workers and autoscalers. *)

\* The slots a new worker may take: nothing refers to the worker before it.
Unused ==
    Workers \ (running \cup Listed(queueStopMap)
                 \cup (UNION {Listed(list[c]) : c \in Clients})
                 \cup {target[s] : s \in Scalers})

\* Workers ws start on queue q, whose context may be canceled already.
Start(q, ws) ==
    /\ queueOf' = [w \in Workers |-> IF w \in ws THEN q ELSE queueOf[w]]
    /\ running' = IF q \in Canceled THEN running ELSE running \cup ws

\* A performAutoScale goroutine starts for queue q.
StartScaler(q) ==
    \E s \in Scalers :
        /\ scaler[s] = "off"
        /\ scaler' = [scaler EXCEPT ![s] = "wait"]
        /\ scales' = [scales EXCEPT ![s] = q]
        /\ target' = target

-----------------------------------------------------------------------------
(* Get. *)

\* The first m.Load misses; a hit returns and changes nothing.
GetMisses(c) ==
    /\ client[c] = "idle"
    /\ m = None
    /\ created < MaxQueues
    /\ client' = [client EXCEPT ![c] = "get"]
    /\ UNCHANGED <<storeVars, workerVars, list, scalerVars>>

\* Under getLock the second m.Load finds a queue another client stored.
GetFinds(c) ==
    /\ client[c] = "get"
    /\ getLock = Free
    /\ m # None
    /\ client' = [client EXCEPT ![c] = "idle"]
    /\ UNCHANGED <<storeVars, workerVars, list, scalerVars>>

\* Faulty: no second m.Load.
StoresUnchecked(c) ==
    /\ client[c] = "get"
    /\ getLock = Free
    /\ created < MaxQueues
    /\ getLock' = c
    /\ created' = created + 1
    /\ m' = created'
    /\ client' = [client EXCEPT ![c] = "workers"]
    /\ UNCHANGED <<queueStopMap, scaleFunc, stopped, queueOf, running, list, scalerVars>>

\* It finds none: construct a queue and store it.
GetStores(c) ==
    /\ client[c] = "get"
    /\ getLock = Free
    /\ m = None
    /\ created < MaxQueues
    /\ getLock' = c
    /\ created' = created + 1
    /\ m' = created'
    /\ client' = [client EXCEPT ![c] = "workers"]
    /\ UNCHANGED <<queueStopMap, scaleFunc, stopped, queueOf, running, list, scalerVars>>

\* spawnWorkers: the initial workers start; their stop functions are not
\* registered yet.
SpawnWorkers(c) ==
    /\ client[c] = "workers"
    /\ client' = [client EXCEPT ![c] = "stoppers"]
    /\ \E ws \in [1..(IF HasConstructor THEN numWorkers ELSE 0) -> Unused] :
        /\ \A i, j \in DOMAIN ws : i # j => ws[i] # ws[j]
        /\ Start(m, {ws[i] : i \in DOMAIN ws})
        /\ list' = [list EXCEPT ![c] = Entry(m, ws)]
    /\ UNCHANGED <<storeVars, created, stopped, scalerVars>>

\* Faulty: what is listed already is appended again.
ListsTwice(c) ==
    /\ client[c] = "stoppers"
    /\ queueStopMap' = Entry(list[c].queue,
            queueStopMap.workers \o queueStopMap.workers \o list[c].workers)
    /\ list' = [list EXCEPT ![c] = NoEntry]
    /\ client' = [client EXCEPT ![c] = "autoscale"]
    /\ UNCHANGED <<m, getLock, scaleFunc, workerVars, scalerVars>>

\* addStoppers: append to the entry that is there already, or make one.
AddStoppers(c) ==
    /\ client[c] = "stoppers"
    /\ queueStopMap' =
        Entry(list[c].queue, queueStopMap.workers \o list[c].workers)
    /\ list' = [list EXCEPT ![c] = NoEntry]
    /\ client' = [client EXCEPT ![c] = "autoscale"]
    /\ UNCHANGED <<m, getLock, scaleFunc, workerVars, scalerVars>>

\* spawnAutoScale, and the deferred Unlock.
SpawnAutoScale(c) ==
    /\ client[c] = "autoscale"
    /\ getLock' = Free
    /\ client' = [client EXCEPT ![c] = "idle"]
    /\ IF scaleFunc THEN StartScaler(m) ELSE UNCHANGED scalerVars
    /\ UNCHANGED <<m, queueStopMap, scaleFunc, workerVars, list>>

-----------------------------------------------------------------------------
(* Remove. *)

RemoveLocks(c) ==
    /\ CanRemove
    /\ client[c] = "idle"
    /\ getLock = Free
    /\ getLock' = c
    /\ client' = [client EXCEPT ![c] = "invoke"]
    /\ UNCHANGED <<m, queueStopMap, scaleFunc, workerVars, list, scalerVars>>

\* The part of invokeStoppers under stopsLock; without an entry it returns.
TakeStoppers(c) ==
    /\ client[c] = "invoke"
    /\ list' = [list EXCEPT ![c] = queueStopMap]
    /\ queueStopMap' = NoEntry
    /\ client' = [client EXCEPT ![c] =
            IF queueStopMap.present THEN "stopqueue" ELSE "delete"]
    /\ UNCHANGED <<m, getLock, scaleFunc, workerVars, scalerVars>>

\* Faulty: the queue's own stop function is not called.
StopOnlyWorkers(c) ==
    /\ client[c] = "stopqueue"
    /\ client' = [client EXCEPT ![c] = "stopworkers"]
    /\ UNCHANGED <<storeVars, workerVars, list, scalerVars>>

\* queueStop(): with the queue's context go those of its workers.
StopQueue(c) ==
    /\ client[c] = "stopqueue"
    /\ stopped' = stopped \cup ({list[c].queue} \ {None})
    /\ running' = IF QueueCancels
                  THEN {w \in running : queueOf[w] # list[c].queue}
                  ELSE running
    /\ client' = [client EXCEPT ![c] = "stopworkers"]
    /\ UNCHANGED <<storeVars, created, queueOf, list, scalerVars>>

\* The workers' stop functions.
StopWorkers(c) ==
    /\ client[c] = "stopworkers"
    /\ running' = running \ Listed(list[c])
    /\ list' = [list EXCEPT ![c] = NoEntry]
    /\ client' = [client EXCEPT ![c] = "delete"]
    /\ UNCHANGED <<storeVars, created, stopped, queueOf, scalerVars>>

\* m.Delete and the deferred Unlock.
Delete(c) ==
    /\ client[c] = "delete"
    /\ m' = None
    /\ getLock' = Free
    /\ client' = [client EXCEPT ![c] = "idle"]
    /\ UNCHANGED <<queueStopMap, scaleFunc, workerVars, list, scalerVars>>

-----------------------------------------------------------------------------
(* WithScaleFunc on a store in use. *)

\* The fields are set under scaleLock.
SetScaleFunc(c) ==
    /\ CanScaleLate
    /\ client[c] = "idle"
    /\ ~scaleFunc
    /\ scaleFunc' = TRUE
    /\ client' = [client EXCEPT ![c] = "range"]
    /\ UNCHANGED <<m, getLock, queueStopMap, workerVars, list, scalerVars>>

\* m.Range takes no lock of the store.
RangeStarts(c) ==
    /\ client[c] = "range"
    /\ client' = [client EXCEPT ![c] = "idle"]
    /\ IF m # None THEN StartScaler(m) ELSE UNCHANGED scalerVars
    /\ UNCHANGED <<storeVars, workerVars, list>>

-----------------------------------------------------------------------------
(* performAutoScale. *)

ScalerGoes(s, from, to) ==
    /\ scaler[s] = from
    /\ scaler' = [scaler EXCEPT ![s] = to]
    /\ UNCHANGED <<storeVars, clientVars, scales>>

\* The ticker fires while the queue's context is live.
Tick(s) ==
    /\ scales[s] \notin Canceled
    /\ ScalerGoes(s, "wait", "scaling")
    /\ UNCHANGED <<workerVars, target>>

\* ctx.Done, or the ticker and then ctx.Err.
ScalerLeaves(s) ==
    /\ scales[s] \in Canceled
    /\ ScalerGoes(s, "wait", "off")
    /\ UNCHANGED <<workerVars, target>>

\* ScaleFunc returns, or panics: then another goroutine goes on in its place
\* if the context is live, and none if it is canceled.
ScaleFuncReturns(s) ==
    /\ ScalerGoes(s, "scaling", "wait")
    /\ UNCHANGED <<workerVars, target>>
ScaleFuncPanics(s) ==
    /\ ScalerGoes(s, "scaling", IF scales[s] \in Canceled THEN "off" ELSE "wait")
    /\ UNCHANGED <<workerVars, target>>

\* addWorker up to m.Load, which need not find the queue s was started for.
AddWorkerLoads(s) ==
    /\ numWorkers # maxNumWorkers
    /\ HasConstructor
    /\ m # None
    /\ ScalerGoes(s, "scaling", "add")
    /\ target' = [target EXCEPT ![s] = m]
    /\ UNCHANGED workerVars

\* Faulty: >, not >=.
OneWorkerTooMany(s) ==
    /\ scaler[s] = "add"
    /\ scaler' = [scaler EXCEPT ![s] = "scaling"]
    /\ target' = [target EXCEPT ![s] = None]
    /\ IF Len(queueStopMap.workers) > maxNumWorkers
       THEN UNCHANGED <<queueStopMap, queueOf, running>>
       ELSE \E w \in Unused :
                /\ Start(target[s], {w})
                /\ queueStopMap' = Entry(queueStopMap.queue, Append(queueStopMap.workers, w))
    /\ UNCHANGED <<m, getLock, scaleFunc, created, stopped, clientVars, scales>>

\* The rest of it, under stopsLock: a missing entry is made, without the
\* queue's stop function and without a look at maxNumWorkers.
AddWorker(s) ==
    /\ scaler[s] = "add"
    /\ scaler' = [scaler EXCEPT ![s] = "scaling"]
    /\ target' = [target EXCEPT ![s] = None]
    /\ IF queueStopMap.present /\ Len(queueStopMap.workers) >= maxNumWorkers
       THEN UNCHANGED <<queueStopMap, queueOf, running>>
       ELSE \E w \in Unused :
                /\ Start(target[s], {w})
                /\ queueStopMap' = Entry(queueStopMap.queue, Append(queueStopMap.workers, w))
    /\ UNCHANGED <<m, getLock, scaleFunc, created, stopped, clientVars, scales>>

\* stopWorker up to m.Load.
StopWorkerLoads(s) ==
    /\ numWorkers # maxNumWorkers
    /\ m # None
    /\ ScalerGoes(s, "scaling", "stop")
    /\ UNCHANGED <<workerVars, target>>

\* Its part under stopsLock: take the newest stop function, unless it is the
\* only one.
PopStopper(s) ==
    /\ scaler[s] = "stop"
    /\ IF Len(queueStopMap.workers) <= 1
       THEN /\ scaler' = [scaler EXCEPT ![s] = "scaling"]
            /\ UNCHANGED <<queueStopMap, target>>
       ELSE LET ws == queueStopMap.workers n == Len(ws) IN
            /\ scaler' = [scaler EXCEPT ![s] = "cancel"]
            /\ target' = [target EXCEPT ![s] = ws[n]]
            /\ queueStopMap' = Entry(queueStopMap.queue, SubSeq(ws, 1, n - 1))
    /\ UNCHANGED <<m, getLock, scaleFunc, workerVars, clientVars, scales>>

\* Faulty: the stop function is dropped.
ForgetsToCancel(s) ==
    /\ ScalerGoes(s, "cancel", "scaling")
    /\ target' = [target EXCEPT ![s] = None]
    /\ UNCHANGED workerVars

\* The cancel() after the Unlock.
StopWorker(s) ==
    /\ ScalerGoes(s, "cancel", "scaling")
    /\ running' = running \ {target[s]}
    /\ target' = [target EXCEPT ![s] = None]
    /\ UNCHANGED <<created, stopped, queueOf>>

-----------------------------------------------------------------------------
ClientStep(c) ==
    \/ GetFinds(c) \/ GetStores(c) \/ SpawnWorkers(c) \/ AddStoppers(c) \/ SpawnAutoScale(c)
    \/ TakeStoppers(c) \/ StopQueue(c) \/ StopWorkers(c) \/ Delete(c)
    \/ RangeStarts(c)

InScaleFunc(s) == AddWorkerLoads(s) \/ StopWorkerLoads(s)

ScalerStep(s) ==
    \/ Tick(s) \/ ScalerLeaves(s)
    \/ AddWorker(s) \/ PopStopper(s) \/ StopWorker(s)

Next ==
    \/ \E c \in Clients : ClientStep(c) \/ GetMisses(c) \/ RemoveLocks(c) \/ SetScaleFunc(c)
    \/ \E s \in Scalers :
        ScalerStep(s) \/ InScaleFunc(s) \/ ScaleFuncReturns(s) \/ ScaleFuncPanics(s)

Spec == Init /\ [][Next]_vars

-----------------------------------------------------------------------------
(* Properties. *)

\* Outside Get and Remove the store holds the one queue it made and has not
\* stopped: no caller of Get is handed a second queue of the same id, and
\* none keeps a queue whose workers are gone (store.go:91-118).
LiveQueueIsStored ==
    getLock = Free => (1..created) \ stopped = {m} \ {None}

\* Outside Get and Remove no worker serves a queue that was removed, however
\* late an autoscaler of it comes to addWorker (store.go:191-220, 270-290).
WorkersDieWithQueue ==
    getLock = Free => \A w \in running : queueOf[w] = m

\* "deleteWorker can't stop last worker" (store.go:18): until something is
\* removed, a stored queue that started with workers has one, whatever
\* autoscalers do beside its construction.
LastWorkerStays ==
    getLock = Free /\ m # None /\ stopped = {} => \E w \in running : queueOf[w] = m

\* The same of a queue that is stored again under the id of a removed one.
LastWorkerAlwaysStays ==
    getLock = Free /\ m # None => \E w \in running : queueOf[w] = m

\* The workers that stopWorker has taken off the list and is about to stop.
Retiring == {target[s] : s \in {z \in Scalers : scaler[z] = "cancel"}}

\* "addWorker can't exceed maxNumWorkers" (store.go:18), but for the workers
\* Get starts before it lists them: an autoscaler that is ahead of addStoppers
\* counts without them (store.go:171 and 204-212).
WorkersBounded ==
    getLock = Free =>
        Cardinality({w \in running \ Retiring : queueOf[w] = m})
            <= maxNumWorkers + numWorkers

\* addWorker and stopWorker keep to the bounds of store.go:18.
WorkersInBounds == LastWorkerStays /\ WorkersBounded

\* Whatever autoscalers, Get and Remove do to the list, the stop function of
\* each running worker is kept there, unless stopWorker is about to call it
\* (store.go:171, 219, 246-250, 278).
WorkersCanBeStopped ==
    getLock = Free => running \subseteq Listed(queueStopMap) \cup Retiring
=============================================================================
