-------------------------- MODULE QueueStoreProofs --------------------------
(***************************************************************************)
(* Proofs about QueueStore: the store holds the one live queue of the id,  *)
(* no worker outlives its queue, and every worker can be stopped, for any  *)
(* numbers of clients, autoscalers, workers and constructions.             *)
(***************************************************************************)
EXTENDS QueueStore, FiniteSetTheorems, TLAPS

Steps == {"idle", "get", "workers", "stoppers", "autoscale",
          "invoke", "stopqueue", "stopworkers", "delete", "range"}
Holding == {"workers", "stoppers", "autoscale", "invoke", "stopqueue", "stopworkers", "delete"}
Carrying == {"stoppers", "stopqueue", "stopworkers"}

StoreTypes ==
    /\ m \in Queues \cup {None} /\ m \in 0..created
    /\ getLock \in Clients \cup {Free}
    /\ queueStopMap \in Entries
    /\ created \in 0..MaxQueues
    /\ stopped \subseteq 1..created
    /\ queueOf \in [Workers -> Queues \cup {None}]
    /\ running \subseteq Workers
    /\ client \in [Clients -> Steps]
    /\ list \in [Clients -> Entries]
    /\ scaler \in [Scalers -> {"off", "wait", "scaling", "add", "stop", "cancel"}]
    /\ scales \in [Scalers -> Queues \cup {None}]
    /\ target \in [Scalers -> Queues \cup {None} \cup Workers]

\* Who is inside Get or Remove holds getLock, and a list of its own only where it uses it.
LockInv ==
    \A c \in Clients :
        /\ client[c] \in Holding <=> getLock = c
        /\ client[c] \notin Carrying => list[c] = NoEntry

\* Where the call that holds getLock is.
Phase == IF getLock = Free THEN "free" ELSE client[getLock]
Alive == (1..created) \ stopped

\* The live queue, and whose queue the entry of stop functions is for, as the holder of
\* getLock goes on.
PhaseInv ==
    /\ Alive = IF Phase \in {"stopworkers", "delete"} THEN {} ELSE {m} \ {None}
    /\ Phase \in {"free", "autoscale", "invoke"} =>
            queueStopMap.queue = m /\ (m # None => queueStopMap.present)
    /\ Phase \in {"workers", "stoppers", "stopqueue", "stopworkers", "delete"} => queueStopMap.queue = None
    /\ Phase \in {"workers", "stoppers", "autoscale"} => m # None
    /\ Phase \in {"stoppers", "stopqueue"} => list[getLock].queue = m

\* A running worker serves a live queue, if the queue's stop function cancels its context;
\* an autoscaler adds workers to queues that were constructed.
WorkersInv ==
    /\ QueueCancels => \A w \in running : queueOf[w] \in Alive
    /\ \A s \in Scalers : scaler[s] = "add" => target[s] \in 1..created

\* The stop function of a running worker is somewhere.
KeptInv ==
    \A w \in running :
        \/ w \in Listed(queueStopMap) \/ w \in Retiring
        \/ \E c \in Clients : w \in Listed(list[c])

StoreInv == StoreTypes /\ LockInv /\ PhaseInv /\ WorkersInv /\ KeptInv

-----------------------------------------------------------------------------
LEMMA EntryIs ==
    ASSUME NEW q \in Queues \cup {None}, NEW ws \in Seq(Workers)
    PROVE  /\ Entry(q, ws) \in Entries /\ Entry(q, ws).present
           /\ Entry(q, ws).queue = q /\ Entry(q, ws).workers = ws
BY DEF Entry, Entries

LEMMA EntryHas ==
    ASSUME NEW e \in Entries
    PROVE  /\ e.queue \in Queues \cup {None} /\ e.workers \in Seq(Workers) /\ e.present \in BOOLEAN
           /\ ~e.present => e = NoEntry
BY DEF Entries

LEMMA NoEntryIs ==
    /\ NoEntry \in Entries /\ NoEntry.queue = None /\ ~NoEntry.present /\ NoEntry.workers = <<>>
    /\ Listed(NoEntry) = {}
<1>1. <<>> \in Seq(Workers) /\ DOMAIN <<>> = {}
  OBVIOUS
<1>2. NoEntry \in Entries /\ NoEntry.queue = None /\ ~NoEntry.present /\ NoEntry.workers = <<>>
  BY <1>1 DEF NoEntry, Entries
<1> QED
  BY <1>1, <1>2 DEF Listed

LEMMA StoreInitially == Init => StoreInv
<1> SUFFICES ASSUME Init PROVE StoreInv
  OBVIOUS
<1>1. StoreTypes
  <2>1. /\ client \in [Clients -> Steps] /\ list \in [Clients -> Entries]
        /\ scaler \in [Scalers -> {"off", "wait", "scaling", "add", "stop", "cancel"}]
        /\ scales \in [Scalers -> Queues \cup {None}]
        /\ target \in [Scalers -> Queues \cup {None} \cup Workers]
        /\ queueOf \in [Workers -> Queues \cup {None}]
    BY NoEntryIs DEF Init, Steps
  <2>2. m \in 0..created /\ created \in 0..MaxQueues
    BY StoreAssumption DEF Init, None
  <2> QED
    BY <2>1, <2>2, NoEntryIs DEF Init, StoreTypes
<1>2. LockInv
  BY StoreAssumption DEF Init, LockInv, Holding
<1>3. PhaseInv
  BY NoEntryIs DEF Init, PhaseInv, Phase, Alive, None
<1>4. WorkersInv /\ KeptInv
  BY DEF Init, WorkersInv, KeptInv
<1> QED
  BY <1>1, <1>2, <1>3, <1>4 DEF StoreInv

-----------------------------------------------------------------------------
(* What most steps leave alone. *)

\* An autoscaler touches neither calls nor queues.
LEMMA PhaseStays ==
    ASSUME LockInv, PhaseInv, UNCHANGED <<m, getLock, client, list, created, stopped>>,
           queueStopMap'.queue = queueStopMap.queue,
           queueStopMap.present => queueStopMap'.present
    PROVE  LockInv' /\ PhaseInv'
<1>1. Phase' = Phase /\ Alive' = Alive
  BY DEF Phase, Alive
<1>2. LockInv'
  BY DEF LockInv
<1> QED
  BY <1>1, <1>2 DEF PhaseInv

\* A client outside Get and Remove changes its place, no more.
LEMMA OutsideStays ==
    ASSUME StoreInv, NEW c \in Clients, NEW to \in Steps \ Holding,
           client[c] \notin Holding, client' = [client EXCEPT ![c] = to],
           UNCHANGED <<m, getLock, queueStopMap, list, created, stopped>>
    PROVE  client' \in [Clients -> Steps] /\ LockInv' /\ PhaseInv'
<1>1. /\ client' \in [Clients -> Steps] /\ client'[c] = to
      /\ \A d \in Clients \ {c} : client'[d] = client[d]
  BY DEF StoreInv, StoreTypes
<1>2. getLock # c
  BY DEF StoreInv, LockInv
<1>3. LockInv'
  BY <1>1, <1>2 DEF StoreInv, LockInv, Carrying, Holding
<1>4. Phase' = Phase /\ Alive' = Alive
  BY <1>1, <1>2 DEF Phase, Alive, StoreInv, StoreTypes
<1>5. PhaseInv'
  BY <1>4 DEF StoreInv, PhaseInv
<1> QED
  BY <1>1, <1>3, <1>5

\* A step of the call that holds getLock, to another place inside it.
LEMMA InsideMoves ==
    ASSUME StoreInv, NEW c \in Clients, NEW to \in Holding, client[c] \in Holding,
           client' = [client EXCEPT ![c] = to], UNCHANGED getLock,
           \A d \in Clients \ {c} : list'[d] = list[d],
           to \notin Carrying => list'[c] = NoEntry
    PROVE  /\ getLock = c /\ Phase = client[c] /\ Phase' = to
           /\ client' \in [Clients -> Steps] /\ LockInv'
<1>1. getLock = c /\ c # Free
  BY StoreAssumption DEF StoreInv, LockInv
<1>2. /\ client' \in [Clients -> Steps] /\ client'[c] = to
      /\ \A d \in Clients \ {c} : client'[d] = client[d]
  BY DEF StoreInv, StoreTypes, Steps, Holding
<1>3. Phase = client[c] /\ Phase' = to
  BY <1>1, <1>2 DEF Phase
<1>4. LockInv'
  BY <1>1, <1>2 DEF StoreInv, LockInv
<1> QED
  BY <1>1, <1>2, <1>3, <1>4

\* Nothing happens to workers and stop functions.
LEMMA WorkersStay ==
    ASSUME WorkersInv, UNCHANGED <<queueOf, running, scaler, target>>, Alive' = Alive, created' = created
    PROVE  WorkersInv'
BY DEF WorkersInv

LEMMA KeptStays ==
    ASSUME KeptInv, UNCHANGED <<queueStopMap, list, running, scaler, target>> PROVE KeptInv'
BY DEF KeptInv, Retiring

\* A worker that starts is none that runs; the others keep their queues.
LEMMA StartIs ==
    ASSUME StoreTypes, NEW q \in 1..created, NEW ws \in SUBSET Unused, Start(q, ws)
    PROVE  /\ queueOf' \in [Workers -> Queues \cup {None}] /\ running' \subseteq running \cup ws
           /\ running' \subseteq Workers
           /\ \A w \in running : queueOf'[w] = queueOf[w]
           /\ \A w \in running' \ running : queueOf'[w] = q /\ q \notin Canceled
<1>1. ws \subseteq Workers /\ ws \cap running = {}
  BY DEF Unused
<1>2. q \in Queues
  BY StoreAssumption DEF StoreTypes, Queues
<1> QED
  BY <1>1, <1>2 DEF Start, StoreTypes

\* A new autoscaler waits.
LEMMA ScalerStarts ==
    ASSUME StoreTypes, WorkersInv, NEW q \in Queues, StartScaler(q)
    PROVE  /\ scaler' \in [Scalers -> {"off", "wait", "scaling", "add", "stop", "cancel"}]
           /\ scales' \in [Scalers -> Queues \cup {None}] /\ target' = target
           /\ \A s \in Scalers : scaler'[s] \in {"add", "cancel"} <=> scaler[s] \in {"add", "cancel"}
           /\ \A s \in Scalers : scaler'[s] \in {"add", "cancel"} => scaler'[s] = scaler[s]
BY DEF StoreTypes, StartScaler

\* Autoscalers that are not in addWorker or stopWorker come and go.
LEMMA ScalersStay ==
    ASSUME WorkersInv, KeptInv, UNCHANGED <<created, stopped, queueOf, running, target, queueStopMap, list>>,
           \A s \in Scalers : scaler'[s] = "add" => scaler[s] = "add",
           \A s \in Scalers : scaler[s] = "cancel" => scaler'[s] = "cancel"
    PROVE  WorkersInv' /\ KeptInv'
<1>1. WorkersInv'
  BY DEF WorkersInv, Alive
<1>2. Retiring \subseteq Retiring'
  BY DEF Retiring
<1> QED
  BY <1>1, <1>2 DEF KeptInv

-----------------------------------------------------------------------------
(* Get. *)

LEMMA GetStoresKeeps == ASSUME StoreInv, NEW c \in Clients, GetStores(c) PROVE StoreInv'
<1>1. /\ client[c] = "get" /\ getLock = Free /\ m = None /\ created < MaxQueues
      /\ getLock' = c /\ created' = created + 1 /\ m' = created + 1
      /\ client' = [client EXCEPT ![c] = "workers"]
      /\ UNCHANGED <<queueStopMap, stopped, queueOf, running, list, scalerVars>>
  BY DEF GetStores
<1>2. c # Free /\ MaxQueues \in Nat /\ created \in Nat /\ stopped \subseteq 1..created
  BY StoreAssumption DEF StoreInv, StoreTypes
<1>3. /\ client' \in [Clients -> Steps] /\ client'[c] = "workers"
      /\ \A d \in Clients \ {c} : client'[d] = client[d]
  BY <1>1 DEF StoreInv, StoreTypes, Steps
<1>4. StoreTypes'
  BY <1>1, <1>2, <1>3 DEF StoreInv, StoreTypes, scalerVars, Queues
<1>5. \A d \in Clients : client[d] \notin Holding
  BY <1>1, <1>2, StoreAssumption DEF StoreInv, LockInv
<1>6. LockInv'
  BY <1>1, <1>3, <1>5 DEF StoreInv, LockInv, Holding, Carrying
<1>7. Phase = "free" /\ Phase' = "workers"
  BY <1>1, <1>2, <1>3 DEF Phase
<1>8. Alive = {} /\ queueStopMap.queue = None
  BY <1>1, <1>7 DEF StoreInv, PhaseInv
<1>9. Alive' = {m'} \ {None} /\ m' # None
  BY <1>1, <1>2, <1>8 DEF Alive, None
<1>10. PhaseInv'
  BY <1>1, <1>7, <1>8, <1>9 DEF PhaseInv
<1>11. WorkersInv'
  <2>1. Alive \subseteq Alive' /\ 1..created \subseteq 1..created'
    BY <1>1, <1>2, <1>8
  <2> QED
    BY <1>1, <2>1 DEF StoreInv, WorkersInv, scalerVars
<1>12. KeptInv'
  BY <1>1, KeptStays DEF StoreInv, scalerVars
<1> QED
  BY <1>4, <1>6, <1>10, <1>11, <1>12 DEF StoreInv

LEMMA SpawnWorkersKeeps == ASSUME StoreInv, NEW c \in Clients, SpawnWorkers(c) PROVE StoreInv'
<1>1. PICK ws \in [1..(IF HasConstructor THEN numWorkers ELSE 0) -> Unused] :
        /\ Start(m, {ws[i] : i \in DOMAIN ws})
        /\ list' = [list EXCEPT ![c] = Entry(m, ws)]
  BY DEF SpawnWorkers
<1>2. /\ client[c] = "workers" /\ client' = [client EXCEPT ![c] = "stoppers"]
      /\ UNCHANGED <<storeVars, created, stopped, scalerVars>>
  BY DEF SpawnWorkers
<1>3. ws \in Seq(Workers) /\ {ws[i] : i \in DOMAIN ws} \in SUBSET Unused
  <2>1. Unused \subseteq Workers /\ (IF HasConstructor THEN numWorkers ELSE 0) \in Nat
    BY StoreAssumption DEF Unused
  <2> QED
    BY <2>1
<1>4. m \in Queues \cup {None}
  BY DEF StoreInv, StoreTypes
<1>5. /\ Entry(m, ws) \in Entries /\ Entry(m, ws).queue = m /\ Entry(m, ws).workers = ws
      /\ list' \in [Clients -> Entries] /\ list'[c] = Entry(m, ws)
      /\ \A d \in Clients \ {c} : list'[d] = list[d]
  BY <1>1, <1>3, <1>4, EntryIs DEF StoreInv, StoreTypes
<1>6. /\ getLock = c /\ Phase = "workers" /\ Phase' = "stoppers"
      /\ client' \in [Clients -> Steps] /\ LockInv'
  BY <1>2, <1>5, InsideMoves DEF storeVars, Holding, Carrying
<1>7. Alive = {m} /\ m # None /\ queueStopMap.queue = None /\ Alive' = Alive /\ m \in 1..created
  BY <1>2, <1>6 DEF StoreInv, PhaseInv, Alive
<1>8. /\ queueOf' \in [Workers -> Queues \cup {None}] /\ running' \subseteq running \cup {ws[i] : i \in DOMAIN ws}
      /\ running' \subseteq Workers
      /\ \A w \in running : queueOf'[w] = queueOf[w]
      /\ \A w \in running' \ running : queueOf'[w] = m
  BY <1>1, <1>3, <1>7, StartIs DEF StoreInv
<1>9. StoreTypes'
  BY <1>2, <1>5, <1>6, <1>8 DEF StoreInv, StoreTypes, storeVars, scalerVars
<1>10. PhaseInv'
  BY <1>2, <1>5, <1>6, <1>7 DEF PhaseInv, storeVars
<1>11. WorkersInv'
  BY <1>2, <1>7, <1>8 DEF StoreInv, WorkersInv, scalerVars
<1>12. KeptInv'
  <2>1. Listed(list[c]) = {}
    BY <1>2, NoEntryIs DEF StoreInv, LockInv, Carrying
  <2>2. Listed(list'[c]) = {ws[i] : i \in DOMAIN ws}
    BY <1>5 DEF Listed
  <2>3. Listed(queueStopMap') = Listed(queueStopMap) /\ Retiring' = Retiring
    BY <1>2 DEF storeVars, scalerVars, Retiring
  <2> QED
    BY <1>5, <1>8, <2>1, <2>2, <2>3 DEF StoreInv, KeptInv
<1> QED
  BY <1>6, <1>9, <1>10, <1>11, <1>12 DEF StoreInv

\* What a list of stop functions is made of.
LEMMA ConcatListed ==
    ASSUME NEW a \in Seq(Workers), NEW b \in Seq(Workers)
    PROVE  {(a \o b)[i] : i \in DOMAIN (a \o b)}
                = {a[i] : i \in DOMAIN a} \cup {b[i] : i \in DOMAIN b}
<1>1. DOMAIN a = 1..Len(a) /\ DOMAIN b = 1..Len(b) /\ DOMAIN (a \o b) = 1..(Len(a) + Len(b))
  OBVIOUS
<1>2. /\ \A i \in 1..Len(a) : (a \o b)[i] = a[i]
      /\ \A i \in 1..Len(b) : (a \o b)[Len(a) + i] = b[i]
  OBVIOUS
<1>3. \A i \in 1..(Len(a) + Len(b)) : i \in 1..Len(a) \/ \E j \in 1..Len(b) : i = Len(a) + j
  <2> SUFFICES ASSUME NEW i \in 1..(Len(a) + Len(b)), i \notin 1..Len(a)
               PROVE  \E j \in 1..Len(b) : i = Len(a) + j
    OBVIOUS
  <2>1. i - Len(a) \in 1..Len(b) /\ i = Len(a) + (i - Len(a))
    OBVIOUS
  <2> QED
    BY <2>1
<1>4. \A i \in 1..Len(b) : Len(a) + i \in 1..(Len(a) + Len(b))
  OBVIOUS
<1>5. \A i \in 1..Len(a) : i \in 1..(Len(a) + Len(b))
  OBVIOUS
<1>6. ASSUME NEW i \in DOMAIN (a \o b)
      PROVE  (a \o b)[i] \in {a[j] : j \in DOMAIN a} \cup {b[j] : j \in DOMAIN b}
  <2>1. CASE i \in 1..Len(a)
    BY <1>1, <1>2, <2>1
  <2>2. CASE \E j \in 1..Len(b) : i = Len(a) + j
    BY <1>1, <1>2, <2>2
  <2> QED
    BY <1>1, <1>3, <2>1, <2>2
<1>7. ASSUME NEW i \in DOMAIN a PROVE a[i] \in {(a \o b)[j] : j \in DOMAIN (a \o b)}
  <2>1. i \in DOMAIN (a \o b) /\ (a \o b)[i] = a[i]
    BY <1>1, <1>2, <1>5
  <2> QED
    BY <2>1
<1>8. ASSUME NEW i \in DOMAIN b PROVE b[i] \in {(a \o b)[j] : j \in DOMAIN (a \o b)}
  <2>1. Len(a) + i \in DOMAIN (a \o b) /\ (a \o b)[Len(a) + i] = b[i]
    BY <1>1, <1>2, <1>4
  <2> QED
    BY <2>1
<1> QED
  BY <1>6, <1>7, <1>8

LEMMA AddStoppersKeeps == ASSUME StoreInv, NEW c \in Clients, AddStoppers(c) PROVE StoreInv'
<1> DEFINE ws == queueStopMap.workers \o list[c].workers
<1>1. /\ client[c] = "stoppers" /\ client' = [client EXCEPT ![c] = "autoscale"]
      /\ queueStopMap' = Entry(list[c].queue, ws)
      /\ list' = [list EXCEPT ![c] = NoEntry]
      /\ UNCHANGED <<m, getLock, workerVars, scalerVars>>
  BY DEF AddStoppers
<1>2. /\ list[c].queue \in Queues \cup {None}
      /\ queueStopMap.workers \in Seq(Workers) /\ list[c].workers \in Seq(Workers) /\ ws \in Seq(Workers)
  <2>1. list[c] \in Entries /\ queueStopMap \in Entries
    BY DEF StoreInv, StoreTypes
  <2> QED
    BY <2>1, EntryHas
<1>3. \A w \in Listed(queueStopMap) \cup Listed(list[c]) : w \in Listed(Entry(list[c].queue, ws))
  <2>1. Entry(list[c].queue, ws).workers = ws
    BY <1>2, EntryIs
  <2>2. {ws[i] : i \in DOMAIN ws} = {queueStopMap.workers[i] : i \in DOMAIN queueStopMap.workers}
                                        \cup {list[c].workers[i] : i \in DOMAIN list[c].workers}
    BY <1>2, ConcatListed
  <2> HIDE DEF ws
  <2> QED
    BY <2>1, <2>2 DEF Listed
<1> HIDE DEF ws
<1>4. /\ queueStopMap' \in Entries /\ queueStopMap'.present /\ queueStopMap'.queue = list[c].queue
  BY <1>1, <1>2, EntryIs
<1>5. /\ list' \in [Clients -> Entries] /\ list'[c] = NoEntry
      /\ \A d \in Clients \ {c} : list'[d] = list[d]
  BY <1>1, NoEntryIs DEF StoreInv, StoreTypes
<1>6. /\ getLock = c /\ Phase = "stoppers" /\ Phase' = "autoscale"
      /\ client' \in [Clients -> Steps] /\ LockInv'
  BY <1>1, <1>5, InsideMoves DEF Holding, Carrying
<1>7. Alive = {m} \ {None} /\ m # None /\ list[c].queue = m /\ Alive' = Alive
  BY <1>1, <1>6 DEF StoreInv, PhaseInv, Alive, workerVars
<1>8. StoreTypes'
  BY <1>1, <1>4, <1>5, <1>6 DEF StoreInv, StoreTypes, workerVars, scalerVars
<1>9. PhaseInv'
  BY <1>1, <1>4, <1>6, <1>7 DEF PhaseInv
<1>10. WorkersInv'
  BY <1>1, <1>7, WorkersStay DEF StoreInv, workerVars, scalerVars
<1>11. KeptInv'
  <2>1. running' = running /\ Retiring' = Retiring
    BY <1>1 DEF workerVars, scalerVars, Retiring
  <2> QED
    BY <1>1, <1>3, <1>5, <2>1 DEF StoreInv, KeptInv
<1> QED
  BY <1>6, <1>8, <1>9, <1>10, <1>11 DEF StoreInv

LEMMA SpawnAutoScaleKeeps == ASSUME StoreInv, NEW c \in Clients, SpawnAutoScale(c) PROVE StoreInv'
<1>1. /\ client[c] = "autoscale" /\ getLock' = Free /\ client' = [client EXCEPT ![c] = "idle"]
      /\ (UNCHANGED scalerVars \/ StartScaler(m))
      /\ UNCHANGED <<m, queueStopMap, workerVars, list>>
  BY DEF SpawnAutoScale
<1>2. getLock = c /\ c # Free
  BY <1>1, StoreAssumption DEF StoreInv, LockInv, Holding
<1>3. /\ client' \in [Clients -> Steps] /\ client'[c] = "idle"
      /\ \A d \in Clients \ {c} : client'[d] = client[d]
  BY <1>1 DEF StoreInv, StoreTypes, Steps
<1>4. LockInv'
  BY <1>1, <1>2, <1>3, StoreAssumption DEF StoreInv, LockInv, Holding, Carrying
<1>5. Phase = "autoscale" /\ Phase' = "free" /\ Alive' = Alive
  BY <1>1, <1>2 DEF Phase, Alive, workerVars
<1>6. PhaseInv' /\ m # None
  BY <1>1, <1>5 DEF StoreInv, PhaseInv
<1>7. /\ scaler' \in [Scalers -> {"off", "wait", "scaling", "add", "stop", "cancel"}]
      /\ scales' \in [Scalers -> Queues \cup {None}] /\ target' = target
      /\ \A s \in Scalers : scaler'[s] = "add" => scaler[s] = "add"
      /\ \A s \in Scalers : scaler[s] = "cancel" => scaler'[s] = "cancel"
  <2>1. CASE UNCHANGED scalerVars
    BY <2>1 DEF StoreInv, StoreTypes, scalerVars
  <2>2. CASE StartScaler(m)
    BY <1>6, <2>2, ScalerStarts DEF StoreInv, StoreTypes
  <2> QED
    BY <1>1, <2>1, <2>2
<1>8. StoreTypes'
  BY <1>1, <1>3, <1>7 DEF StoreInv, StoreTypes, workerVars
<1>9. WorkersInv' /\ KeptInv'
  BY <1>1, <1>7, ScalersStay DEF StoreInv, workerVars
<1> QED
  BY <1>4, <1>6, <1>8, <1>9 DEF StoreInv

-----------------------------------------------------------------------------
(* Remove. *)

LEMMA RemoveLocksKeeps == ASSUME StoreInv, NEW c \in Clients, RemoveLocks(c) PROVE StoreInv'
<1>1. /\ client[c] = "idle" /\ getLock = Free /\ getLock' = c
      /\ client' = [client EXCEPT ![c] = "invoke"]
      /\ UNCHANGED <<m, queueStopMap, workerVars, list, scalerVars>>
  BY DEF RemoveLocks
<1>2. /\ client' \in [Clients -> Steps] /\ client'[c] = "invoke"
      /\ \A d \in Clients \ {c} : client'[d] = client[d]
  BY <1>1 DEF StoreInv, StoreTypes, Steps
<1>3. c # Free /\ \A d \in Clients : client[d] \notin Holding
  BY <1>1, StoreAssumption DEF StoreInv, LockInv
<1>4. LockInv'
  BY <1>1, <1>2, <1>3 DEF StoreInv, LockInv, Holding, Carrying
<1>5. Phase = "free" /\ Phase' = "invoke" /\ Alive' = Alive
  BY <1>1, <1>2, <1>3 DEF Phase, Alive, workerVars
<1>6. PhaseInv'
  BY <1>1, <1>5 DEF StoreInv, PhaseInv
<1>7. StoreTypes'
  BY <1>1, <1>2 DEF StoreInv, StoreTypes, workerVars, scalerVars
<1>8. WorkersInv' /\ KeptInv'
  BY <1>1, <1>5, WorkersStay, KeptStays DEF StoreInv, workerVars, scalerVars
<1> QED
  BY <1>4, <1>6, <1>7, <1>8 DEF StoreInv

LEMMA TakeStoppersKeeps == ASSUME StoreInv, NEW c \in Clients, TakeStoppers(c) PROVE StoreInv'
<1> DEFINE to == IF queueStopMap.present THEN "stopqueue" ELSE "delete"
<1>1. /\ client[c] = "invoke" /\ client' = [client EXCEPT ![c] = to]
      /\ list' = [list EXCEPT ![c] = queueStopMap] /\ queueStopMap' = NoEntry
      /\ UNCHANGED <<m, getLock, workerVars, scalerVars>>
  BY DEF TakeStoppers
<1>2. to \in {"stopqueue", "delete"} /\ (to = "stopqueue" <=> queueStopMap.present)
  OBVIOUS
<1> HIDE DEF to
<1>3. ~queueStopMap.present => queueStopMap = NoEntry
  BY EntryHas DEF StoreInv, StoreTypes
<1>4. /\ list' \in [Clients -> Entries] /\ list'[c] = queueStopMap
      /\ \A d \in Clients \ {c} : list'[d] = list[d]
  BY <1>1 DEF StoreInv, StoreTypes
<1>5. /\ getLock = c /\ Phase = "invoke" /\ Phase' = to
      /\ client' \in [Clients -> Steps] /\ LockInv'
  BY <1>1, <1>2, <1>3, <1>4, InsideMoves DEF Holding, Carrying
<1>6. /\ Alive = {m} \ {None} /\ queueStopMap.queue = m /\ (m # None => queueStopMap.present)
      /\ Alive' = Alive
  BY <1>1, <1>5 DEF StoreInv, PhaseInv, Alive, workerVars
<1>7. StoreTypes'
  BY <1>1, <1>4, <1>5, NoEntryIs DEF StoreInv, StoreTypes, workerVars, scalerVars
<1>8. PhaseInv'
  <2>1. Alive' = IF Phase' \in {"stopworkers", "delete"} THEN {} ELSE {m'} \ {None}
    BY <1>1, <1>2, <1>5, <1>6
  <2>2. queueStopMap'.queue = None
    BY <1>1, NoEntryIs
  <2>3. list'[getLock'].queue = m'
    BY <1>1, <1>4, <1>5, <1>6
  <2> QED
    BY <1>2, <1>5, <2>1, <2>2, <2>3 DEF PhaseInv
<1>9. WorkersInv'
  BY <1>1, <1>6, WorkersStay DEF StoreInv, workerVars, scalerVars
<1>10. KeptInv'
  <2>1. Listed(list[c]) = {}
    BY <1>1, NoEntryIs DEF StoreInv, LockInv, Carrying
  <2>2. running' = running /\ Retiring' = Retiring
    BY <1>1 DEF workerVars, scalerVars, Retiring
  <2> QED
    BY <1>4, <2>1, <2>2 DEF StoreInv, KeptInv
<1> QED
  BY <1>5, <1>7, <1>8, <1>9, <1>10 DEF StoreInv

LEMMA StopQueueKeeps == ASSUME StoreInv, NEW c \in Clients, StopQueue(c) PROVE StoreInv'
<1>1. /\ client[c] = "stopqueue" /\ client' = [client EXCEPT ![c] = "stopworkers"]
      /\ stopped' = stopped \cup ({list[c].queue} \ {None})
      /\ running' = IF QueueCancels THEN {w \in running : queueOf[w] # list[c].queue} ELSE running
      /\ UNCHANGED <<storeVars, created, queueOf, list, scalerVars>>
  BY DEF StopQueue
<1>2. /\ getLock = c /\ Phase = "stopqueue" /\ Phase' = "stopworkers"
      /\ client' \in [Clients -> Steps] /\ LockInv'
  BY <1>1, InsideMoves DEF Holding, Carrying, storeVars
<1>3. Alive = {m} \ {None} /\ list[c].queue = m /\ queueStopMap.queue = None
  BY <1>2 DEF StoreInv, PhaseInv
<1>4. Alive' = {} /\ stopped' \subseteq 1..created
  BY <1>1, <1>3 DEF Alive, StoreInv, StoreTypes
<1>5. running' \subseteq running
  BY <1>1
<1>6. StoreTypes'
  BY <1>1, <1>2, <1>4, <1>5 DEF StoreInv, StoreTypes, storeVars, scalerVars
<1>7. PhaseInv'
  BY <1>1, <1>2, <1>3, <1>4 DEF PhaseInv, storeVars
<1>8. WorkersInv'
  <2>1. QueueCancels => running' = {}
    BY <1>1, <1>3 DEF StoreInv, WorkersInv
  <2> QED
    BY <1>1, <2>1 DEF StoreInv, WorkersInv, scalerVars
<1>9. KeptInv'
  <2>1. Retiring' = Retiring /\ queueStopMap' = queueStopMap /\ list' = list
    BY <1>1 DEF scalerVars, storeVars, Retiring
  <2> QED
    BY <1>5, <2>1 DEF StoreInv, KeptInv
<1> QED
  BY <1>2, <1>6, <1>7, <1>8, <1>9 DEF StoreInv

LEMMA StopWorkersKeeps == ASSUME StoreInv, NEW c \in Clients, StopWorkers(c) PROVE StoreInv'
<1>1. /\ client[c] = "stopworkers" /\ client' = [client EXCEPT ![c] = "delete"]
      /\ running' = running \ Listed(list[c]) /\ list' = [list EXCEPT ![c] = NoEntry]
      /\ UNCHANGED <<storeVars, created, stopped, queueOf, scalerVars>>
  BY DEF StopWorkers
<1>2. /\ list' \in [Clients -> Entries] /\ list'[c] = NoEntry
      /\ \A d \in Clients \ {c} : list'[d] = list[d]
  BY <1>1, NoEntryIs DEF StoreInv, StoreTypes
<1>3. /\ getLock = c /\ Phase = "stopworkers" /\ Phase' = "delete"
      /\ client' \in [Clients -> Steps] /\ LockInv'
  <2>1. "delete" \in Holding /\ client[c] \in Holding /\ UNCHANGED getLock
    BY <1>1 DEF Holding, storeVars
  <2>2. client' = [client EXCEPT ![c] = "delete"]
    BY <1>1
  <2>3. getLock = c /\ Phase = client[c] /\ Phase' = "delete" /\ client' \in [Clients -> Steps] /\ LockInv'
    BY <1>2, <2>1, <2>2, InsideMoves
  <2> QED
    BY <1>1, <2>3
<1>4. Alive' = Alive /\ Alive = {} /\ queueStopMap.queue = None
  <2>1. Alive = {} /\ queueStopMap.queue = None
    BY <1>3 DEF StoreInv, PhaseInv
  <2> QED
    BY <1>1, <2>1 DEF Alive
<1>5. StoreTypes'
  BY <1>1, <1>2, <1>3 DEF StoreInv, StoreTypes, storeVars, scalerVars
<1>6. PhaseInv'
  BY <1>1, <1>3, <1>4 DEF PhaseInv, storeVars
<1>7. WorkersInv'
  BY <1>1, <1>4 DEF StoreInv, WorkersInv, scalerVars
<1>8. KeptInv'
  <2>1. Retiring' = Retiring /\ queueStopMap' = queueStopMap
    BY <1>1 DEF scalerVars, storeVars, Retiring
  <2> QED
    BY <1>1, <1>2, <2>1 DEF StoreInv, KeptInv
<1> QED
  BY <1>3, <1>5, <1>6, <1>7, <1>8 DEF StoreInv

LEMMA DeleteKeeps == ASSUME StoreInv, NEW c \in Clients, Delete(c) PROVE StoreInv'
<1>1. /\ client[c] = "delete" /\ client' = [client EXCEPT ![c] = "idle"]
      /\ m' = None /\ getLock' = Free
      /\ UNCHANGED <<queueStopMap, workerVars, list, scalerVars>>
  BY DEF Delete
<1>2. getLock = c /\ c # Free
  BY <1>1, StoreAssumption DEF StoreInv, LockInv, Holding
<1>3. /\ client' \in [Clients -> Steps] /\ client'[c] = "idle"
      /\ \A d \in Clients \ {c} : client'[d] = client[d]
  BY <1>1 DEF StoreInv, StoreTypes, Steps
<1>4. LockInv'
  BY <1>1, <1>2, <1>3, StoreAssumption DEF StoreInv, LockInv, Holding, Carrying
<1>5. Phase = "delete" /\ Phase' = "free" /\ Alive' = Alive
  BY <1>1, <1>2 DEF Phase, Alive, workerVars
<1>6. Alive = {} /\ queueStopMap.queue = None
  BY <1>5 DEF StoreInv, PhaseInv
<1>7. PhaseInv'
  BY <1>1, <1>5, <1>6 DEF PhaseInv
<1>8. StoreTypes'
  <2>1. m' \in 0..created'
    BY <1>1, StoreAssumption DEF StoreInv, StoreTypes, workerVars, None
  <2> QED
    BY <1>1, <1>3, <2>1 DEF StoreInv, StoreTypes, workerVars, scalerVars
<1>9. WorkersInv' /\ KeptInv'
  BY <1>1, <1>5, WorkersStay, KeptStays DEF StoreInv, workerVars, scalerVars
<1> QED
  BY <1>4, <1>7, <1>8, <1>9 DEF StoreInv

-----------------------------------------------------------------------------
(* The rest. *)

LEMMA OutsideKeeps ==
    ASSUME StoreInv, NEW c \in Clients, GetMisses(c) \/ GetFinds(c) \/ SetScaleFunc(c) \/ RangeStarts(c)
    PROVE  StoreInv'
<1>1. PICK to \in {"idle", "get", "range"} : client' = [client EXCEPT ![c] = to]
  BY DEF GetMisses, GetFinds, SetScaleFunc, RangeStarts
<1>2. /\ client[c] \in {"idle", "get", "range"}
      /\ UNCHANGED <<m, getLock, queueStopMap, list, workerVars>>
      /\ UNCHANGED scalerVars \/ (m # None /\ StartScaler(m))
  BY DEF GetMisses, GetFinds, SetScaleFunc, RangeStarts, storeVars
<1>3. client' \in [Clients -> Steps] /\ LockInv' /\ PhaseInv'
  BY <1>1, <1>2, OutsideStays DEF Steps, Holding, workerVars
<1>4. /\ scaler' \in [Scalers -> {"off", "wait", "scaling", "add", "stop", "cancel"}]
      /\ scales' \in [Scalers -> Queues \cup {None}] /\ target' = target
      /\ \A s \in Scalers : scaler'[s] = "add" => scaler[s] = "add"
      /\ \A s \in Scalers : scaler[s] = "cancel" => scaler'[s] = "cancel"
  <2>1. CASE UNCHANGED scalerVars
    BY <2>1 DEF StoreInv, StoreTypes, scalerVars
  <2>2. CASE m # None /\ StartScaler(m)
    BY <2>2, ScalerStarts DEF StoreInv, StoreTypes
  <2> QED
    BY <1>2, <2>1, <2>2
<1>5. StoreTypes'
  BY <1>2, <1>3, <1>4 DEF StoreInv, StoreTypes, workerVars
<1>6. WorkersInv' /\ KeptInv'
  BY <1>2, <1>4, ScalersStay DEF StoreInv, workerVars
<1> QED
  BY <1>3, <1>5, <1>6 DEF StoreInv

\* Steps of an autoscaler that touch neither workers nor stop functions.
LEMMA ScalerGoesKeeps ==
    ASSUME StoreInv, NEW s \in Scalers, NEW from \in {"wait", "scaling"},
           NEW to \in {"off", "wait", "scaling", "stop"},
           ScalerGoes(s, from, to), UNCHANGED <<workerVars, target>>
    PROVE  StoreInv'
<1>1. /\ scaler[s] = from /\ scaler' = [scaler EXCEPT ![s] = to]
      /\ UNCHANGED <<m, getLock, queueStopMap, client, list, scales>>
  BY DEF ScalerGoes, storeVars, clientVars
<1>2. /\ scaler' \in [Scalers -> {"off", "wait", "scaling", "add", "stop", "cancel"}]
      /\ \A z \in Scalers : scaler'[z] = "add" => scaler[z] = "add"
      /\ \A z \in Scalers : scaler[z] = "cancel" => scaler'[z] = "cancel"
  BY <1>1 DEF StoreInv, StoreTypes
<1>3. StoreTypes'
  BY <1>1, <1>2 DEF StoreInv, StoreTypes, workerVars
<1>4. LockInv' /\ PhaseInv'
  BY <1>1, PhaseStays DEF StoreInv, workerVars
<1>5. WorkersInv' /\ KeptInv'
  BY <1>1, <1>2, ScalersStay DEF StoreInv, workerVars
<1> QED
  BY <1>3, <1>4, <1>5 DEF StoreInv

LEMMA AddWorkerLoadsKeeps == ASSUME StoreInv, NEW s \in Scalers, AddWorkerLoads(s) PROVE StoreInv'
<1>1. /\ m # None /\ scaler[s] = "scaling" /\ scaler' = [scaler EXCEPT ![s] = "add"]
      /\ target' = [target EXCEPT ![s] = m]
      /\ UNCHANGED <<m, getLock, queueStopMap, client, list, scales, workerVars>>
  BY DEF AddWorkerLoads, ScalerGoes, storeVars, clientVars
<1>2. /\ scaler' \in [Scalers -> {"off", "wait", "scaling", "add", "stop", "cancel"}]
      /\ target' \in [Scalers -> Queues \cup {None} \cup Workers]
      /\ scaler'[s] = "add" /\ target'[s] = m
      /\ \A z \in Scalers \ {s} : scaler'[z] = scaler[z] /\ target'[z] = target[z]
  BY <1>1 DEF StoreInv, StoreTypes
<1>3. StoreTypes'
  BY <1>1, <1>2 DEF StoreInv, StoreTypes, workerVars
<1>4. LockInv' /\ PhaseInv'
  BY <1>1, PhaseStays DEF StoreInv, workerVars
<1>5. m \in 1..created
  BY <1>1 DEF StoreInv, StoreTypes, None
<1>6. WorkersInv'
  BY <1>1, <1>2, <1>5 DEF StoreInv, WorkersInv, Alive, workerVars
<1>7. KeptInv'
  <2>1. Retiring \subseteq Retiring'
    BY <1>1, <1>2 DEF Retiring
  <2> QED
    BY <1>1, <2>1 DEF StoreInv, KeptInv, workerVars
<1> QED
  BY <1>3, <1>4, <1>6, <1>7 DEF StoreInv

LEMMA AddWorkerKeeps == ASSUME StoreInv, NEW s \in Scalers, AddWorker(s) PROVE StoreInv'
<1>1. /\ scaler[s] = "add" /\ scaler' = [scaler EXCEPT ![s] = "scaling"]
      /\ target' = [target EXCEPT ![s] = None]
      /\ UNCHANGED <<m, getLock, client, list, created, stopped, scales>>
  BY DEF AddWorker, clientVars
<1>2. /\ scaler' \in [Scalers -> {"off", "wait", "scaling", "add", "stop", "cancel"}]
      /\ target' \in [Scalers -> Queues \cup {None} \cup Workers]
      /\ scaler'[s] = "scaling"
      /\ \A z \in Scalers \ {s} : scaler'[z] = scaler[z] /\ target'[z] = target[z]
  BY <1>1 DEF StoreInv, StoreTypes
<1>3. Retiring' = Retiring
  BY <1>1, <1>2 DEF Retiring
<1>4. target[s] \in 1..created
  BY <1>1 DEF StoreInv, WorkersInv
<1>5. /\ queueStopMap' \in Entries /\ queueStopMap'.queue = queueStopMap.queue
      /\ queueStopMap.present => queueStopMap'.present
      /\ queueOf' \in [Workers -> Queues \cup {None}] /\ running' \subseteq Workers
      /\ \A w \in running : queueOf'[w] = queueOf[w]
      /\ \A w \in running' \ running : queueOf'[w] = target[s] /\ target[s] \notin Canceled
      /\ \A w \in running' \ running : w \in Listed(queueStopMap')
      /\ Listed(queueStopMap) \subseteq Listed(queueStopMap')
  <2>1. CASE UNCHANGED <<queueStopMap, queueOf, running>>
    BY <2>1 DEF StoreInv, StoreTypes
  <2>2. CASE \E w \in Unused :
                /\ Start(target[s], {w})
                /\ queueStopMap' = Entry(queueStopMap.queue, Append(queueStopMap.workers, w))
    <3>1. PICK w \in Unused :
                /\ Start(target[s], {w})
                /\ queueStopMap' = Entry(queueStopMap.queue, Append(queueStopMap.workers, w))
      BY <2>2
    <3>2. w \in Workers /\ {w} \in SUBSET Unused
      BY DEF Unused
    <3>3. queueStopMap.queue \in Queues \cup {None} /\ queueStopMap.workers \in Seq(Workers)
      BY EntryHas DEF StoreInv, StoreTypes
    <3>4. /\ <<w>> \in Seq(Workers) /\ queueStopMap.workers \o <<w>> \in Seq(Workers)
          /\ Append(queueStopMap.workers, w) = queueStopMap.workers \o <<w>>
      BY <3>2, <3>3
    <3>5. /\ queueStopMap' \in Entries /\ queueStopMap'.present
          /\ queueStopMap'.queue = queueStopMap.queue
          /\ queueStopMap'.workers = queueStopMap.workers \o <<w>>
      BY <3>1, <3>2, <3>3, <3>4, EntryIs, ZenonT(30)
    <3>6. {<<w>>[i] : i \in DOMAIN <<w>>} = {w}
      <4>1. DOMAIN <<w>> = {1} /\ <<w>>[1] = w
        OBVIOUS
      <4> QED
        BY <4>1
    <3>7. Listed(queueStopMap') = Listed(queueStopMap) \cup {w}
      <4>1. {(queueStopMap.workers \o <<w>>)[i] : i \in DOMAIN (queueStopMap.workers \o <<w>>)}
                = {queueStopMap.workers[i] : i \in DOMAIN queueStopMap.workers} \cup {<<w>>[i] : i \in DOMAIN <<w>>}
        BY <3>3, <3>4, ConcatListed
      <4> QED
        BY <3>5, <3>6, <4>1 DEF Listed
    <3>8. /\ queueOf' \in [Workers -> Queues \cup {None}] /\ running' \subseteq running \cup {w}
          /\ running' \subseteq Workers
          /\ \A v \in running : queueOf'[v] = queueOf[v]
          /\ \A v \in running' \ running : queueOf'[v] = target[s] /\ target[s] \notin Canceled
      BY <1>4, <3>1, <3>2, StartIs DEF StoreInv
    <3> QED
      BY <3>5, <3>7, <3>8
  <2> QED
    BY <2>1, <2>2 DEF AddWorker
<1>6. StoreTypes'
  BY <1>1, <1>2, <1>5 DEF StoreInv, StoreTypes
<1>7. LockInv' /\ PhaseInv'
  BY <1>1, <1>5, PhaseStays DEF StoreInv
<1>8. WorkersInv'
  <2>1. QueueCancels => \A w \in running' : queueOf'[w] \in Alive'
    BY <1>1, <1>4, <1>5 DEF StoreInv, WorkersInv, Alive, Canceled
  <2>2. \A z \in Scalers : scaler'[z] = "add" => target'[z] \in 1..created'
    BY <1>1, <1>2 DEF StoreInv, WorkersInv
  <2> QED
    BY <2>1, <2>2 DEF WorkersInv
<1>9. KeptInv'
  BY <1>1, <1>3, <1>5 DEF StoreInv, KeptInv
<1> QED
  BY <1>6, <1>7, <1>8, <1>9 DEF StoreInv

\* The last of a list, and the rest.
LEMMA LastListed ==
    ASSUME NEW ws \in Seq(Workers), Len(ws) > 1
    PROVE  /\ SubSeq(ws, 1, Len(ws) - 1) \in Seq(Workers) /\ ws[Len(ws)] \in Workers
           /\ \A i \in DOMAIN ws : i = Len(ws) \/
                (i \in DOMAIN SubSeq(ws, 1, Len(ws) - 1) /\ SubSeq(ws, 1, Len(ws) - 1)[i] = ws[i])
<1>1. DOMAIN SubSeq(ws, 1, Len(ws) - 1) = 1..(Len(ws) - 1) /\ DOMAIN ws = 1..Len(ws)
  OBVIOUS
<1>2. \A i \in 1..(Len(ws) - 1) : SubSeq(ws, 1, Len(ws) - 1)[i] = ws[i]
  OBVIOUS
<1>3. SubSeq(ws, 1, Len(ws) - 1) \in Seq(Workers) /\ ws[Len(ws)] \in Workers
  OBVIOUS
<1> QED
  BY <1>1, <1>2, <1>3

LEMMA PopStopperKeeps == ASSUME StoreInv, NEW s \in Scalers, PopStopper(s) PROVE StoreInv'
<1>1. /\ scaler[s] = "stop" /\ UNCHANGED <<m, getLock, client, list, workerVars, scales>>
  BY DEF PopStopper, clientVars
<1>2. queueStopMap.queue \in Queues \cup {None} /\ queueStopMap.workers \in Seq(Workers)
  BY EntryHas DEF StoreInv, StoreTypes
<1>3. CASE Len(queueStopMap.workers) <= 1
  <2>1. scaler' = [scaler EXCEPT ![s] = "scaling"] /\ UNCHANGED <<queueStopMap, target>>
    BY <1>3 DEF PopStopper
  <2>2. /\ scaler' \in [Scalers -> {"off", "wait", "scaling", "add", "stop", "cancel"}]
        /\ \A z \in Scalers : scaler'[z] = "add" => scaler[z] = "add"
        /\ \A z \in Scalers : scaler[z] = "cancel" => scaler'[z] = "cancel"
    BY <1>1, <2>1 DEF StoreInv, StoreTypes
  <2>3. StoreTypes'
    BY <1>1, <2>1, <2>2 DEF StoreInv, StoreTypes, workerVars
  <2>4. LockInv' /\ PhaseInv'
    BY <1>1, <2>1, PhaseStays DEF StoreInv, workerVars
  <2>5. WorkersInv' /\ KeptInv'
    BY <1>1, <2>1, <2>2, ScalersStay DEF StoreInv, workerVars
  <2> QED
    BY <2>3, <2>4, <2>5 DEF StoreInv
<1>4. CASE Len(queueStopMap.workers) > 1
  <2> DEFINE ws == queueStopMap.workers
             rest == SubSeq(ws, 1, Len(ws) - 1)
             last == ws[Len(ws)]
  <2>1. /\ scaler' = [scaler EXCEPT ![s] = "cancel"] /\ target' = [target EXCEPT ![s] = last]
        /\ queueStopMap' = Entry(queueStopMap.queue, rest)
    BY <1>2, <1>4 DEF PopStopper
  <2>2. /\ rest \in Seq(Workers) /\ last \in Workers
        /\ \A i \in DOMAIN ws : ws[i] = last \/ (i \in DOMAIN rest /\ rest[i] = ws[i])
    BY <1>2, <1>4, LastListed
  <2>3. /\ queueStopMap' \in Entries /\ queueStopMap'.present
        /\ queueStopMap'.queue = queueStopMap.queue /\ queueStopMap'.workers = rest
    BY <1>2, <2>1, <2>2, EntryIs
  <2>4. Listed(queueStopMap) \subseteq Listed(queueStopMap') \cup {last}
    BY <2>2, <2>3 DEF Listed
  <2> HIDE DEF ws, rest, last
  <2>5. /\ scaler' \in [Scalers -> {"off", "wait", "scaling", "add", "stop", "cancel"}]
        /\ target' \in [Scalers -> Queues \cup {None} \cup Workers]
        /\ scaler'[s] = "cancel" /\ target'[s] = last
        /\ \A z \in Scalers \ {s} : scaler'[z] = scaler[z] /\ target'[z] = target[z]
    BY <2>1, <2>2 DEF StoreInv, StoreTypes
  <2>6. Retiring \cup {last} \subseteq Retiring'
    BY <1>1, <2>5 DEF Retiring
  <2>7. StoreTypes'
    BY <1>1, <2>3, <2>5 DEF StoreInv, StoreTypes, workerVars
  <2>8. LockInv' /\ PhaseInv'
    BY <1>1, <2>3, PhaseStays DEF StoreInv, workerVars
  <2>9. WorkersInv'
    BY <1>1, <2>5 DEF StoreInv, WorkersInv, Alive, workerVars
  <2>10. KeptInv'
    BY <1>1, <2>4, <2>6 DEF StoreInv, KeptInv, workerVars
  <2> QED
    BY <2>7, <2>8, <2>9, <2>10 DEF StoreInv
<1> QED
  BY <1>2, <1>3, <1>4

LEMMA StopWorkerKeeps == ASSUME StoreInv, NEW s \in Scalers, StopWorker(s) PROVE StoreInv'
<1>1. /\ scaler[s] = "cancel" /\ scaler' = [scaler EXCEPT ![s] = "scaling"]
      /\ target' = [target EXCEPT ![s] = None] /\ running' = running \ {target[s]}
      /\ UNCHANGED <<m, getLock, queueStopMap, client, list, scales, created, stopped, queueOf>>
  BY DEF StopWorker, ScalerGoes, storeVars, clientVars
<1>2. /\ scaler' \in [Scalers -> {"off", "wait", "scaling", "add", "stop", "cancel"}]
      /\ target' \in [Scalers -> Queues \cup {None} \cup Workers]
      /\ scaler'[s] = "scaling"
      /\ \A z \in Scalers \ {s} : scaler'[z] = scaler[z] /\ target'[z] = target[z]
  BY <1>1 DEF StoreInv, StoreTypes
<1>3. Retiring \subseteq Retiring' \cup {target[s]}
  BY <1>2 DEF Retiring
<1>4. StoreTypes'
  BY <1>1, <1>2 DEF StoreInv, StoreTypes
<1>5. LockInv' /\ PhaseInv'
  BY <1>1, PhaseStays DEF StoreInv
<1>6. WorkersInv'
  BY <1>1, <1>2 DEF StoreInv, WorkersInv, Alive
<1>7. KeptInv'
  BY <1>1, <1>3 DEF StoreInv, KeptInv
<1> QED
  BY <1>4, <1>5, <1>6, <1>7 DEF StoreInv

LEMMA UnchangedKeeps == StoreInv /\ UNCHANGED vars => StoreInv'
<1> SUFFICES ASSUME StoreInv, UNCHANGED vars PROVE StoreInv'
  OBVIOUS
<1>1. UNCHANGED <<m, getLock, queueStopMap, workerVars, client, list, scaler, scales, target>>
  BY DEF vars, storeVars, clientVars, scalerVars
<1>2. StoreTypes'
  BY <1>1 DEF StoreInv, StoreTypes, workerVars
<1>3. LockInv' /\ PhaseInv'
  BY <1>1, PhaseStays DEF StoreInv, workerVars
<1>4. WorkersInv' /\ KeptInv'
  BY <1>1, ScalersStay DEF StoreInv, workerVars
<1> QED
  BY <1>2, <1>3, <1>4 DEF StoreInv

LEMMA StoreStep == StoreInv /\ [Next]_vars => StoreInv'
<1> SUFFICES ASSUME StoreInv, [Next]_vars PROVE StoreInv'
  OBVIOUS
<1>1. ASSUME NEW c \in Clients, ClientStep(c) \/ GetMisses(c) \/ RemoveLocks(c) \/ SetScaleFunc(c)
      PROVE  StoreInv'
  BY <1>1, GetStoresKeeps, SpawnWorkersKeeps, AddStoppersKeeps, SpawnAutoScaleKeeps,
     RemoveLocksKeeps, TakeStoppersKeeps, StopQueueKeeps, StopWorkersKeeps, DeleteKeeps, OutsideKeeps
     DEF ClientStep
<1>2. ASSUME NEW s \in Scalers,
             ScalerStep(s) \/ InScaleFunc(s) \/ ScaleFuncReturns(s) \/ ScaleFuncPanics(s)
      PROVE  StoreInv'
  <2>1. CASE Tick(s) \/ ScalerLeaves(s) \/ StopWorkerLoads(s) \/ ScaleFuncReturns(s) \/ ScaleFuncPanics(s)
    BY <2>1, ScalerGoesKeeps DEF Tick, ScalerLeaves, StopWorkerLoads, ScaleFuncReturns, ScaleFuncPanics
  <2>2. CASE AddWorkerLoads(s) \/ AddWorker(s) \/ PopStopper(s) \/ StopWorker(s)
    BY <2>2, AddWorkerLoadsKeeps, AddWorkerKeeps, PopStopperKeeps, StopWorkerKeeps
  <2> QED
    BY <1>2, <2>1, <2>2 DEF ScalerStep, InScaleFunc
<1> QED
  BY <1>1, <1>2, UnchangedKeeps DEF Next

LEMMA StoreInductive == Spec => []StoreInv
BY StoreInitially, StoreStep, PTL DEF Spec

-----------------------------------------------------------------------------
\* For any numbers of clients, autoscalers and constructions, the queue that the store
\* holds outside Get and Remove is the only one that lives (store.go:91-118, 270-290).
THEOREM LiveQueueCorrect == Spec => []LiveQueueIsStored
<1>1. StoreInv => LiveQueueIsStored
  BY DEF StoreInv, PhaseInv, Phase, Alive, LiveQueueIsStored
<1> QED
  BY <1>1, StoreInductive, PTL

\* If the queue's own stop function cancels its context, as that of a memory queue does,
\* no worker outlives its queue, however late it was added (store.go:191-220, 270-290).
THEOREM WorkersDieCorrect == ASSUME QueueCancels PROVE Spec => []WorkersDieWithQueue
<1>1. StoreInv => WorkersDieWithQueue
  BY DEF StoreInv, PhaseInv, Phase, WorkersInv, WorkersDieWithQueue
<1> QED
  BY <1>1, StoreInductive, PTL

\* The stop function of every running worker is listed, or about to be called, outside
\* Get and Remove (store.go:171, 219, 246-250, 278).
THEOREM WorkersCanBeStoppedCorrect == Spec => []WorkersCanBeStopped
<1>1. StoreInv => WorkersCanBeStopped
  <2> SUFFICES ASSUME StoreInv, getLock = Free PROVE running \subseteq Listed(queueStopMap) \cup Retiring
    BY DEF WorkersCanBeStopped
  <2>1. \A c \in Clients : Listed(list[c]) = {}
    BY NoEntryIs, StoreAssumption DEF StoreInv, LockInv, Holding, Carrying
  <2> QED
    BY <2>1 DEF StoreInv, KeptInv
<1> QED
  BY <1>1, StoreInductive, PTL

-----------------------------------------------------------------------------
(* No stop function is listed twice. *)

Once(ws) == \A i, j \in DOMAIN ws : ws[i] = ws[j] => i = j
Slots(ws) == {ws[i] : i \in DOMAIN ws}

\* Not in one list, not in the lists of the entry and of a client, and none that
\* stopWorker has taken off.
OnceInv ==
    /\ Once(queueStopMap.workers)
    /\ \A c \in Clients : Once(list[c].workers) /\ Listed(list[c]) \cap Listed(queueStopMap) = {}
    /\ \A s \in Scalers : scaler[s] = "cancel" =>
            /\ target[s] \notin Listed(queueStopMap)
            /\ \A c \in Clients : target[s] \notin Listed(list[c])

LEMMA OnceIsCounted ==
    ASSUME NEW ws \in Seq(Workers), Once(ws)
    PROVE  IsFiniteSet(Slots(ws)) /\ Cardinality(Slots(ws)) = Len(ws)
<1>1. Len(ws) \in Nat /\ DOMAIN ws = 1..Len(ws) /\ ws \in [1..Len(ws) -> Slots(ws)]
  BY DEF Slots
<1>2. ws \in Surjection(1..Len(ws), Slots(ws)) /\ ws \in Injection(1..Len(ws), Slots(ws))
  BY <1>1 DEF Surjection, Injection, IsInjective, Once, Slots
<1>3. IsFiniteSet(1..Len(ws)) /\ Cardinality(1..Len(ws)) = Len(ws)
  BY <1>1, FS_Interval
<1> QED
  BY <1>2, <1>3, FS_Surjection

LEMMA OnceConcat ==
    ASSUME NEW a \in Seq(Workers), NEW b \in Seq(Workers), Once(a), Once(b), Slots(a) \cap Slots(b) = {}
    PROVE  Once(a \o b) /\ Slots(a \o b) = Slots(a) \cup Slots(b)
<1>1. /\ Len(a) \in Nat /\ Len(b) \in Nat
      /\ DOMAIN a = 1..Len(a) /\ DOMAIN b = 1..Len(b) /\ DOMAIN (a \o b) = 1..(Len(a) + Len(b))
  OBVIOUS
<1>2. \A i \in 1..(Len(a) + Len(b)) :
        \/ i \in 1..Len(a) /\ (a \o b)[i] = a[i]
        \/ i - Len(a) \in 1..Len(b) /\ (a \o b)[i] = b[i - Len(a)]
  OBVIOUS
<1>3. \A i \in 1..Len(a), j \in 1..Len(b) : a[i] # b[j]
  BY <1>1 DEF Slots
<1>4. /\ \A i, j \in 1..Len(a) : a[i] = a[j] => i = j
      /\ \A i, j \in 1..Len(b) : b[i] = b[j] => i = j
  BY <1>1 DEF Once
<1> DEFINE ab == a \o b
<1>5. ASSUME NEW i \in 1..(Len(a) + Len(b)), NEW j \in 1..(Len(a) + Len(b)), ab[i] = ab[j]
      PROVE  i = j
  <2> HIDE DEF ab
  <2>1. /\ \/ i \in 1..Len(a) /\ ab[i] = a[i]
           \/ i - Len(a) \in 1..Len(b) /\ ab[i] = b[i - Len(a)]
        /\ \/ j \in 1..Len(a) /\ ab[j] = a[j]
           \/ j - Len(a) \in 1..Len(b) /\ ab[j] = b[j - Len(a)]
    BY <1>2 DEF ab
  <2>2. i - Len(a) = j - Len(a) => i = j
    BY <1>1
  <2> QED
    BY <1>3, <1>4, <1>5, <2>1, <2>2
<1> QED
  BY <1>1, <1>5, ConcatListed DEF Once, Slots

LEMMA OnceRest ==
    ASSUME NEW ws \in Seq(Workers), Once(ws), Len(ws) > 1
    PROVE  LET rest == SubSeq(ws, 1, Len(ws) - 1)
           IN  Once(rest) /\ Slots(rest) \subseteq Slots(ws) /\ ws[Len(ws)] \in Slots(ws) \ Slots(rest)
<1> DEFINE rest == SubSeq(ws, 1, Len(ws) - 1)
<1>1. DOMAIN rest = 1..(Len(ws) - 1) /\ DOMAIN ws = 1..Len(ws) /\ Len(ws) \in Nat
  OBVIOUS
<1>2. \A i \in 1..(Len(ws) - 1) : rest[i] = ws[i]
  OBVIOUS
<1> HIDE DEF rest
<1>3. \A i \in 1..(Len(ws) - 1) : i \in 1..Len(ws) /\ i # Len(ws)
  <2>1. \A n \in Nat : \A i \in 1..(n - 1) : i \in 1..n /\ i # n
    OBVIOUS
  <2> QED
    BY <1>1, <2>1
<1>4. Len(ws) \in 1..Len(ws)
  BY <1>1
<1>5. Once(rest) /\ Slots(rest) \subseteq Slots(ws) /\ ws[Len(ws)] \in Slots(ws) \ Slots(rest)
  BY <1>1, <1>2, <1>3, <1>4 DEF Once, Slots
<1> QED
  BY <1>5 DEF rest

LEMMA OnceOfFew ==
    /\ Once(<<>>) /\ Slots(<<>>) = {}
    /\ Once(NoEntry.workers)
    /\ \A w \in Workers : <<w>> \in Seq(Workers) /\ Once(<<w>>) /\ Slots(<<w>>) = {w}
<1>1. DOMAIN <<>> = {}
  OBVIOUS
<1>2. ASSUME NEW w \in Workers PROVE <<w>> \in Seq(Workers) /\ DOMAIN <<w>> = {1} /\ <<w>>[1] = w
  OBVIOUS
<1> QED
  BY <1>1, <1>2, NoEntryIs DEF Once, Slots

LEMMA UnusedIs ==
    ASSUME NEW w \in Unused
    PROVE  /\ w \in Workers /\ w \notin running /\ w \notin Listed(queueStopMap)
           /\ \A c \in Clients : w \notin Listed(list[c])
           /\ \A s \in Scalers : target[s] # w
<1>1. w \in Workers /\ w \notin running /\ w \notin Listed(queueStopMap)
  BY DEF Unused
<1>2. w \notin UNION {Listed(list[c]) : c \in Clients} /\ w \notin {target[s] : s \in Scalers}
  BY DEF Unused
<1>3. \A c \in Clients : Listed(list[c]) \in {Listed(list[d]) : d \in Clients}
  OBVIOUS
<1>4. \A c \in Clients : w \notin Listed(list[c])
  BY <1>2, <1>3
<1> QED
  BY <1>1, <1>2, <1>4

LEMMA OnceStays ==
    ASSUME OnceInv, UNCHANGED <<queueStopMap, list, target>>,
           \A s \in Scalers : scaler'[s] = "cancel" => scaler[s] = "cancel"
    PROVE  OnceInv'
BY DEF OnceInv

LEMMA OnceInitially == Init => OnceInv
<1> SUFFICES ASSUME Init PROVE OnceInv
  OBVIOUS
<1> QED
  BY OnceOfFew, NoEntryIs DEF Init, OnceInv

LEMMA OnceClients ==
    ASSUME StoreInv, OnceInv, NEW c \in Clients,
           ClientStep(c) \/ GetMisses(c) \/ RemoveLocks(c) \/ SetScaleFunc(c)
    PROVE  OnceInv'
<1>1. \A d \in Clients : list[d].workers \in Seq(Workers)
  BY EntryHas DEF StoreInv, StoreTypes
<1>2. queueStopMap.workers \in Seq(Workers)
  BY EntryHas DEF StoreInv, StoreTypes
<1>3. \A d \in Clients \ {c} : client[c] \in Holding => list[d] = NoEntry /\ Listed(list[d]) = {}
  BY NoEntryIs DEF StoreInv, LockInv, Holding, Carrying
<1>4. CASE GetMisses(c) \/ GetFinds(c) \/ GetStores(c) \/ RemoveLocks(c) \/ SetScaleFunc(c)
           \/ StopQueue(c) \/ Delete(c)
  BY <1>4, OnceStays DEF GetMisses, GetFinds, GetStores, RemoveLocks, SetScaleFunc, StopQueue, Delete,
                         storeVars, scalerVars
<1>5. CASE SpawnAutoScale(c) \/ RangeStarts(c)
  <2>1. UNCHANGED <<queueStopMap, list>> /\ (UNCHANGED scalerVars \/ StartScaler(m))
    BY <1>5 DEF SpawnAutoScale, RangeStarts, storeVars
  <2>2. target' = target /\ \A s \in Scalers : scaler'[s] = "cancel" => scaler[s] = "cancel"
    BY <2>1 DEF scalerVars, StartScaler, StoreInv, StoreTypes
  <2> QED
    BY <2>1, <2>2, OnceStays
<1>6. CASE SpawnWorkers(c)
  <2>1. PICK ws \in [1..(IF HasConstructor THEN numWorkers ELSE 0) -> Unused] :
          /\ \A i, j \in DOMAIN ws : i # j => ws[i] # ws[j]
          /\ list' = [list EXCEPT ![c] = Entry(m, ws)]
    BY <1>6 DEF SpawnWorkers
  <2>2. client[c] = "workers" /\ UNCHANGED <<queueStopMap, scaler, target>>
    BY <1>6 DEF SpawnWorkers, storeVars, scalerVars
  <2>3. list'[c].workers = ws /\ \A d \in Clients \ {c} : list'[d] = list[d]
    BY <2>1 DEF Entry, StoreInv, StoreTypes
  <2>4. Once(ws) /\ Slots(ws) \subseteq Unused
    BY <2>1 DEF Once, Slots
  <2>5. Listed(list'[c]) \subseteq Unused
    BY <2>3, <2>4 DEF Listed, Slots
  <2>6. Unused \cap Listed(queueStopMap) = {} /\ \A s \in Scalers : target[s] \notin Unused
    BY UnusedIs
  <2> QED
    BY <2>2, <2>3, <2>4, <2>5, <2>6 DEF OnceInv
<1>7. CASE AddStoppers(c)
  <2> DEFINE ws == queueStopMap.workers \o list[c].workers
  <2>1. /\ client[c] = "stoppers" /\ queueStopMap' = Entry(list[c].queue, ws)
        /\ list' = [list EXCEPT ![c] = NoEntry] /\ UNCHANGED <<scaler, target>>
    BY <1>7 DEF AddStoppers, scalerVars
  <2>2. /\ Once(queueStopMap.workers) /\ Once(list[c].workers)
        /\ Slots(queueStopMap.workers) \cap Slots(list[c].workers) = {}
    BY DEF OnceInv, Listed, Slots
  <2>3. Once(ws) /\ Slots(ws) = Listed(queueStopMap) \cup Listed(list[c])
    BY <1>1, <1>2, <2>2, OnceConcat DEF Slots, Listed
  <2> HIDE DEF ws
  <2>4. queueStopMap'.workers = ws /\ Listed(queueStopMap') = Slots(ws)
    BY <2>1 DEF Entry, Listed, Slots
  <2>5. /\ list'[c] = NoEntry /\ \A d \in Clients \ {c} : list'[d] = list[d]
        /\ \A d \in Clients : Listed(list'[d]) = {}
    BY <1>3, <2>1, NoEntryIs DEF StoreInv, StoreTypes, Holding
  <2> QED
    BY <2>1, <2>3, <2>4, <2>5, OnceOfFew DEF OnceInv
<1>8. CASE TakeStoppers(c)
  <2>1. /\ client[c] = "invoke" /\ queueStopMap' = NoEntry
        /\ list' = [list EXCEPT ![c] = queueStopMap] /\ UNCHANGED <<scaler, target>>
    BY <1>8 DEF TakeStoppers, scalerVars
  <2>2. /\ list'[c] = queueStopMap /\ \A d \in Clients \ {c} : list'[d] = list[d]
        /\ Listed(queueStopMap') = {}
    BY <2>1, NoEntryIs DEF StoreInv, StoreTypes
  <2> QED
    BY <2>1, <2>2, OnceOfFew DEF OnceInv
<1>9. CASE StopWorkers(c)
  <2>1. list' = [list EXCEPT ![c] = NoEntry] /\ UNCHANGED <<queueStopMap, scaler, target>>
    BY <1>9 DEF StopWorkers, storeVars, scalerVars
  <2>2. /\ list'[c] = NoEntry /\ \A d \in Clients \ {c} : list'[d] = list[d]
        /\ Listed(list'[c]) = {}
    BY <2>1, NoEntryIs DEF StoreInv, StoreTypes
  <2> QED
    BY <2>1, <2>2, OnceOfFew DEF OnceInv
<1> QED
  BY <1>4, <1>5, <1>6, <1>7, <1>8, <1>9 DEF ClientStep

LEMMA OnceScalers ==
    ASSUME StoreInv, OnceInv, NEW s \in Scalers,
           ScalerStep(s) \/ InScaleFunc(s) \/ ScaleFuncReturns(s) \/ ScaleFuncPanics(s)
    PROVE  OnceInv'
<1>1. queueStopMap.workers \in Seq(Workers)
  BY EntryHas DEF StoreInv, StoreTypes
<1>2. scaler \in [Scalers -> {"off", "wait", "scaling", "add", "stop", "cancel"}]
      /\ DOMAIN target = Scalers
  BY DEF StoreInv, StoreTypes
<1>3. CASE Tick(s) \/ ScalerLeaves(s) \/ StopWorkerLoads(s) \/ ScaleFuncReturns(s) \/ ScaleFuncPanics(s)
  <2>1. PICK to \in {"off", "wait", "scaling", "stop"} : scaler' = [scaler EXCEPT ![s] = to]
    BY <1>3 DEF Tick, ScalerLeaves, StopWorkerLoads, ScaleFuncReturns, ScaleFuncPanics, ScalerGoes
  <2>2. UNCHANGED <<queueStopMap, list, target>>
    BY <1>3 DEF Tick, ScalerLeaves, StopWorkerLoads, ScaleFuncReturns, ScaleFuncPanics, ScalerGoes,
                storeVars, clientVars
  <2> QED
    BY <1>2, <2>1, <2>2, OnceStays
<1>4. CASE AddWorkerLoads(s) \/ StopWorker(s)
  <2>1. PICK to \in {"add", "scaling"} : scaler' = [scaler EXCEPT ![s] = to]
    BY <1>4 DEF AddWorkerLoads, StopWorker, ScalerGoes
  <2>2. UNCHANGED <<queueStopMap, list>>
    BY <1>4 DEF AddWorkerLoads, StopWorker, ScalerGoes, storeVars, clientVars
  <2>3. PICK loaded \in {m, None} : target' = [target EXCEPT ![s] = loaded]
    BY <1>4 DEF AddWorkerLoads, StopWorker
  <2>4. \A z \in Scalers : scaler'[z] = "cancel" => scaler[z] = "cancel" /\ target'[z] = target[z]
    BY <1>2, <2>1, <2>3
  <2> QED
    BY <2>2, <2>4 DEF OnceInv
<1>5. CASE AddWorker(s)
  <2>1. /\ list' = list /\ scaler' = [scaler EXCEPT ![s] = "scaling"]
        /\ target' = [target EXCEPT ![s] = None]
    BY <1>5 DEF AddWorker, clientVars
  <2>2. \A z \in Scalers : scaler'[z] = "cancel" => scaler[z] = "cancel" /\ target'[z] = target[z]
    BY <1>2, <2>1
  <2>3. CASE UNCHANGED queueStopMap
    BY <2>1, <2>2, <2>3 DEF OnceInv
  <2>4. CASE \E w \in Unused : queueStopMap' = Entry(queueStopMap.queue, Append(queueStopMap.workers, w))
    <3>1. PICK w \in Unused : queueStopMap' = Entry(queueStopMap.queue, Append(queueStopMap.workers, w))
      BY <2>4
    <3>2. /\ w \in Workers /\ w \notin Listed(queueStopMap)
          /\ \A c \in Clients : w \notin Listed(list[c])
          /\ \A z \in Scalers : target[z] # w
      BY UnusedIs
    <3>3. Append(queueStopMap.workers, w) = queueStopMap.workers \o <<w>>
      BY <1>1, <3>2
    <3>4. /\ Once(queueStopMap.workers \o <<w>>)
          /\ Slots(queueStopMap.workers \o <<w>>) = Listed(queueStopMap) \cup {w}
      <4>1. /\ Once(queueStopMap.workers) /\ Slots(queueStopMap.workers) = Listed(queueStopMap)
            /\ <<w>> \in Seq(Workers) /\ Once(<<w>>) /\ Slots(<<w>>) = {w}
        BY <3>2, OnceOfFew DEF OnceInv, Listed, Slots
      <4>2. Slots(queueStopMap.workers) \cap Slots(<<w>>) = {}
        BY <3>2, <4>1
      <4>3. /\ Once(queueStopMap.workers \o <<w>>)
            /\ Slots(queueStopMap.workers \o <<w>>) = Slots(queueStopMap.workers) \cup Slots(<<w>>)
        BY <1>1, <4>1, <4>2, OnceConcat
      <4> QED
        BY <4>1, <4>3
    <3>5. Once(queueStopMap'.workers) /\ Listed(queueStopMap') = Listed(queueStopMap) \cup {w}
      BY <3>1, <3>3, <3>4 DEF Entry, Listed, Slots
    <3> QED
      BY <2>1, <2>2, <3>2, <3>5 DEF OnceInv
  <2> QED
    BY <1>5, <2>3, <2>4 DEF AddWorker
<1>6. CASE PopStopper(s)
  <2>1. list' = list
    BY <1>6 DEF PopStopper, clientVars
  <2>2. CASE Len(queueStopMap.workers) <= 1
    <3>1. scaler' = [scaler EXCEPT ![s] = "scaling"] /\ UNCHANGED <<queueStopMap, target>>
      BY <1>6, <2>2 DEF PopStopper
    <3> QED
      BY <1>2, <2>1, <3>1, OnceStays
  <2>3. CASE Len(queueStopMap.workers) > 1
    <3> DEFINE ws == queueStopMap.workers
               rest == SubSeq(ws, 1, Len(ws) - 1)
    <3>1. /\ scaler' = [scaler EXCEPT ![s] = "cancel"]
          /\ target' = [target EXCEPT ![s] = ws[Len(ws)]]
          /\ queueStopMap' = Entry(queueStopMap.queue, rest)
      BY <1>1, <1>6, <2>3 DEF PopStopper
    <3>2. Once(rest) /\ Slots(rest) \subseteq Slots(ws) /\ ws[Len(ws)] \in Slots(ws) \ Slots(rest)
      BY <1>1, <2>3, OnceRest DEF OnceInv
    <3> DEFINE last == ws[Len(ws)]
    <3> HIDE DEF rest, last
    <3>3. Listed(queueStopMap') = Slots(rest) /\ queueStopMap'.workers = rest /\ Slots(ws) = Listed(queueStopMap)
      BY <3>1 DEF Entry, Listed, Slots
    <3>4. target'[s] = last /\ \A z \in Scalers \ {s} : scaler'[z] = scaler[z] /\ target'[z] = target[z]
      BY <1>2, <3>1 DEF last
    <3>5. last \in Listed(queueStopMap) \ Slots(rest) /\ Slots(rest) \subseteq Listed(queueStopMap)
      BY <3>2, <3>3 DEF last
    <3>6. \A c \in Clients : last \notin Listed(list[c])
      BY <3>5 DEF OnceInv
    <3> QED
      BY <2>1, <3>2, <3>3, <3>4, <3>5, <3>6 DEF OnceInv
  <2> QED
    BY <1>1, <2>2, <2>3
<1> QED
  BY <1>3, <1>4, <1>5, <1>6 DEF ScalerStep, InScaleFunc

LEMMA OnceStep == StoreInv /\ OnceInv /\ [Next]_vars => OnceInv'
<1> SUFFICES ASSUME StoreInv, OnceInv, [Next]_vars PROVE OnceInv'
  OBVIOUS
<1>1. CASE UNCHANGED vars
  BY <1>1, OnceStays DEF vars, storeVars, clientVars, scalerVars
<1> QED
  BY <1>1, OnceClients, OnceScalers DEF Next

-----------------------------------------------------------------------------
(* How many workers a queue has. *)

\* Only a stored queue's entry counts its first workers beside those of addWorker.
LengthInv ==
    /\ Len(queueStopMap.workers) <=
            IF queueStopMap.queue = None THEN maxNumWorkers ELSE maxNumWorkers + numWorkers
    /\ Phase = "stoppers" => Len(list[getLock].workers) <= numWorkers

\* Until a queue is stopped there is one queue at most, every listed worker runs for it,
\* and once its first workers are listed the list never gets empty.
FirstInv == stopped = {} =>
    /\ created = 0 => running = {}
    /\ \A w \in running : queueOf[w] = created
    /\ Listed(queueStopMap) \subseteq running
    /\ Phase = "stoppers" => Listed(list[getLock]) \subseteq running /\ list[getLock].workers # <<>>
    /\ Phase \in {"free", "autoscale", "invoke"} /\ m # None => queueStopMap.workers # <<>>

BoundsInv == LengthInv /\ FirstInv

LEMMA BoundsInitially == Init => BoundsInv
<1> SUFFICES ASSUME Init PROVE BoundsInv
  OBVIOUS
<1>1. /\ stopped = {} /\ running = {} /\ queueStopMap = NoEntry /\ m = None /\ created = 0
      /\ Phase = "free"
  BY DEF Init, Phase
<1>2. Len(NoEntry.workers) = 0
  BY NoEntryIs
<1>3. LengthInv
  BY <1>1, <1>2, NoEntryIs, StoreAssumption DEF LengthInv
<1>4. FirstInv
  BY <1>1, NoEntryIs DEF FirstInv
<1> QED
  BY <1>3, <1>4 DEF BoundsInv

\* The phase is where the client is that holds the lock.
LEMMA PhaseIs ==
    ASSUME StoreInv, NEW c \in Clients
    PROVE  /\ client[c] \in Holding => getLock = c /\ c # Free /\ Phase = client[c]
           /\ getLock = Free => Phase = "free"
           /\ Phase \in {"free"} \cup Steps
BY StoreAssumption DEF StoreInv, StoreTypes, LockInv, Phase

\* Before a queue is stopped the only one is the first.
LEMMA FirstQueue ==
    ASSUME StoreInv, stopped = {}
    PROVE  /\ created \in {0, 1} /\ m \in {None, created} /\ (m = None \/ created = 1)
           /\ Phase \in {"stopworkers", "delete"} => created = 0
           /\ Phase = "free" /\ m = None => created = 0
           /\ \A s \in Scalers : scaler[s] = "add" => target[s] = created /\ created = 1
<1>1. created \in Nat /\ m \in 0..created
  BY StoreAssumption DEF StoreInv, StoreTypes
<1>2. 1..created = IF Phase \in {"stopworkers", "delete"} THEN {} ELSE {m} \ {None}
  BY DEF StoreInv, PhaseInv, Alive
<1>3. created \in {0, 1}
  <2>1. SUFFICES ASSUME created > 1 PROVE FALSE
    BY <1>1
  <2>2. 1 \in 1..created /\ 2 \in 1..created
    BY <1>1, <2>1
  <2>3. \A x \in 1..created : x = m
    BY <1>2
  <2>4. 1 = m /\ 2 = m
    BY <2>2, <2>3
  <2> QED
    BY <2>4
<1>4. 1..0 = {} /\ 1..1 = {1} /\ 0..0 = {0} /\ 0..1 = {0, 1}
  OBVIOUS
<1>5. \A s \in Scalers : scaler[s] = "add" => target[s] \in 1..created
  BY DEF StoreInv, WorkersInv
<1> QED
  BY <1>1, <1>2, <1>3, <1>4, <1>5 DEF None

\* Steps that leave workers and lists alone.
LEMMA BoundsStay ==
    ASSUME BoundsInv, UNCHANGED <<queueStopMap, list, running, queueOf, created, stopped>>,
           Phase' = "stoppers" => Phase = "stoppers" /\ getLock' = getLock,
           Phase' \in {"free", "autoscale", "invoke"} /\ m' # None =>
                Phase \in {"free", "autoscale", "invoke"} /\ m # None
    PROVE  BoundsInv'
BY DEF BoundsInv, LengthInv, FirstInv

LEMMA BoundsClients ==
    ASSUME HasConstructor, numWorkers > 0, maxNumWorkers > 0,
           StoreInv, StoreInv', OnceInv, BoundsInv, NEW c \in Clients,
           ClientStep(c) \/ GetMisses(c) \/ RemoveLocks(c) \/ SetScaleFunc(c)
    PROVE  BoundsInv'
<1> USE StoreAssumption
<1>1. /\ client[c] \in Holding => getLock = c /\ c # Free /\ Phase = client[c]
      /\ getLock = Free => Phase = "free"
      /\ client'[c] \in Holding => getLock' = c /\ c # Free /\ Phase' = client'[c]
      /\ getLock' = Free => Phase' = "free"
      /\ Free \notin Clients
  <2>1. /\ client'[c] \in Holding => getLock' = c /\ c # Free /\ Phase' = client'[c]
        /\ getLock' = Free => Phase' = "free"
    BY DEF StoreInv, LockInv, Phase
  <2> QED
    BY <2>1, PhaseIs
<1>2. /\ client \in [Clients -> Steps] /\ list \in [Clients -> Entries]
      /\ queueStopMap.workers \in Seq(Workers) /\ list[c].workers \in Seq(Workers)
      /\ Len(queueStopMap.workers) \in Nat /\ Len(list[c].workers) \in Nat
  BY EntryHas DEF StoreInv, StoreTypes
<1>3. CASE GetMisses(c) \/ GetFinds(c) \/ SetScaleFunc(c) \/ RangeStarts(c)
  <2>1. /\ client[c] \in {"idle", "get", "range"}
        /\ \E to \in {"idle", "get", "range"} : client' = [client EXCEPT ![c] = to]
        /\ UNCHANGED <<m, getLock, queueStopMap, list, running, queueOf, created, stopped>>
    BY <1>3 DEF GetMisses, GetFinds, SetScaleFunc, RangeStarts, storeVars, workerVars
  <2>2. Phase' = Phase
    <3>1. getLock # c
      BY <2>1 DEF StoreInv, LockInv, Holding
    <3> QED
      BY <1>2, <2>1, <3>1 DEF Phase
  <2> QED
    BY <2>1, <2>2, BoundsStay
<1>4. CASE GetStores(c)
  <2>1. /\ getLock = Free /\ m = None /\ created' = created + 1 /\ client'[c] = "workers"
        /\ UNCHANGED <<queueStopMap, list, running, queueOf, stopped>>
    BY <1>2, <1>4 DEF GetStores
  <2>2. Phase = "free" /\ Phase' = "workers"
    BY <1>1, <2>1 DEF Holding
  <2>3. LengthInv'
    BY <2>1, <2>2 DEF BoundsInv, LengthInv
  <2>4. ASSUME stopped = {} PROVE running = {} /\ created' # 0
    <3>1. created = 0
      BY <2>1, <2>2, <2>4, FirstQueue
    <3> QED
      BY <2>1, <2>4, <3>1 DEF BoundsInv, FirstInv
  <2>5. FirstInv'
    BY <2>1, <2>2, <2>4 DEF BoundsInv, FirstInv
  <2> QED
    BY <2>3, <2>5 DEF BoundsInv
<1>5. CASE SpawnWorkers(c)
  <2>1. PICK ws \in [1..numWorkers -> Unused] :
          /\ Start(m, {ws[i] : i \in DOMAIN ws})
          /\ list' = [list EXCEPT ![c] = Entry(m, ws)]
    BY <1>5 DEF SpawnWorkers
  <2>2. /\ client[c] = "workers" /\ client'[c] = "stoppers"
        /\ UNCHANGED <<m, getLock, queueStopMap, created, stopped>>
    BY <1>2, <1>5 DEF SpawnWorkers, storeVars
  <2>3. getLock = c /\ getLock' = c /\ Phase = "workers" /\ Phase' = "stoppers" /\ m # None
    BY <1>1, <2>2 DEF Holding, StoreInv, PhaseInv
  <2>4. list'[c].workers = ws /\ Listed(list'[c]) = Slots(ws)
    BY <1>2, <2>1 DEF Entry, Listed, Slots
  <2>5. ws \in Seq(Unused) /\ Len(ws) = numWorkers
    BY <2>1
  <2>6. LengthInv'
    BY <2>2, <2>3, <2>4, <2>5 DEF BoundsInv, LengthInv
  <2>7. ASSUME stopped = {}
        PROVE  /\ running' = running \cup Slots(ws) /\ m = created /\ created # 0
               /\ \A w \in running' : queueOf'[w] = created
    <3>1. m = created /\ created # 0
      BY <2>3, <2>7, FirstQueue DEF None
    <3>2. running' = running \cup Slots(ws)
      BY <2>1, <2>7 DEF Start, Canceled, Slots
    <3>3. running \subseteq Workers /\ Slots(ws) \subseteq Workers
      BY <2>1 DEF StoreInv, StoreTypes, Slots, Unused
    <3>4. queueOf' = [w \in Workers |-> IF w \in Slots(ws) THEN m ELSE queueOf[w]]
      BY <2>1 DEF Start, Slots
    <3> QED
      BY <2>7, <3>1, <3>2, <3>3, <3>4 DEF BoundsInv, FirstInv
  <2>8. ws # <<>>
    BY <2>5
  <2>9. FirstInv'
    BY <2>2, <2>3, <2>4, <2>7, <2>8 DEF BoundsInv, FirstInv
  <2> QED
    BY <2>6, <2>9 DEF BoundsInv
<1>6. CASE AddStoppers(c)
  <2> DEFINE ws == queueStopMap.workers \o list[c].workers
  <2>1. /\ client[c] = "stoppers" /\ client'[c] = "autoscale" /\ queueStopMap' = Entry(list[c].queue, ws)
        /\ UNCHANGED <<m, getLock, running, queueOf, created, stopped>>
    BY <1>2, <1>6 DEF AddStoppers, workerVars
  <2>2. /\ getLock = c /\ Phase = "stoppers" /\ Phase' = "autoscale"
        /\ queueStopMap.queue = None /\ list[c].queue = m /\ m # None
    BY <1>1, <2>1 DEF Holding, StoreInv, PhaseInv
  <2>3. Len(ws) = Len(queueStopMap.workers) + Len(list[c].workers)
    BY <1>2
  <2>4. {ws[i] : i \in DOMAIN ws} = {queueStopMap.workers[i] : i \in DOMAIN queueStopMap.workers}
                                        \cup {list[c].workers[i] : i \in DOMAIN list[c].workers}
    BY <1>2, ConcatListed
  <2>5. list[c].workers # <<>> => ws # <<>>
    BY <1>2
  <2> HIDE DEF ws
  <2>6. queueStopMap'.workers = ws /\ queueStopMap'.queue = m
        /\ Listed(queueStopMap') = Listed(queueStopMap) \cup Listed(list[c])
    BY <2>1, <2>2, <2>4 DEF Entry, Listed
  <2>7. LengthInv'
    <3>1. Len(queueStopMap.workers) <= maxNumWorkers /\ Len(list[c].workers) <= numWorkers
      BY <2>2 DEF BoundsInv, LengthInv
    <3> DEFINE a == Len(queueStopMap.workers)
               b == Len(list[c].workers)
    <3>2. Len(ws) <= maxNumWorkers + numWorkers
      <4>1. a \in Nat /\ b \in Nat /\ a <= maxNumWorkers /\ b <= numWorkers /\ Len(ws) = a + b
        BY <1>2, <2>3, <3>1
      <4> HIDE DEF a, b
      <4> QED
        BY <4>1
    <3>3. Len(queueStopMap'.workers) <= maxNumWorkers + numWorkers /\ queueStopMap'.queue # None
      BY <2>2, <2>6, <3>2
    <3> QED
      BY <2>2, <3>3 DEF LengthInv
  <2>8. FirstInv'
    BY <2>1, <2>2, <2>5, <2>6 DEF BoundsInv, FirstInv
  <2> QED
    BY <2>7, <2>8 DEF BoundsInv
<1>7. CASE SpawnAutoScale(c)
  <2>1. /\ client[c] = "autoscale" /\ getLock' = Free
        /\ UNCHANGED <<m, queueStopMap, list, running, queueOf, created, stopped>>
    BY <1>7 DEF SpawnAutoScale, workerVars
  <2> QED
    BY <1>1, <2>1, BoundsStay DEF Holding
<1>8. CASE RemoveLocks(c)
  <2>1. /\ getLock = Free /\ client'[c] = "invoke"
        /\ UNCHANGED <<m, queueStopMap, list, running, queueOf, created, stopped>>
    BY <1>2, <1>8 DEF RemoveLocks, workerVars
  <2> QED
    BY <1>1, <2>1, BoundsStay DEF Holding
<1>9. CASE TakeStoppers(c)
  <2>1. /\ queueStopMap' = NoEntry /\ client'[c] \in {"stopqueue", "delete"}
        /\ UNCHANGED <<running, queueOf, created, stopped>>
    BY <1>2, <1>9 DEF TakeStoppers, workerVars
  <2>2. Phase' \in {"stopqueue", "delete"}
    BY <1>1, <2>1 DEF Holding
  <2>3. Len(NoEntry.workers) = 0 /\ NoEntry.queue = None /\ Listed(NoEntry) = {}
    BY NoEntryIs
  <2> QED
    BY <2>1, <2>2, <2>3 DEF BoundsInv, LengthInv, FirstInv
<1>10. CASE StopQueue(c) \/ StopWorkers(c)
  <2>1. /\ client'[c] \in {"stopworkers", "delete"} /\ stopped \subseteq stopped' /\ running' \subseteq running
        /\ UNCHANGED <<queueStopMap, created>>
    BY <1>2, <1>10 DEF StopQueue, StopWorkers, storeVars
  <2>2. Phase' \in {"stopworkers", "delete"}
    BY <1>1, <2>1 DEF Holding
  <2>3. LengthInv'
    BY <2>1, <2>2 DEF BoundsInv, LengthInv
  <2>4. ASSUME stopped' = {} PROVE stopped = {} /\ running = {}
    <3>1. (1..created)' = {}
      BY <2>2, <2>4 DEF StoreInv, PhaseInv, Alive
    <3>2. created = 0
      BY <2>1, <3>1 DEF StoreInv, StoreTypes
    <3> QED
      BY <2>1, <2>4, <3>2 DEF BoundsInv, FirstInv
  <2>5. FirstInv'
    BY <2>1, <2>2, <2>4 DEF BoundsInv, FirstInv
  <2> QED
    BY <2>3, <2>5 DEF BoundsInv
<1>11. CASE Delete(c)
  <2>1. /\ m' = None /\ getLock' = Free
        /\ UNCHANGED <<queueStopMap, list, running, queueOf, created, stopped>>
    BY <1>11 DEF Delete, workerVars
  <2> QED
    BY <1>1, <2>1, BoundsStay
<1> QED
  BY <1>3, <1>4, <1>5, <1>6, <1>7, <1>8, <1>9, <1>10, <1>11 DEF ClientStep

LEMMA BoundsScalers ==
    ASSUME HasConstructor, numWorkers > 0, maxNumWorkers > 0,
           StoreInv, OnceInv, BoundsInv, NEW s \in Scalers,
           ScalerStep(s) \/ InScaleFunc(s) \/ ScaleFuncReturns(s) \/ ScaleFuncPanics(s)
    PROVE  BoundsInv'
<1> USE StoreAssumption
<1>1. UNCHANGED <<m, getLock, client, list, created, stopped>>
  BY DEF ScalerStep, InScaleFunc, Tick, ScalerLeaves, AddWorker, PopStopper, StopWorker,
         AddWorkerLoads, StopWorkerLoads, ScaleFuncReturns, ScaleFuncPanics, ScalerGoes,
         storeVars, clientVars, workerVars
<1>2. Phase' = Phase /\ (Phase = "stoppers" => getLock \in Clients)
  <2>1. getLock = Free => Phase = "free"
    BY DEF Phase
  <2> QED
    BY <1>1, <2>1 DEF Phase, StoreInv, StoreTypes
<1>3. /\ queueStopMap.workers \in Seq(Workers) /\ Len(queueStopMap.workers) \in Nat
      /\ ~queueStopMap.present => queueStopMap = NoEntry
  BY EntryHas DEF StoreInv, StoreTypes
<1>4. CASE UNCHANGED <<queueStopMap, running, queueOf>>
  BY <1>1, <1>2, <1>4, BoundsStay
<1>5. CASE StopWorker(s)
  <2>1. scaler[s] = "cancel" /\ running' = running \ {target[s]} /\ UNCHANGED <<queueStopMap, queueOf>>
    BY <1>5 DEF StopWorker, ScalerGoes, storeVars
  <2>2. /\ target[s] \notin Listed(queueStopMap)
        /\ Phase = "stoppers" => target[s] \notin Listed(list[getLock])
    BY <1>2, <2>1 DEF OnceInv
  <2> QED
    BY <1>1, <1>2, <2>1, <2>2 DEF BoundsInv, LengthInv, FirstInv
<1>6. CASE PopStopper(s) /\ Len(queueStopMap.workers) > 1
  <2> DEFINE ws == queueStopMap.workers
             rest == SubSeq(ws, 1, Len(ws) - 1)
  <2>1. queueStopMap' = Entry(queueStopMap.queue, rest) /\ UNCHANGED <<running, queueOf>>
    BY <1>3, <1>6 DEF PopStopper, workerVars
  <2>2. Len(rest) = Len(ws) - 1 /\ rest # <<>>
    <3>1. \A q \in Seq(Workers) : Len(q) > 1 =>
            LET r == SubSeq(q, 1, Len(q) - 1) IN Len(r) = Len(q) - 1 /\ r \in Seq(Workers)
      OBVIOUS
    <3>2. Len(rest) = Len(ws) - 1 /\ Len(ws) > 1 /\ Len(ws) \in Nat
      BY <1>3, <1>6, <3>1
    <3> HIDE DEF rest
    <3>3. Len(<<>>) = 0
      OBVIOUS
    <3> QED
      BY <3>2, <3>3
  <2>3. Slots(rest) \subseteq Slots(ws)
    BY <1>3, <1>6, OnceRest DEF OnceInv
  <2> HIDE DEF rest
  <2>4. /\ queueStopMap'.queue = queueStopMap.queue /\ queueStopMap'.workers = rest
        /\ Listed(queueStopMap') \subseteq Listed(queueStopMap)
    BY <2>1, <2>3 DEF Entry, Listed, Slots
  <2>5. LengthInv'
    BY <1>1, <1>2, <1>3, <2>2, <2>4 DEF BoundsInv, LengthInv
  <2>6. FirstInv'
    BY <1>1, <1>2, <2>1, <2>2, <2>4 DEF BoundsInv, FirstInv
  <2> QED
    BY <2>5, <2>6 DEF BoundsInv
<1>7. CASE AddWorker(s) /\ ~UNCHANGED <<queueStopMap, running, queueOf>>
  <2>1. scaler[s] = "add" /\ (queueStopMap.present => Len(queueStopMap.workers) < maxNumWorkers)
    BY <1>3, <1>7 DEF AddWorker
  <2>2. PICK w \in Unused :
          /\ Start(target[s], {w})
          /\ queueStopMap' = Entry(queueStopMap.queue, Append(queueStopMap.workers, w))
    BY <1>7 DEF AddWorker
  <2>3. w \in Workers
    BY UnusedIs
  <2> DEFINE ws == Append(queueStopMap.workers, w)
  <2>4. Len(ws) = Len(queueStopMap.workers) + 1 /\ ws # <<>> /\ ws = queueStopMap.workers \o <<w>>
    BY <1>3, <2>3
  <2>5. Slots(ws) = Listed(queueStopMap) \cup {w}
    <3>1. <<w>> \in Seq(Workers) /\ {<<w>>[i] : i \in DOMAIN <<w>>} = {w}
      BY <2>3, OnceOfFew DEF Slots
    <3>2. {(queueStopMap.workers \o <<w>>)[i] : i \in DOMAIN (queueStopMap.workers \o <<w>>)}
              = {queueStopMap.workers[i] : i \in DOMAIN queueStopMap.workers} \cup {<<w>>[i] : i \in DOMAIN <<w>>}
      BY <1>3, <3>1, ConcatListed
    <3> HIDE DEF ws
    <3> QED
      BY <2>4, <3>1, <3>2 DEF Slots, Listed
  <2> HIDE DEF ws
  <2>6. /\ queueStopMap'.queue = queueStopMap.queue /\ queueStopMap'.workers = ws
        /\ Listed(queueStopMap') = Listed(queueStopMap) \cup {w}
    BY <2>2, <2>5 DEF Entry, Listed, Slots, ws
  <2>7. Len(ws) <= maxNumWorkers
    <3>1. ~queueStopMap.present => Len(queueStopMap.workers) = 0
      BY <1>3, NoEntryIs
    <3> QED
      BY <1>3, <2>1, <2>4, <3>1
  <2>8. LengthInv'
    <3>1. Len(queueStopMap'.workers) <= maxNumWorkers /\ Len(queueStopMap'.workers) \in Nat
      BY <1>3, <2>4, <2>6, <2>7
    <3>2. Len(queueStopMap'.workers) <= maxNumWorkers + numWorkers
      BY <3>1
    <3> QED
      BY <1>1, <1>2, <3>1, <3>2 DEF BoundsInv, LengthInv
  <2>9. ASSUME stopped = {}
        PROVE  /\ running' = running \cup {w} /\ created # 0
               /\ \A v \in running' : queueOf'[v] = created
    <3>1. target[s] = created /\ created # 0
      BY <2>1, <2>9, FirstQueue
    <3>2. running' = running \cup {w}
      BY <2>2, <2>9 DEF Start, Canceled
    <3>3. running \subseteq Workers
      BY DEF StoreInv, StoreTypes
    <3>4. queueOf' = [v \in Workers |-> IF v \in {w} THEN target[s] ELSE queueOf[v]]
      BY <2>2 DEF Start
    <3> QED
      BY <2>3, <2>9, <3>1, <3>2, <3>3, <3>4 DEF BoundsInv, FirstInv
  <2>10. FirstInv'
    BY <1>1, <1>2, <2>4, <2>6, <2>9 DEF BoundsInv, FirstInv
  <2> QED
    BY <2>8, <2>10 DEF BoundsInv
<1>8. CASE PopStopper(s) /\ Len(queueStopMap.workers) <= 1
  <2>1. UNCHANGED <<queueStopMap, running, queueOf>>
    BY <1>8 DEF PopStopper, workerVars
  <2> QED
    BY <1>4, <2>1
<1>9. \/ UNCHANGED <<queueStopMap, running, queueOf>>
      \/ AddWorker(s) \/ PopStopper(s) \/ StopWorker(s)
  BY DEF ScalerStep, InScaleFunc, Tick, ScalerLeaves, AddWorkerLoads, StopWorkerLoads,
         ScaleFuncReturns, ScaleFuncPanics, ScalerGoes, storeVars, workerVars
<1> QED
  BY <1>3, <1>4, <1>5, <1>6, <1>7, <1>8, <1>9

LEMMA BoundsStep ==
    ASSUME HasConstructor, numWorkers > 0, maxNumWorkers > 0
    PROVE  StoreInv /\ OnceInv /\ BoundsInv /\ [Next]_vars => BoundsInv'
<1> SUFFICES ASSUME StoreInv, OnceInv, BoundsInv, [Next]_vars PROVE BoundsInv'
  OBVIOUS
<1>1. CASE UNCHANGED vars
  <2>1. Phase' = Phase
    BY <1>1 DEF vars, storeVars, clientVars, Phase
  <2> QED
    BY <1>1, <2>1, BoundsStay DEF vars, storeVars, workerVars, clientVars
<1>2. StoreInv'
  BY StoreStep
<1> QED
  BY <1>1, <1>2, BoundsClients, BoundsScalers DEF Next

-----------------------------------------------------------------------------
\* The variables keep their types, and no stop function is listed twice: none is called
\* for a worker that took its slot later (store.go:171, 219, 246-250, 278).
THEOREM StoreTypesCorrect == Spec => []TypeOK
<1> DEFINE Inv == StoreInv /\ OnceInv /\ scaleFunc \in BOOLEAN
<1>1. Init => Inv
  BY StoreInitially, OnceInitially DEF Init
<1>2. Inv /\ [Next]_vars => Inv'
  <2>1. [Next]_vars => scaleFunc' = scaleFunc \/ scaleFunc' = TRUE
    BY DEF Next, vars, storeVars, ClientStep, GetMisses, GetFinds, GetStores, SpawnWorkers, AddStoppers,
           SpawnAutoScale, RemoveLocks, TakeStoppers, StopQueue, StopWorkers, Delete, SetScaleFunc,
           RangeStarts, ScalerStep, InScaleFunc, Tick, ScalerLeaves, AddWorker, PopStopper, StopWorker,
           AddWorkerLoads, StopWorkerLoads, ScaleFuncReturns, ScaleFuncPanics, ScalerGoes
  <2> QED
    BY <2>1, StoreStep, OnceStep
<1>3. Inv => TypeOK
  <2> SUFFICES ASSUME Inv PROVE TypeOK
    OBVIOUS
  <2>1. Cardinality(Listed(queueStopMap)) = Len(queueStopMap.workers)
    BY EntryHas, OnceIsCounted DEF StoreInv, StoreTypes, OnceInv, Listed, Slots
  <2> QED
    BY <2>1 DEF StoreInv, StoreTypes, Steps, TypeOK
<1> QED
  BY <1>1, <1>2, <1>3, PTL DEF Spec

\* With workers to start and to add, the last worker of a queue stays until a queue is
\* stopped, and never more run for it than maxNumWorkers and those that were started
\* before they were listed (store.go:18, 171, 204-212, 241).
THEOREM WorkersInBoundsCorrect ==
    ASSUME HasConstructor, numWorkers > 0, maxNumWorkers > 0
    PROVE  Spec => []WorkersInBounds
<1>1. StoreInv /\ OnceInv /\ BoundsInv => WorkersInBounds
  <2> SUFFICES ASSUME StoreInv, OnceInv, BoundsInv, getLock = Free
               PROVE  /\ m # None /\ stopped = {} => \E w \in running : queueOf[w] = m
                      /\ Cardinality({w \in running \ Retiring : queueOf[w] = m}) <= maxNumWorkers + numWorkers
    BY DEF WorkersInBounds, LastWorkerStays, WorkersBounded
  <2>1. Phase = "free" /\ queueStopMap.workers \in Seq(Workers) /\ Len(queueStopMap.workers) \in Nat
    BY EntryHas DEF Phase, StoreInv, StoreTypes
  <2>2. ASSUME m # None, stopped = {} PROVE \E w \in running : queueOf[w] = m
    <3>1. queueStopMap.workers # <<>> /\ Listed(queueStopMap) \subseteq running
          /\ \A w \in running : queueOf[w] = created
      BY <2>1, <2>2 DEF BoundsInv, FirstInv
    <3>2. queueStopMap.workers[1] \in Listed(queueStopMap)
      BY <2>1, <3>1 DEF Listed
    <3>3. m = created
      BY <2>2, FirstQueue
    <3> QED
      BY <3>1, <3>2, <3>3
  <2>3. {w \in running \ Retiring : queueOf[w] = m} \subseteq Listed(queueStopMap)
    <3>1. \A c \in Clients : Listed(list[c]) = {}
      BY NoEntryIs, StoreAssumption DEF StoreInv, LockInv, Holding, Carrying
    <3> QED
      BY <3>1 DEF StoreInv, KeptInv
  <2>4. IsFiniteSet(Listed(queueStopMap)) /\ Cardinality(Listed(queueStopMap)) = Len(queueStopMap.workers)
    BY <2>1, OnceIsCounted DEF OnceInv, Listed, Slots
  <2> DEFINE few == {w \in running \ Retiring : queueOf[w] = m}
  <2> HIDE DEF few
  <2>5. Cardinality(few) <= Cardinality(Listed(queueStopMap)) /\ Cardinality(few) \in Nat
    BY <2>3, <2>4, FS_Subset, FS_CardinalityType DEF few
  <2>6. Len(queueStopMap.workers) <= maxNumWorkers + numWorkers
    BY <2>1, StoreAssumption DEF BoundsInv, LengthInv
  <2>7. Cardinality(few) <= maxNumWorkers + numWorkers
    BY <2>1, <2>4, <2>5, <2>6, StoreAssumption
  <2> QED
    BY <2>2, <2>7 DEF few
<1> QED
  BY <1>1, StoreInitially, OnceInitially, BoundsInitially, StoreStep, OnceStep, BoundsStep, PTL DEF Spec
=============================================================================
