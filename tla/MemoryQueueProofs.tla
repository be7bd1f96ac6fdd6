------------------------- MODULE MemoryQueueProofs -------------------------
(***************************************************************************)
(* Proofs about MemoryQueue, for every number of callers, of items and of  *)
(* watchers, and about the workers of WorkerPool on it.                    *)
(***************************************************************************)
EXTENDS WorkerPool, FiniteSetTheorems, TLAPS

-----------------------------------------------------------------------------
(* The inductive invariant. *)

\* The mutex is held by the one caller that is in a critical section, only
\* callers in cond.Wait are in the sleepers' list, and a call has an answer
\* once it is past the critical section that finds one.
LockInv ==
    /\ \A c \in Consumers : pc[c] \in InLock <=> mutex = c
    /\ \A c \in waiting : pc[c] = "asleep"
    /\ \A c \in Consumers :
        pc[c] \in {"lock", "loop", "wait", "asleep", "take"} <=> ret[c] = "pending"

\* The list and the counter differ only in the middle of Enqueue and of
\* Dequeue; nobody takes from an empty list.
CountInv ==
    /\ mutex \in Producers => items # <<>> /\ size = Len(items) - 1
    /\ mutex \in Consumers =>
        /\ pc[mutex] = "take" => items # <<>>
        /\ size = IF pc[mutex] = "count" THEN Len(items) + 1 ELSE Len(items)
    /\ mutex = Free => size = Len(items)

\* The watcher of a call that can be canceled is there for as long as the
\* call may fall asleep with nobody else to wake it.
WatchInv ==
    /\ cancelled \cap Background = {}
    /\ \A c \in Consumers, w \in Watchers : watch[c][w] = "parked" => c \notin cancelled
    /\ \A c \in Consumers \ (Background \cup cancelled) :
        pc[c] # "out" => \E w \in Watchers : watch[c][w] \in {"new", "parked"}

IInv ==
    /\ TypeOK
    /\ LockInv
    /\ CountInv
    /\ WatchInv
    /\ LeftoversComeFirst
    /\ NobodySleepsAfterStop
    /\ CancelledSleeperIsWatched

-----------------------------------------------------------------------------
(* It holds initially, and every step preserves it. *)

\* The strengthened invariant holds of the empty queue NewMemory makes.
LEMMA InitIInv == Init => IInv
<1> SUFFICES ASSUME Init PROVE IInv
  OBVIOUS
<1> USE ConsumersAssumption, MutexAssumption DEF Init
<1>1. TypeOK
  <2>1. items \in Seq(Items) /\ sent \in Seq(Items) /\ taken \in Seq(Items)
    OBVIOUS
  <2>2. watch \in [Consumers -> [Watchers -> WatcherStates]]
    BY DEF WatcherStates
  <2>3. pc \in [Consumers -> InCall \cup {"out"}]
    OBVIOUS
  <2> QED
    BY <2>1, <2>2, <2>3 DEF TypeOK
<1>2. LockInv
  BY DEF LockInv, InLock
<1>3. CountInv /\ WatchInv
  BY DEF CountInv, WatchInv
<1>4. LeftoversComeFirst /\ NobodySleepsAfterStop /\ CancelledSleeperIsWatched
  BY DEF LeftoversComeFirst, NobodySleepsAfterStop, CancelledSleeperIsWatched
<1> QED
  BY <1>1, <1>2, <1>3, <1>4 DEF IInv

\* Moving one watcher goroutine to another state keeps the type of watch.
LEMMA WatchType ==
  ASSUME TypeOK, NEW c \in Consumers, NEW w \in Watchers, NEW s \in WatcherStates
  PROVE  [watch EXCEPT ![c][w] = s] \in [Consumers -> [Watchers -> WatcherStates]]
BY DEF TypeOK

\* The types, with the counter's range left to CountInv.
LEMMA TypeStep == IInv /\ [Next]_vars => TypeOK'
<1> SUFFICES ASSUME IInv, [Next]_vars PROVE TypeOK'
  OBVIOUS
<1> USE ConsumersAssumption, MutexAssumption, ItemsAssumption
    DEF IInv, TypeOK, InCall, InLock, Sleeping, fields, history
<1>1. ASSUME NEW c \in Consumers, DequeueCall(c) PROVE TypeOK'
  <2>1. watch' \in [Consumers -> [Watchers -> WatcherStates]]
    <3>1. CASE c \in Background
      BY <1>1, <3>1 DEF DequeueCall
    <3>2. CASE c \notin Background
      <4>1. PICK w \in Watchers : watch' = [watch EXCEPT ![c][w] = "new"]
        BY <1>1, <3>2 DEF DequeueCall
      <4> QED
        BY <4>1, WatchType DEF WatcherStates
    <3> QED
      BY <3>1, <3>2
  <2> QED
    BY <1>1, <2>1 DEF DequeueCall
<1>2. ASSUME NEW c \in Consumers, DequeueLock(c) PROVE TypeOK'
  BY <1>2 DEF DequeueLock
<1>3. ASSUME NEW c \in Consumers, GiveUp(c) PROVE TypeOK'
  BY <1>3 DEF GiveUp, ReturnCanceled
<1>4. ASSUME NEW c \in Consumers, CarryOn(c) PROVE TypeOK'
  BY <1>4 DEF CarryOn
<1>5. ASSUME NEW c \in Consumers, Wait(c) PROVE TypeOK'
  BY <1>5 DEF Wait
<1>6. ASSUME NEW c \in Consumers, Wake(c) PROVE TypeOK'
  BY <1>6 DEF Wake
<1>7. ASSUME NEW c \in Consumers, Take(c) PROVE TypeOK'
  BY <1>7 DEF Take, LockInv, CountInv
<1>8. ASSUME NEW c \in Consumers, TakeCounted(c) PROVE TypeOK'
  BY <1>8 DEF TakeCounted, LockInv, CountInv
<1>9. ASSUME NEW c \in Consumers, DequeueReturn(c) PROVE TypeOK'
  BY <1>9 DEF DequeueReturn, CloseDone, WatcherStates
<1>10. ASSUME NEW c \in Consumers, CancelCaller(c) PROVE TypeOK'
  BY <1>10 DEF CancelCaller, Fire, WatcherStates
<1>11. ASSUME NEW c \in Consumers, NEW w \in Watchers, WatcherStep(c, w) PROVE TypeOK'
  <2>1. watch' \in [Consumers -> [Watchers -> WatcherStates]]
    <3>1. PICK s \in WatcherStates : watch' = [watch EXCEPT ![c][w] = s]
      BY <1>11
         DEF WatcherStep, WatcherParks, WatcherFires, WatcherLeaves, WatcherGoes,
             WatcherBroadcast, WatcherStates
    <3> QED
      BY <3>1, WatchType
  <2> QED
    BY <1>11, <2>1
       DEF WatcherStep, WatcherParks, WatcherFires, WatcherLeaves, WatcherGoes, WatcherBroadcast
<1>12. ASSUME NEW p \in Producers, EnqueueRefused(p) PROVE TypeOK'
  BY <1>12 DEF EnqueueRefused
<1>13. ASSUME NEW p \in Producers, NEW x \in Items, EnqueuePush(p, x) PROVE TypeOK'
  BY <1>13 DEF EnqueuePush
<1>14. ASSUME NEW p \in Producers, EnqueueSignal(p) PROVE TypeOK'
  BY <1>14 DEF EnqueueSignal, Signal, callers
<1>15. CASE Stop
  BY <1>15 DEF Stop, Fire, WatcherStates
<1>16. CASE UNCHANGED vars
  BY <1>16 DEF vars, callers
<1> QED
  BY <1>1, <1>2, <1>3, <1>4, <1>5, <1>6, <1>7, <1>8, <1>9, <1>10, <1>11, <1>12,
     <1>13, <1>14, <1>15, <1>16
     DEF Next, ConsumerStep, ProducerStep

\* Every step keeps the mutex with the goroutine that is inside a critical
\* section, and at most one goroutine inside.
LEMMA LockStep == IInv /\ TypeOK' /\ [Next]_vars => LockInv'
<1> SUFFICES ASSUME IInv, TypeOK', [Next]_vars PROVE LockInv'
  OBVIOUS
<1> USE ConsumersAssumption, MutexAssumption, ItemsAssumption
    DEF IInv, TypeOK, InLock, InCall, Sleeping, fields, history, LockInv
<1>1. ASSUME NEW c \in Consumers, DequeueCall(c) PROVE LockInv'
  BY <1>1 DEF DequeueCall
<1>2. ASSUME NEW c \in Consumers, DequeueLock(c) PROVE LockInv'
  BY <1>2 DEF DequeueLock
<1>3. ASSUME NEW c \in Consumers, GiveUp(c) PROVE LockInv'
  BY <1>3 DEF GiveUp, ReturnCanceled
<1>4. ASSUME NEW c \in Consumers, CarryOn(c) PROVE LockInv'
  BY <1>4 DEF CarryOn
<1>5. ASSUME NEW c \in Consumers, Wait(c) PROVE LockInv'
  BY <1>5 DEF Wait
<1>6. ASSUME NEW c \in Consumers, Wake(c) PROVE LockInv'
  BY <1>6 DEF Wake
<1>7. ASSUME NEW c \in Consumers, Take(c) PROVE LockInv'
  BY <1>7 DEF Take
<1>8. ASSUME NEW c \in Consumers, TakeCounted(c) PROVE LockInv'
  BY <1>8 DEF TakeCounted
<1>9. ASSUME NEW c \in Consumers, DequeueReturn(c) PROVE LockInv'
  BY <1>9 DEF DequeueReturn, CloseDone
<1>10. ASSUME NEW c \in Consumers, CancelCaller(c) PROVE LockInv'
  BY <1>10 DEF CancelCaller, Fire
<1>11. ASSUME NEW c \in Consumers, NEW w \in Watchers, WatcherStep(c, w) PROVE LockInv'
  BY <1>11 DEF WatcherStep, WatcherParks, WatcherFires,
               WatcherLeaves, WatcherGoes, WatcherBroadcast
<1>12. ASSUME NEW p \in Producers, EnqueueRefused(p) PROVE LockInv'
  BY <1>12 DEF EnqueueRefused
<1>13. ASSUME NEW p \in Producers, NEW x \in Items, EnqueuePush(p, x) PROVE LockInv'
  BY <1>13 DEF EnqueuePush
<1>14. ASSUME NEW p \in Producers, EnqueueSignal(p) PROVE LockInv'
  BY <1>14 DEF EnqueueSignal, Signal, callers
<1>15. CASE Stop
  BY <1>15 DEF Stop, Fire
<1>16. CASE UNCHANGED vars
  BY <1>16 DEF vars, callers
<1> QED
  BY <1>1, <1>2, <1>3, <1>4, <1>5, <1>6, <1>7, <1>8, <1>9, <1>10, <1>11, <1>12,
     <1>13, <1>14, <1>15, <1>16
     DEF Next, ConsumerStep, ProducerStep

\* Every step keeps the counter off by the one item whose holder has not
\* counted it yet, and by nothing else.
LEMMA CountStep == IInv /\ TypeOK' /\ [Next]_vars => CountInv'
<1> SUFFICES ASSUME IInv, TypeOK', [Next]_vars PROVE CountInv'
  OBVIOUS
<1> USE ConsumersAssumption, MutexAssumption, ItemsAssumption
    DEF IInv, TypeOK, InLock, InCall, Sleeping, fields, history, LockInv, CountInv
<1>1. ASSUME NEW c \in Consumers, DequeueCall(c) PROVE CountInv'
  BY <1>1 DEF DequeueCall
<1>2. ASSUME NEW c \in Consumers, DequeueLock(c) PROVE CountInv'
  BY <1>2 DEF DequeueLock
<1>3. ASSUME NEW c \in Consumers, GiveUp(c) PROVE CountInv'
  BY <1>3 DEF GiveUp, ReturnCanceled
<1>4. ASSUME NEW c \in Consumers, CarryOn(c) PROVE CountInv'
  BY <1>4 DEF CarryOn
<1>5. ASSUME NEW c \in Consumers, Wait(c) PROVE CountInv'
  BY <1>5 DEF Wait
<1>6. ASSUME NEW c \in Consumers, Wake(c) PROVE CountInv'
  BY <1>6 DEF Wake
<1>7. ASSUME NEW c \in Consumers, Take(c) PROVE CountInv'
  BY <1>7 DEF Take
<1>8. ASSUME NEW c \in Consumers, TakeCounted(c) PROVE CountInv'
  BY <1>8 DEF TakeCounted
<1>9. ASSUME NEW c \in Consumers, DequeueReturn(c) PROVE CountInv'
  BY <1>9 DEF DequeueReturn, CloseDone
<1>10. ASSUME NEW c \in Consumers, CancelCaller(c) PROVE CountInv'
  BY <1>10 DEF CancelCaller, Fire
<1>11. ASSUME NEW c \in Consumers, NEW w \in Watchers, WatcherStep(c, w) PROVE CountInv'
  BY <1>11 DEF WatcherStep, WatcherParks, WatcherFires,
               WatcherLeaves, WatcherGoes, WatcherBroadcast
<1>12. ASSUME NEW p \in Producers, EnqueueRefused(p) PROVE CountInv'
  BY <1>12 DEF EnqueueRefused
<1>13. ASSUME NEW p \in Producers, NEW x \in Items, EnqueuePush(p, x) PROVE CountInv'
  <2>1. Len(items') = Len(items) + 1
    BY <1>13 DEF EnqueuePush
  <2>2. items' # <<>>
    BY <2>1
  <2> QED
    BY <1>13, <2>1, <2>2 DEF EnqueuePush
<1>14. ASSUME NEW p \in Producers, EnqueueSignal(p) PROVE CountInv'
  BY <1>14 DEF EnqueueSignal, Signal, callers
<1>15. CASE Stop
  BY <1>15 DEF Stop, Fire
<1>16. CASE UNCHANGED vars
  BY <1>16 DEF vars, callers
<1> QED
  BY <1>1, <1>2, <1>3, <1>4, <1>5, <1>6, <1>7, <1>8, <1>9, <1>10, <1>11, <1>12,
     <1>13, <1>14, <1>15, <1>16
     DEF Next, ConsumerStep, ProducerStep

\* Every step keeps each watcher in a state its consumer's call allows.
LEMMA WatchStep == IInv /\ TypeOK' /\ [Next]_vars => WatchInv'
<1> SUFFICES ASSUME IInv, TypeOK', [Next]_vars PROVE WatchInv'
  OBVIOUS
<1> USE ConsumersAssumption, MutexAssumption, ItemsAssumption
    DEF IInv, TypeOK, InLock, InCall, Sleeping, fields, history, LockInv, WatchInv
<1>1. ASSUME NEW c \in Consumers, DequeueCall(c) PROVE WatchInv'
  <2>1. CASE c \in Background
    BY <1>1, <2>1 DEF DequeueCall
  <2>2. CASE c \notin Background
    <3>1. PICK w \in Watchers : watch' = [watch EXCEPT ![c][w] = "new"]
      BY <1>1, <2>2 DEF DequeueCall
    <3>2. watch'[c][w] = "new"
      BY <3>1
    <3>3. \A d \in Consumers, v \in Watchers :
            watch'[d][v] # "new" => watch'[d][v] = watch[d][v]
      BY <3>1
    <3>4. \A d \in Consumers \ {c} : watch'[d] = watch[d]
      BY <3>1
    <3> QED
      BY <1>1, <3>2, <3>3, <3>4 DEF DequeueCall
  <2> QED
    BY <2>1, <2>2
<1>2. ASSUME NEW c \in Consumers, DequeueLock(c) PROVE WatchInv'
  BY <1>2 DEF DequeueLock
<1>3. ASSUME NEW c \in Consumers, GiveUp(c) PROVE WatchInv'
  BY <1>3 DEF GiveUp, ReturnCanceled
<1>4. ASSUME NEW c \in Consumers, CarryOn(c) PROVE WatchInv'
  BY <1>4 DEF CarryOn
<1>5. ASSUME NEW c \in Consumers, Wait(c) PROVE WatchInv'
  BY <1>5 DEF Wait
<1>6. ASSUME NEW c \in Consumers, Wake(c) PROVE WatchInv'
  BY <1>6 DEF Wake
<1>7. ASSUME NEW c \in Consumers, Take(c) PROVE WatchInv'
  BY <1>7 DEF Take
<1>8. ASSUME NEW c \in Consumers, TakeCounted(c) PROVE WatchInv'
  BY <1>8 DEF TakeCounted
<1>9. ASSUME NEW c \in Consumers, DequeueReturn(c) PROVE WatchInv'
  BY <1>9 DEF DequeueReturn, CloseDone
<1>10. ASSUME NEW c \in Consumers, CancelCaller(c) PROVE WatchInv'
  BY <1>10 DEF CancelCaller, Fire
<1>11. ASSUME NEW c \in Consumers, NEW w \in Watchers, WatcherStep(c, w) PROVE WatchInv'
  <2>1. PICK s \in WatcherStates :
          /\ watch' = [watch EXCEPT ![c][w] = s]
          /\ s = "parked" => watch[c][w] = "new" /\ c \notin cancelled
          /\ s # "parked" => c \in cancelled \/ watch[c][w] \in {"late", "fired"}
    BY <1>11 DEF WatcherStep, WatcherParks, WatcherFires, WatcherLeaves, WatcherGoes,
                 WatcherBroadcast, WatcherStates
  <2>2. UNCHANGED <<pc, cancelled>>
    BY <1>11 DEF WatcherStep, WatcherParks, WatcherFires, WatcherLeaves, WatcherGoes,
                 WatcherBroadcast
  <2>3. \A d \in Consumers, v \in Watchers :
          watch'[d][v] = IF d = c /\ v = w THEN s ELSE watch[d][v]
    BY <2>1
  <2>4. \A d \in Consumers, v \in Watchers : watch'[d][v] = "parked" => d \notin cancelled
    BY <2>1, <2>3
  <2>5. \A d \in Consumers \ (Background \cup cancelled) :
          pc[d] # "out" => \E v \in Watchers : watch'[d][v] \in {"new", "parked"}
    <3> SUFFICES ASSUME NEW d \in Consumers \ (Background \cup cancelled), pc[d] # "out"
                 PROVE  \E v \in Watchers : watch'[d][v] \in {"new", "parked"}
      OBVIOUS
    <3>1. PICK v \in Watchers : watch[d][v] \in {"new", "parked"}
      OBVIOUS
    <3>2. watch'[d][v] \in {"new", "parked"}
      BY <2>1, <2>3, <3>1
    <3> QED
      BY <3>2
  <2> QED
    BY <2>2, <2>4, <2>5
<1>12. ASSUME NEW p \in Producers, EnqueueRefused(p) PROVE WatchInv'
  BY <1>12 DEF EnqueueRefused
<1>13. ASSUME NEW p \in Producers, NEW x \in Items, EnqueuePush(p, x) PROVE WatchInv'
  BY <1>13 DEF EnqueuePush
<1>14. ASSUME NEW p \in Producers, EnqueueSignal(p) PROVE WatchInv'
  BY <1>14 DEF EnqueueSignal, Signal, callers
<1>15. CASE Stop
  BY <1>15 DEF Stop, Fire
<1>16. CASE UNCHANGED vars
  BY <1>16 DEF vars, callers
<1> QED
  BY <1>1, <1>2, <1>3, <1>4, <1>5, <1>6, <1>7, <1>8, <1>9, <1>10, <1>11, <1>12,
     <1>13, <1>14, <1>15, <1>16
     DEF Next, ConsumerStep, ProducerStep

\* No step turns a live caller away while items are left.
LEMMA LeftoversStep == IInv /\ TypeOK' /\ [Next]_vars => LeftoversComeFirst'
<1> SUFFICES ASSUME IInv, TypeOK', [Next]_vars PROVE LeftoversComeFirst'
  OBVIOUS
<1> USE ConsumersAssumption, MutexAssumption, ItemsAssumption
    DEF IInv, TypeOK, InLock, InCall, Sleeping, fields, history, LockInv, CountInv, LeftoversComeFirst
<1>1. ASSUME NEW c \in Consumers, DequeueCall(c) PROVE LeftoversComeFirst'
  BY <1>1 DEF DequeueCall
<1>2. ASSUME NEW c \in Consumers, DequeueLock(c) PROVE LeftoversComeFirst'
  BY <1>2 DEF DequeueLock
<1>3. ASSUME NEW c \in Consumers, GiveUp(c) PROVE LeftoversComeFirst'
  BY <1>3 DEF GiveUp, ReturnCanceled
<1>4. ASSUME NEW c \in Consumers, CarryOn(c) PROVE LeftoversComeFirst'
  BY <1>4 DEF CarryOn
<1>5. ASSUME NEW c \in Consumers, Wait(c) PROVE LeftoversComeFirst'
  BY <1>5 DEF Wait
<1>6. ASSUME NEW c \in Consumers, Wake(c) PROVE LeftoversComeFirst'
  BY <1>6 DEF Wake
<1>7. ASSUME NEW c \in Consumers, Take(c) PROVE LeftoversComeFirst'
  BY <1>7 DEF Take
<1>8. ASSUME NEW c \in Consumers, TakeCounted(c) PROVE LeftoversComeFirst'
  BY <1>8 DEF TakeCounted
<1>9. ASSUME NEW c \in Consumers, DequeueReturn(c) PROVE LeftoversComeFirst'
  BY <1>9 DEF DequeueReturn, CloseDone
<1>10. ASSUME NEW c \in Consumers, CancelCaller(c) PROVE LeftoversComeFirst'
  BY <1>10 DEF CancelCaller, Fire
<1>11. ASSUME NEW c \in Consumers, NEW w \in Watchers, WatcherStep(c, w) PROVE LeftoversComeFirst'
  BY <1>11 DEF WatcherStep, WatcherParks, WatcherFires,
               WatcherLeaves, WatcherGoes, WatcherBroadcast
<1>12. ASSUME NEW p \in Producers, EnqueueRefused(p) PROVE LeftoversComeFirst'
  BY <1>12 DEF EnqueueRefused
<1>13. ASSUME NEW p \in Producers, NEW x \in Items, EnqueuePush(p, x) PROVE LeftoversComeFirst'
  BY <1>13 DEF EnqueuePush
<1>14. ASSUME NEW p \in Producers, EnqueueSignal(p) PROVE LeftoversComeFirst'
  BY <1>14 DEF EnqueueSignal, Signal, callers
<1>15. CASE Stop
  BY <1>15 DEF Stop, Fire
<1>16. CASE UNCHANGED vars
  BY <1>16 DEF vars, callers
<1> QED
  BY <1>1, <1>2, <1>3, <1>4, <1>5, <1>6, <1>7, <1>8, <1>9, <1>10, <1>11, <1>12,
     <1>13, <1>14, <1>15, <1>16
     DEF Next, ConsumerStep, ProducerStep

\* No step lets a caller fall asleep on a stopped queue.
LEMMA SleepStep == IInv /\ TypeOK' /\ [Next]_vars => NobodySleepsAfterStop'
<1> SUFFICES ASSUME IInv, TypeOK', [Next]_vars PROVE NobodySleepsAfterStop'
  OBVIOUS
<1> USE ConsumersAssumption, MutexAssumption, ItemsAssumption
    DEF IInv, TypeOK, InLock, InCall, Sleeping, fields, history, LockInv, NobodySleepsAfterStop
<1>1. ASSUME NEW c \in Consumers, DequeueCall(c) PROVE NobodySleepsAfterStop'
  BY <1>1 DEF DequeueCall
<1>2. ASSUME NEW c \in Consumers, DequeueLock(c) PROVE NobodySleepsAfterStop'
  BY <1>2 DEF DequeueLock
<1>3. ASSUME NEW c \in Consumers, GiveUp(c) PROVE NobodySleepsAfterStop'
  BY <1>3 DEF GiveUp, ReturnCanceled
<1>4. ASSUME NEW c \in Consumers, CarryOn(c) PROVE NobodySleepsAfterStop'
  BY <1>4 DEF CarryOn
<1>5. ASSUME NEW c \in Consumers, Wait(c) PROVE NobodySleepsAfterStop'
  BY <1>5 DEF Wait
<1>6. ASSUME NEW c \in Consumers, Wake(c) PROVE NobodySleepsAfterStop'
  BY <1>6 DEF Wake
<1>7. ASSUME NEW c \in Consumers, Take(c) PROVE NobodySleepsAfterStop'
  BY <1>7 DEF Take
<1>8. ASSUME NEW c \in Consumers, TakeCounted(c) PROVE NobodySleepsAfterStop'
  BY <1>8 DEF TakeCounted
<1>9. ASSUME NEW c \in Consumers, DequeueReturn(c) PROVE NobodySleepsAfterStop'
  BY <1>9 DEF DequeueReturn, CloseDone
<1>10. ASSUME NEW c \in Consumers, CancelCaller(c) PROVE NobodySleepsAfterStop'
  BY <1>10 DEF CancelCaller, Fire
<1>11. ASSUME NEW c \in Consumers, NEW w \in Watchers, WatcherStep(c, w) PROVE NobodySleepsAfterStop'
  BY <1>11 DEF WatcherStep, WatcherParks, WatcherFires,
               WatcherLeaves, WatcherGoes, WatcherBroadcast
<1>12. ASSUME NEW p \in Producers, EnqueueRefused(p) PROVE NobodySleepsAfterStop'
  BY <1>12 DEF EnqueueRefused
<1>13. ASSUME NEW p \in Producers, NEW x \in Items, EnqueuePush(p, x) PROVE NobodySleepsAfterStop'
  BY <1>13 DEF EnqueuePush
<1>14. ASSUME NEW p \in Producers, EnqueueSignal(p) PROVE NobodySleepsAfterStop'
  BY <1>14 DEF EnqueueSignal, Signal, callers
<1>15. CASE Stop
  BY <1>15 DEF Stop, Fire
<1>16. CASE UNCHANGED vars
  BY <1>16 DEF vars, callers
<1> QED
  BY <1>1, <1>2, <1>3, <1>4, <1>5, <1>6, <1>7, <1>8, <1>9, <1>10, <1>11, <1>12,
     <1>13, <1>14, <1>15, <1>16
     DEF Next, ConsumerStep, ProducerStep

\* No step leaves a canceled sleeper without a watcher that will broadcast.
LEMMA WatchedStep == IInv /\ TypeOK' /\ [Next]_vars => CancelledSleeperIsWatched'
<1> SUFFICES ASSUME IInv, TypeOK', [Next]_vars PROVE CancelledSleeperIsWatched'
  OBVIOUS
<1> USE ConsumersAssumption, MutexAssumption, ItemsAssumption
    DEF IInv, TypeOK, InLock, InCall, Sleeping, fields, history, LockInv, WatchInv, NobodySleepsAfterStop, CancelledSleeperIsWatched
<1>1. ASSUME NEW c \in Consumers, DequeueCall(c) PROVE CancelledSleeperIsWatched'
  BY <1>1 DEF DequeueCall
<1>2. ASSUME NEW c \in Consumers, DequeueLock(c) PROVE CancelledSleeperIsWatched'
  BY <1>2 DEF DequeueLock
<1>3. ASSUME NEW c \in Consumers, GiveUp(c) PROVE CancelledSleeperIsWatched'
  BY <1>3 DEF GiveUp, ReturnCanceled
<1>4. ASSUME NEW c \in Consumers, CarryOn(c) PROVE CancelledSleeperIsWatched'
  BY <1>4 DEF CarryOn
<1>5. ASSUME NEW c \in Consumers, Wait(c) PROVE CancelledSleeperIsWatched'
  BY <1>5 DEF Wait
<1>6. ASSUME NEW c \in Consumers, Wake(c) PROVE CancelledSleeperIsWatched'
  BY <1>6 DEF Wake
<1>7. ASSUME NEW c \in Consumers, Take(c) PROVE CancelledSleeperIsWatched'
  BY <1>7 DEF Take
<1>8. ASSUME NEW c \in Consumers, TakeCounted(c) PROVE CancelledSleeperIsWatched'
  BY <1>8 DEF TakeCounted
<1>9. ASSUME NEW c \in Consumers, DequeueReturn(c) PROVE CancelledSleeperIsWatched'
  BY <1>9 DEF DequeueReturn, CloseDone
<1>10. ASSUME NEW c \in Consumers, CancelCaller(c) PROVE CancelledSleeperIsWatched'
  BY <1>10 DEF CancelCaller, Fire
<1>11. ASSUME NEW c \in Consumers, NEW w \in Watchers, WatcherStep(c, w) PROVE CancelledSleeperIsWatched'
  BY <1>11 DEF WatcherStep, WatcherParks, WatcherFires,
               WatcherLeaves, WatcherGoes, WatcherBroadcast
<1>12. ASSUME NEW p \in Producers, EnqueueRefused(p) PROVE CancelledSleeperIsWatched'
  BY <1>12 DEF EnqueueRefused
<1>13. ASSUME NEW p \in Producers, NEW x \in Items, EnqueuePush(p, x) PROVE CancelledSleeperIsWatched'
  BY <1>13 DEF EnqueuePush
<1>14. ASSUME NEW p \in Producers, EnqueueSignal(p) PROVE CancelledSleeperIsWatched'
  BY <1>14 DEF EnqueueSignal, Signal, callers
<1>15. CASE Stop
  BY <1>15 DEF Stop, Fire
<1>16. CASE UNCHANGED vars
  BY <1>16 DEF vars, callers
<1> QED
  BY <1>1, <1>2, <1>3, <1>4, <1>5, <1>6, <1>7, <1>8, <1>9, <1>10, <1>11, <1>12,
     <1>13, <1>14, <1>15, <1>16
     DEF Next, ConsumerStep, ProducerStep

\* The strengthened invariant holds in every reachable state.
THEOREM Inductive == Spec => []IInv
<1>1. IInv /\ [Next]_vars => IInv'
  BY TypeStep, LockStep, CountStep, WatchStep, LeftoversStep, SleepStep, WatchedStep DEF IInv
<1> QED
  BY InitIInv, <1>1, PTL DEF Spec

-----------------------------------------------------------------------------
(* What it says of the queue. *)

\* Every variable keeps its type; Len never reports a negative number.
THEOREM TypeCorrect == Spec => []TypeOK
BY Inductive, PTL DEF IInv

\* The counter that Len reads without the mutex is exact between critical
\* sections.
THEOREM SizeCorrect == Spec => []SizeExact
<1>1. IInv => SizeExact
  BY DEF IInv, CountInv, SizeExact
<1> QED
  BY Inductive, <1>1, PTL

\* Only a caller that gave up its own context is turned away while the queue
\* holds an item.
THEOREM LeftoversCorrect == Spec => []LeftoversComeFirst
BY Inductive, PTL DEF IInv

\* No caller sleeps, or is about to, on a stopped queue.
THEOREM StopCorrect == Spec => []NobodySleepsAfterStop
BY Inductive, PTL DEF IInv

\* Every caller that sleeps with its context canceled has a watcher left that
\* will broadcast.
THEOREM WatchCorrect == Spec => []CancelledSleeperIsWatched
BY Inductive, PTL DEF IInv

-----------------------------------------------------------------------------
(* With each method taken as one step, it is a FIFO queue. *)

\* Every step of the queue is a step of the FIFO queue, or changes nothing a
\* caller sees.
LEMMA FifoStep == IInv /\ [Next]_vars => [Fifo!Next]_(Fifo!vars)
<1> SUFFICES ASSUME IInv, [Next]_vars PROVE Fifo!Next \/ UNCHANGED Fifo!vars
  OBVIOUS
<1> USE DEF Fifo!vars, fields, history
<1>1. ASSUME NEW c \in Consumers, DequeueCall(c) PROVE Fifo!Call(c)
  BY <1>1 DEF DequeueCall, Fifo!Call, IInv, TypeOK, LockInv, CountInv, InLock
<1>2. ASSUME NEW c \in Consumers, DequeueLock(c) PROVE UNCHANGED Fifo!vars
  BY <1>2 DEF DequeueLock
<1>3. ASSUME NEW c \in Consumers, GiveUp(c) PROVE Fifo!Fail(c)
  BY <1>3 DEF GiveUp, ReturnCanceled, Fifo!Fail, IInv, TypeOK, LockInv, CountInv, InLock
<1>4. ASSUME NEW c \in Consumers, CarryOn(c) PROVE UNCHANGED Fifo!vars
  BY <1>4 DEF CarryOn
<1>5. ASSUME NEW c \in Consumers, Wait(c) PROVE UNCHANGED Fifo!vars
  BY <1>5 DEF Wait
<1>6. ASSUME NEW c \in Consumers, Wake(c) PROVE UNCHANGED Fifo!vars
  BY <1>6 DEF Wake
<1>7. ASSUME NEW c \in Consumers, Take(c) PROVE Fifo!Take(c)
  BY <1>7 DEF Take, Fifo!Take, IInv, TypeOK, LockInv, CountInv, InLock
<1>8. ASSUME NEW c \in Consumers, TakeCounted(c) PROVE UNCHANGED Fifo!vars
  BY <1>8 DEF TakeCounted
<1>9. ASSUME NEW c \in Consumers, DequeueReturn(c) PROVE UNCHANGED Fifo!vars
  BY <1>9 DEF DequeueReturn
<1>10. ASSUME NEW c \in Consumers, CancelCaller(c) PROVE Fifo!Cancel(c)
  BY <1>10 DEF CancelCaller, Fifo!Cancel
<1>11. ASSUME NEW c \in Consumers, NEW w \in Watchers, WatcherStep(c, w) PROVE UNCHANGED Fifo!vars
  BY <1>11 DEF WatcherStep, WatcherParks, WatcherFires,
               WatcherLeaves, WatcherGoes, WatcherBroadcast
<1>12. ASSUME NEW p \in Producers, EnqueueRefused(p) PROVE Fifo!Refuse(p)
  BY <1>12 DEF EnqueueRefused, Fifo!Refuse
<1>13. ASSUME NEW p \in Producers, NEW x \in Items, EnqueuePush(p, x) PROVE Fifo!Put(p, x)
  BY <1>13 DEF EnqueuePush, Fifo!Put
<1>14. ASSUME NEW p \in Producers, EnqueueSignal(p) PROVE UNCHANGED Fifo!vars
  BY <1>14 DEF EnqueueSignal, callers
<1>15. CASE Stop
  BY <1>15, ConsumersAssumption DEF Stop, Fifo!Next, Fifo!Stop
<1>16. CASE UNCHANGED vars
  BY <1>16 DEF vars, callers
<1> QED
  BY <1>1, <1>2, <1>3, <1>4, <1>5, <1>6, <1>7, <1>8, <1>9, <1>10, <1>11, <1>12,
     <1>13, <1>14, <1>15, <1>16
     DEF Next, ConsumerStep, ProducerStep, Fifo!Next

\* The queue with its mutex, condition variable and watchers implements the
\* queue whose methods take effect in one step.
THEOREM FifoCorrect == Spec => ImplementsFifoQueue
<1>1. Init => Fifo!Init
  BY DEF Init, Fifo!Init
<1> QED
  BY Inductive, <1>1, FifoStep, PTL DEF Spec, Fifo!Spec, ImplementsFifoQueue

-----------------------------------------------------------------------------
(* The workers. *)

\* To the queue, workers are callers.
LEMMA WorkerIsCaller == [WNext]_allvars => [Next]_vars
<1>1. ASSUME NEW c \in Consumers, WorkerStep(c) PROVE [Next]_vars
  BY <1>1 DEF WorkerStep, WorkerQuits, WorkerDequeues, WorkerFails, WorkerGetsJob, ProcessorEnds, Exit, Next
<1> QED
  BY <1>1 DEF WNext, QueueStep, Next, allvars

\* Whatever holds of the queue holds of a queue that workers share (worker.go:35-47).
THEOREM WorkersUseQueue == WSpec => Spec
<1>1. WInit => Init
  BY DEF WInit
<1> QED
  BY <1>1, WorkerIsCaller, PTL DEF WSpec, Spec

LEMMA WorkersInductive == WSpec => []IInv
BY WorkersUseQueue, Inductive, PTL

\* The jobs on their way out of DequeueContext.
OnTheWay == {c \in Consumers : worker[c] = "dequeue" /\ ret[c] \in Items}

WInv == WTypeOK /\ TakenJobsAreHandled

\* A consumer joins OnTheWay, or leaves it.
LEMMA OneMore ==
    ASSUME IsFiniteSet(Consumers), NEW c \in Consumers, c \notin OnTheWay,
           OnTheWay' = OnTheWay \cup {c}
    PROVE  Cardinality(OnTheWay') = Cardinality(OnTheWay) + 1 /\ Cardinality(OnTheWay) \in Nat
<1>1. IsFiniteSet(OnTheWay)
  BY FS_Subset DEF OnTheWay
<1> QED
  BY <1>1, FS_AddElement, FS_CardinalityType

LEMMA OneLess ==
    ASSUME IsFiniteSet(Consumers), NEW c \in Consumers, c \in OnTheWay,
           OnTheWay' = OnTheWay \ {c}
    PROVE  Cardinality(OnTheWay') = Cardinality(OnTheWay) - 1 /\ Cardinality(OnTheWay) \in Nat
<1>1. IsFiniteSet(OnTheWay)
  BY FS_Subset DEF OnTheWay
<1> QED
  BY <1>1, FS_RemoveElement, FS_CardinalityType

\* A step of the queue that takes nothing and answers no call with an item.
LEMMA NothingTaken ==
    ASSUME WInv, UNCHANGED <<wvars, taken>>,
           \A c \in Consumers : ret'[c] \in Items <=> ret[c] \in Items,
           \A c \in Consumers : pc'[c] # "out" => pc[c] # "out"
    PROVE  WInv'
<1>1. WTypeOK'
  BY DEF WInv, WTypeOK, wvars
<1>2. OnTheWay' = OnTheWay
  BY DEF OnTheWay, wvars
<1> QED
  BY <1>1, <1>2 DEF WInv, TakenJobsAreHandled, OnTheWay, wvars

LEMMA QueueStepKeeps ==
    ASSUME IsFiniteSet(Consumers), IInv, WInv, QueueStep PROVE WInv'
<1>1. UNCHANGED wvars
  BY DEF QueueStep
<1>2. /\ pc \in [Consumers -> InCall \cup {"out"}]
      /\ ret \in [Consumers -> Items \cup {"none", "pending", "canceled"}]
  BY DEF IInv, TypeOK
<1>3. ASSUME NEW c \in Consumers, Take(c) PROVE WInv'
  <2>1. /\ pc[c] = "take" /\ ret[c] = "pending" /\ items # <<>> /\ items \in Seq(Items)
        /\ taken \in Seq(Items)
    BY <1>3 DEF Take, IInv, TypeOK, LockInv, CountInv, InLock
  <2>2. /\ taken' = Append(taken, Head(items)) /\ Head(items) \in Items
        /\ ret' = [ret EXCEPT ![c] = Head(items)] /\ pc' = [pc EXCEPT ![c] = "count"]
    BY <1>3, <2>1 DEF Take
  <2>3. ret'[c] \in Items /\ \A d \in Consumers \ {c} : ret'[d] = ret[d]
    BY <1>2, <2>2
  <2>4. worker[c] = "dequeue"
    BY <2>1 DEF WInv, WTypeOK
  <2>5. c \notin OnTheWay /\ OnTheWay' = OnTheWay \cup {c}
    BY <1>1, <2>1, <2>3, <2>4, ItemsAssumption DEF OnTheWay, wvars
  <2>6. WTypeOK'
    BY <1>1, <1>2, <2>1, <2>2 DEF WInv, WTypeOK, wvars
  <2>7. Len(taken') = Len(taken) + 1 /\ handled' = handled
    BY <1>1, <2>1, <2>2 DEF wvars
  <2>8. Len(handled) \in Nat
    BY DEF WInv, WTypeOK
  <2>9. Cardinality(OnTheWay') = Cardinality(OnTheWay) + 1 /\ Cardinality(OnTheWay) \in Nat
    BY <2>5, OneMore
  <2> QED
    BY <2>6, <2>7, <2>8, <2>9 DEF WInv, TakenJobsAreHandled, OnTheWay
<1>4. ASSUME NEW c \in Consumers, GiveUp(c) PROVE WInv'
  <2>1. ret[c] = "pending" /\ pc[c] = "loop"
    BY <1>4 DEF GiveUp, IInv, LockInv
  <2>2. ret' = [ret EXCEPT ![c] = "canceled"] /\ pc' = [pc EXCEPT ![c] = "close"] /\ UNCHANGED taken
    BY <1>4 DEF GiveUp, ReturnCanceled, history
  <2> QED
    BY <1>1, <1>2, <2>1, <2>2, ItemsAssumption, NothingTaken
<1>5. ASSUME NEW c \in Consumers,
             DequeueLock(c) \/ CarryOn(c) \/ Wait(c) \/ Wake(c) \/ TakeCounted(c) \/ DequeueReturn(c)
      PROVE  WInv'
  <2>1. pc[c] # "out" /\ \E to \in InCall \cup {"out"} : pc' = [pc EXCEPT ![c] = to]
    BY <1>5 DEF DequeueLock, CarryOn, Wait, Wake, TakeCounted, DequeueReturn, InCall, InLock, Sleeping
  <2>2. UNCHANGED <<ret, taken>>
    BY <1>5 DEF DequeueLock, CarryOn, Wait, Wake, TakeCounted, DequeueReturn, history
  <2> QED
    BY <1>1, <1>2, <2>1, <2>2, NothingTaken
<1>6. ASSUME \/ \E c \in Consumers : CancelCaller(c)
             \/ \E c \in Consumers, w \in Watchers : WatcherStep(c, w)
             \/ \E p \in Producers : ProducerStep(p)
             \/ Stop
      PROVE  WInv'
  <2>1. UNCHANGED <<ret, pc, taken>>
    BY <1>6
       DEF CancelCaller, WatcherStep, WatcherParks, WatcherFires, WatcherLeaves, WatcherGoes,
           WatcherBroadcast, ProducerStep, EnqueueRefused, EnqueuePush, EnqueueSignal, Stop,
           history, callers
  <2> QED
    BY <1>1, <2>1, NothingTaken
<1> QED
  BY <1>3, <1>4, <1>5, <1>6 DEF QueueStep, ConsumerStep

LEMMA WorkerStepKeeps ==
    ASSUME IsFiniteSet(Consumers), IInv, WInv, NEW c \in Consumers, WorkerStep(c) PROVE WInv'
<1>1. /\ worker \in [Consumers -> {"check", "dequeue", "busy", "exited"}]
      /\ outcome \in [Consumers -> {"none", "done", "panicked"}]
      /\ callbacks = [d \in Consumers |-> IF worker[d] = "exited" THEN 1 ELSE 0]
      /\ handled \in Seq(Items) /\ taken \in Seq(Items)
      /\ \A d \in Consumers : pc[d] # "out" => worker[d] = "dequeue"
      /\ pc \in [Consumers -> InCall \cup {"out"}]
      /\ ret \in [Consumers -> Items \cup {"none", "pending", "canceled"}]
  BY DEF WInv, WTypeOK, IInv, TypeOK
<1>2. ASSUME NEW to \in {"check", "dequeue", "busy", "exited"}, worker' = [worker EXCEPT ![c] = to],
             worker[c] # "exited", to # "exited", UNCHANGED callbacks,
             outcome' \in [Consumers -> {"none", "done", "panicked"}], handled' \in Seq(Items),
             \A d \in Consumers \ {c} : pc'[d] = pc[d], pc'[c] # "out" => to = "dequeue"
      PROVE  WTypeOK'
  <2>1. /\ worker' \in [Consumers -> {"check", "dequeue", "busy", "exited"}] /\ worker'[c] = to
        /\ \A d \in Consumers \ {c} : worker'[d] = worker[d]
    BY <1>1, <1>2
  <2>2. callbacks' = [d \in Consumers |-> IF worker'[d] = "exited" THEN 1 ELSE 0]
    BY <1>1, <1>2, <2>1
  <2> QED
    BY <1>1, <1>2, <2>1, <2>2 DEF WTypeOK
<1>3. ASSUME c \notin OnTheWay, c \notin OnTheWay', UNCHANGED <<taken, handled>>,
             \A d \in Consumers \ {c} : worker'[d] = worker[d] /\ ret'[d] = ret[d]
      PROVE  TakenJobsAreHandled'
  <2>1. OnTheWay' = OnTheWay
    BY <1>3 DEF OnTheWay
  <2> QED
    BY <1>3, <2>1 DEF WInv, TakenJobsAreHandled, OnTheWay
<1>4. ASSUME worker[c] \in {"check", "dequeue"}, pc[c] = "out", c \notin OnTheWay, Exit(c) PROVE WInv'
  <2>1. /\ worker' = [worker EXCEPT ![c] = "exited"] /\ callbacks' = [callbacks EXCEPT ![c] = @ + 1]
        /\ UNCHANGED <<pc, ret, taken, outcome, handled>>
    BY <1>4 DEF Exit, vars, callers, history
  <2>2. /\ worker' \in [Consumers -> {"check", "dequeue", "busy", "exited"}] /\ worker'[c] = "exited"
        /\ \A d \in Consumers \ {c} : worker'[d] = worker[d]
    BY <1>1, <2>1
  <2>3. callbacks' = [d \in Consumers |-> IF worker'[d] = "exited" THEN 1 ELSE 0]
    <3>1. callbacks[c] = 0
      BY <1>1, <1>4
    <3> QED
      BY <1>1, <2>1, <2>2, <3>1
  <2>4. WTypeOK'
    BY <1>1, <1>4, <2>1, <2>2, <2>3 DEF WTypeOK
  <2>5. TakenJobsAreHandled'
    BY <1>3, <1>4, <2>1, <2>2 DEF OnTheWay
  <2> QED
    BY <2>4, <2>5 DEF WInv
<1>5. CASE WorkerQuits(c)
  BY <1>1, <1>4, <1>5 DEF WorkerQuits, OnTheWay
<1>6. CASE WorkerDequeues(c)
  <2>1. /\ worker[c] = "check" /\ worker' = [worker EXCEPT ![c] = "dequeue"]
        /\ pc' = [pc EXCEPT ![c] = "lock"] /\ ret' = [ret EXCEPT ![c] = "pending"]
        /\ UNCHANGED <<outcome, callbacks, handled, taken>>
    BY <1>6 DEF WorkerDequeues, DequeueCall, history
  <2>2. WTypeOK'
    BY <1>1, <1>2, <2>1
  <2>3. c \notin OnTheWay /\ c \notin OnTheWay'
    BY <1>1, <2>1, ItemsAssumption DEF OnTheWay
  <2>4. TakenJobsAreHandled'
    BY <1>1, <1>3, <2>1, <2>3
  <2> QED
    BY <2>2, <2>4 DEF WInv
<1>7. CASE WorkerFails(c)
  BY <1>4, <1>7, ItemsAssumption DEF WorkerFails, OnTheWay
<1>8. CASE WorkerGetsJob(c)
  <2>1. /\ worker[c] = "dequeue" /\ pc[c] = "out" /\ ret[c] \in Items
        /\ worker' = [worker EXCEPT ![c] = "busy"] /\ handled' = Append(handled, ret[c])
        /\ UNCHANGED <<pc, ret, taken, outcome, callbacks>>
    BY <1>8 DEF WorkerGetsJob, vars, callers, history
  <2>2. handled' \in Seq(Items) /\ Len(handled') = Len(handled) + 1 /\ Len(handled) \in Nat
    BY <1>1, <2>1
  <2>3. WTypeOK'
    BY <1>1, <1>2, <2>1, <2>2
  <2>4. c \in OnTheWay /\ OnTheWay' = OnTheWay \ {c}
    BY <1>1, <2>1 DEF OnTheWay
  <2>5. Cardinality(OnTheWay') = Cardinality(OnTheWay) - 1 /\ Cardinality(OnTheWay) \in Nat
    BY <2>4, OneLess
  <2> QED
    BY <2>1, <2>2, <2>3, <2>5 DEF WInv, TakenJobsAreHandled, OnTheWay
<1>9. CASE ProcessorEnds(c)
  <2>1. /\ worker[c] = "busy" /\ worker' = [worker EXCEPT ![c] = "check"]
        /\ UNCHANGED <<pc, ret, taken, callbacks, handled>>
        /\ outcome' \in [Consumers -> {"none", "done", "panicked"}]
    BY <1>1, <1>9 DEF ProcessorEnds, vars, callers, history
  <2>2. WTypeOK'
    BY <1>1, <1>2, <2>1
  <2>3. c \notin OnTheWay /\ c \notin OnTheWay'
    BY <1>1, <2>1 DEF OnTheWay
  <2>4. TakenJobsAreHandled'
    BY <1>1, <1>3, <2>1, <2>3
  <2> QED
    BY <2>2, <2>4 DEF WInv
<1> QED
  BY <1>5, <1>6, <1>7, <1>8, <1>9 DEF WorkerStep

LEMMA WorkersInitially == WInit => WInv
<1> SUFFICES ASSUME WInit PROVE WInv
  OBVIOUS
<1>1. WTypeOK
  BY DEF WInit, WTypeOK, Init
<1>2. OnTheWay = {} /\ taken = <<>> /\ handled = <<>>
  BY DEF WInit, Init, OnTheWay
<1>3. TakenJobsAreHandled
  BY <1>2, FS_EmptySet DEF TakenJobsAreHandled, OnTheWay
<1> QED
  BY <1>1, <1>3 DEF WInv

LEMMA WorkersKeep ==
    ASSUME IsFiniteSet(Consumers) PROVE IInv /\ WInv /\ [WNext]_allvars => WInv'
<1> SUFFICES ASSUME IInv, WInv, [WNext]_allvars PROVE WInv'
  OBVIOUS
<1>1. CASE UNCHANGED allvars
  BY <1>1, NothingTaken DEF allvars, vars, callers, history
<1> QED
  BY <1>1, QueueStepKeeps, WorkerStepKeeps DEF WNext

LEMMA WorkersInvariant == ASSUME IsFiniteSet(Consumers) PROVE WSpec => [](IInv /\ WInv)
<1>1. IInv /\ WInv /\ [WNext]_allvars => WInv'
  BY WorkersKeep
<1> QED
  BY <1>1, WorkersInitially, WorkersInductive, PTL DEF WSpec

\* For any finite number of workers: the types; the cancel callbacks of a worker run once,
\* when it exits, and a worker is in DequeueContext only between its loop's two halves.
THEOREM WorkerTypes == ASSUME IsFiniteSet(Consumers) PROVE WSpec => []WTypeOK
<1>1. WInv => WTypeOK
  BY DEF WInv
<1> QED
  BY <1>1, WorkersInvariant, PTL

\* For any finite number of workers, no job that one has taken off the queue is lost before
\* it reaches a processor (worker.go:49-64).
THEOREM JobsAreHandled == ASSUME IsFiniteSet(Consumers) PROVE WSpec => []TakenJobsAreHandled
<1>1. WInv => TakenJobsAreHandled
  BY DEF WInv
<1> QED
  BY <1>1, WorkersInvariant, PTL
=============================================================================
