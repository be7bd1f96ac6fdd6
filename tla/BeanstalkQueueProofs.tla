------------------------ MODULE BeanstalkQueueProofs ------------------------
(***************************************************************************)
(* Proofs about BeanstalkQueue, for any number of callers, processors,     *)
(* jobs and broken connections.                                            *)
(***************************************************************************)
EXTENDS BeanstalkQueue, TLAPS

-----------------------------------------------------------------------------
(* The inductive invariant. *)

\* A processor has a job, and calls done before finishJob does anything.
JobInv ==
    \A f \in Finishers :
        /\ fin[f].at # "off" => fin[f].job \in Jobs
        /\ fin[f].at \notin {"off", "work"} => fin[f].job \in finished

\* The read locks that are never given up are those of a stopped queue.
LeakInv == leaked => stop

IInv == TypeOK /\ JobInv /\ LeakInv /\ GoneIsFinished

\* The types of the functions, which most steps change at one argument.
FinType == fin \in [Finishers -> [at : FinPoints, job : Jobs \cup {None}]]

\* Who holds recvLock.
LockType ==
    /\ writer \in Finishers \cup {Free}
    /\ readers \subseteq Finishers
    /\ \A f \in Finishers :
        /\ fin[f].at \in {"wait", "close", "dial"} <=> writer = f
        /\ fin[f].at = "delete" <=> f \in readers
    /\ (\E f \in Finishers : fin[f].at \in {"close", "dial"}) => readers = {}

\* Who holds sendLock.
PutType ==
    /\ put \in [Putters -> PutPoints]
    /\ sendLock \in Putters \cup {Free}
    /\ \A p \in Putters : put[p] \in {"close", "dial"} <=> sendLock = p

\* What the connection of the tube set has reserved.
HeldType ==
    /\ tubeSet \in {"up", "closed", "broken"}
    /\ job \in [Jobs -> JobStates]
    /\ (\E j \in Jobs : job[j] = "held") => tubeSet = "up"

\* The rest of TypeOK.
PlainType ==
    /\ stop \in BOOLEAN /\ leaked \in BOOLEAN /\ late \in BOOLEAN
    /\ tubeUp \in BOOLEAN
    /\ process \in {"get", "check", "close", "dial", "done"}
    /\ shutdown \in {"no", "tube", "tubeset", "done"}
    /\ breaks \in 0..MaxBreaks
    /\ finished \subseteq Jobs

\* TypeOK is these five.
LEMMA Parts == TypeOK <=> FinType /\ LockType /\ PutType /\ HeldType /\ PlainType
  BY DEF TypeOK, FinType, LockType, PutType, HeldType, PlainType

\* So it is after a step.
LEMMA PartsNext == FinType' /\ LockType' /\ PutType' /\ HeldType' /\ PlainType' => TypeOK'
  BY DEF TypeOK, FinType, LockType, PutType, HeldType, PlainType

-----------------------------------------------------------------------------
(* It holds initially. *)

\* It holds of a new queue.
LEMMA InitIInv == Init => IInv
<1> SUFFICES ASSUME Init PROVE IInv
  OBVIOUS
<1>1. FinType
  BY DEF Init, FinType, FinPoints
<1>2. LockType
  BY BeanstalkAssumption DEF Init, LockType
<1>3. PutType
  BY BeanstalkAssumption DEF Init, PutType, PutPoints
<1>4. HeldType
  BY DEF Init, HeldType, JobStates
<1>5. PlainType
  <2>1. MaxBreaks \in Nat
    BY BeanstalkAssumption
  <2>2. 0 \in 0..MaxBreaks
    BY <2>1
  <2> QED
    BY <2>2 DEF Init, PlainType
<1>6. JobInv
  BY DEF Init, JobInv
<1>7. LeakInv /\ GoneIsFinished
  BY DEF Init, LeakInv, GoneIsFinished
<1> QED
  BY <1>1, <1>2, <1>3, <1>4, <1>5, <1>6, <1>7, Parts DEF IInv

-----------------------------------------------------------------------------
(* Every step preserves it. *)

\* What FinGoes does to fin, for a fixed f.
LEMMA FinStepType ==
    ASSUME FinType, JobInv, NEW f \in Finishers, NEW from \in FinPoints \ {"off"},
           NEW to \in FinPoints, FinGoes(f, from, to)
    PROVE  /\ FinType'
           /\ fin[f].at = from /\ fin'[f].at = to
           /\ to # "off" => fin'[f].job = fin[f].job
           /\ fin[f].job \in Jobs
           /\ \A g \in Finishers : g # f => fin'[g] = fin[g]
<1>1. fin[f].job \in Jobs
  BY DEF FinGoes, JobInv
<1>2. [at |-> to, job |-> IF to = "off" THEN None ELSE fin[f].job]
        \in [at : FinPoints, job : Jobs \cup {None}]
  BY <1>1
<1> QED
  BY <1>1, <1>2 DEF FinGoes, FinType

\* PutGoes and PutReturns keep the locks right when they pass no lock.
LEMMA PutStepType ==
    ASSUME PutType, NEW p \in Putters, NEW to \in PutPoints,
           put[p] \notin {"close", "dial"}, to \notin {"close", "dial"},
           put' = [put EXCEPT ![p] = to], sendLock' = sendLock
    PROVE  PutType'
BY BeanstalkAssumption DEF PutType

\* A tube that goes down takes no lock.
LEMMA TubeStepType ==
    ASSUME PutType, TubeGoesDown, sendLock' = sendLock
    PROVE  PutType' /\ tubeUp' \in BOOLEAN
BY DEF PutType, TubeGoesDown, PutPoints

\* The jobs of a tube set that ends, or is replaced.
LEMMA HeldStep ==
    ASSUME HeldType, NEW s \in {"ready", "leaked"}, job' = Held(s),
           tubeSet' \in {"up", "closed", "broken"}
    PROVE  /\ HeldType'
           /\ \A j \in Jobs : job'[j] = "gone" => job[j] = "gone"
BY DEF HeldType, Held, JobStates

\* What a step that leaves the processors and recvLock alone keeps.
LEMMA FinFrame ==
    ASSUME IInv, UNCHANGED <<fin, writer, readers, leaked, finished>>, stop => stop'
    PROVE  FinType' /\ LockType' /\ JobInv' /\ LeakInv'
BY Parts DEF IInv, FinType, LockType, JobInv, LeakInv

\* What a step that leaves the jobs alone keeps.
LEMMA JobFrame ==
    ASSUME IInv, UNCHANGED <<tubeSet, job>>, finished \subseteq finished'
    PROVE  HeldType' /\ GoneIsFinished'
BY Parts DEF IInv, HeldType, GoneIsFinished

\* The steps of Put.
LEMMA PutKeeps ==
    ASSUME IInv, NEW p \in Putters, PutCalls(p) \/ PutStep(p)
    PROVE  IInv'
<1> USE DEF PutPoints
<1>0. FinType /\ LockType /\ PutType /\ HeldType /\ PlainType /\ GoneIsFinished
  BY Parts DEF IInv
<1>1. FinType' /\ LockType' /\ JobInv' /\ LeakInv'
  <2>1. UNCHANGED <<fin, writer, readers, leaked, finished, stop>>
    BY DEF PutStep, PutCalls, PutSends, PutRefused, PutAccepted, PutCut, PutFails, PutLocks,
           PutCloses, PutConnects, putUnchanged
  <2> QED
    BY <2>1, FinFrame
<1>2. HeldType' /\ GoneIsFinished'
  <2>1. CASE PutSends(p)
    <3>1. PICK j \in Jobs : job' = [job EXCEPT ![j] = "ready"]
      BY <2>1 DEF PutSends
    <3>2. UNCHANGED <<tubeSet, finished>>
      BY <2>1 DEF PutSends, putUnchanged
    <3> QED
      BY <1>0, <3>1, <3>2 DEF HeldType, GoneIsFinished, JobStates
  <2>2. CASE UNCHANGED <<tubeSet, job, finished>>
    BY <2>2, JobFrame
  <2> QED
    BY <2>1, <2>2 DEF PutStep, PutCalls, PutRefused, PutAccepted, PutCut, PutFails, PutLocks,
           PutCloses, PutConnects, putUnchanged
<1>3. PlainType'
  BY <1>0, ZenonT(30) DEF PlainType, PutStep, PutCalls, PutSends, PutRefused, PutAccepted, PutCut, PutFails,
     PutLocks, PutCloses, PutConnects, putUnchanged
<1>4. PutType'
  <2>1. CASE PutLocks(p)
    BY <1>0, <2>1, BeanstalkAssumption DEF PutType, PutLocks, PutGoes
  <2>2. CASE PutCloses(p)
    BY <1>0, <2>2, BeanstalkAssumption DEF PutType, PutCloses
  <2>3. CASE PutConnects(p)
    BY <1>0, <2>3, BeanstalkAssumption DEF PutType, PutConnects, PutGoes
  <2>4. CASE \/ PutCalls(p) \/ PutSends(p) \/ PutRefused(p) \/ PutAccepted(p)
             \/ PutCut(p) \/ PutFails(p)
    <3>1. PICK to \in {"idle", "send", "sent", "cut", "lock"} : put' = [put EXCEPT ![p] = to]
      BY <2>4 DEF PutCalls, PutSends, PutRefused, PutAccepted, PutCut, PutFails, PutGoes, PutReturns
    <3>2. put[p] \notin {"close", "dial"} /\ sendLock' = sendLock
      BY <2>4 DEF PutCalls, PutSends, PutRefused, PutAccepted, PutCut, PutFails, PutGoes
    <3> QED
      BY <1>0, <3>1, <3>2, PutStepType
  <2> QED
    BY <2>1, <2>2, <2>3, <2>4 DEF PutStep
<1> QED
  BY <1>1, <1>2, <1>3, <1>4, PartsNext DEF IInv

\* The steps of Process.
LEMMA ProcessKeeps ==
    ASSUME IInv, ProcessStep
    PROVE  IInv'
<1>0. FinType /\ LockType /\ PutType /\ HeldType /\ PlainType /\ GoneIsFinished
  BY Parts DEF IInv
<1>1. ASSUME NEW f \in Finishers, NEW j \in Jobs, ProcessGets(f, j)
      PROVE  IInv'
  <2>1. /\ FinType'
        /\ fin[f].at = "off" /\ fin'[f].at = "work" /\ fin'[f].job = j
        /\ \A g \in Finishers : g # f => fin'[g] = fin[g]
    BY <1>0, <1>1 DEF ProcessGets, FinType, FinPoints
  <2>2. LockType' /\ JobInv' /\ LeakInv'
    BY <1>0, <1>1, <2>1 DEF IInv, LockType, JobInv, LeakInv, ProcessGets, processUnchanged, locks, history
  <2>3. HeldType' /\ GoneIsFinished'
    BY <1>0, <1>1 DEF HeldType, GoneIsFinished, JobStates, ProcessGets, processUnchanged, history
  <2>4. PutType' /\ PlainType'
    BY <1>0, <1>1 DEF PutType, PlainType, ProcessGets, processUnchanged, locks, history
  <2> QED
    BY <2>1, <2>2, <2>3, <2>4, PartsNext DEF IInv
<1>2. CASE ProcessFails \/ ProcessChecksStop \/ ProcessCloses \/ ProcessConnects
  <2>1. FinType' /\ LockType' /\ JobInv' /\ LeakInv'
    BY <1>2, FinFrame DEF ProcessFails, ProcessChecksStop, ProcessCloses, ProcessConnects,
       processUnchanged, locks, history
  <2>2. HeldType' /\ GoneIsFinished'
    <3>1. CASE ProcessFails \/ ProcessChecksStop
      BY <3>1, JobFrame DEF ProcessFails, ProcessChecksStop, processUnchanged, history
    <3>2. CASE ProcessCloses \/ ProcessConnects
      <4>1. \E s \in {"ready", "leaked"} : job' = Held(s)
        BY <3>2 DEF ProcessCloses, ProcessConnects, ClosesTubeSet, TubeSetGoes, ConnectsTubeSet
      <4>2. tubeSet' \in {"up", "closed", "broken"} /\ finished' = finished
        BY <3>2 DEF ProcessCloses, ProcessConnects, ClosesTubeSet, TubeSetGoes, ConnectsTubeSet,
           processUnchanged, history
      <4>3. HeldType' /\ \A j \in Jobs : job'[j] = "gone" => job[j] = "gone"
        BY <1>0, <4>1, <4>2, HeldStep
      <4> QED
        BY <1>0, <4>2, <4>3 DEF GoneIsFinished
    <3> QED
      BY <1>2, <3>1, <3>2
  <2>3. PutType' /\ PlainType'
    BY <1>0, <1>2 DEF PutType, PlainType, ProcessFails, ProcessChecksStop, ProcessCloses,
       ProcessConnects, processUnchanged, locks, history
  <2> QED
    BY <2>1, <2>2, <2>3, PartsNext DEF IInv
<1> QED
  BY <1>1, <1>2 DEF ProcessStep

\* The steps of a processor and of finishJob.
LEMMA FinKeeps ==
    ASSUME IInv, NEW f \in Finishers, FinStep(f)
    PROVE  IInv'
<1>0. FinType /\ LockType /\ PutType /\ HeldType /\ PlainType /\ GoneIsFinished /\ JobInv /\ LeakInv
  BY Parts DEF IInv
<1>1. PutType'
  BY <1>0 DEF PutType, FinStep, Works, RLocks, Deletes, DeleteFails, Locks, ReadersLeft, FinCloses,
     FinConnects, finUnchanged
<1>2. CASE Works(f)
  <2>1. PICK to \in {"rlock", "off"} : FinGoes(f, "work", to)
                                     /\ finished' = IF to = "off" THEN finished
                                                    ELSE finished \cup {fin[f].job}
    BY <1>2 DEF Works
  <2>2. FinType' /\ fin[f].at = "work" /\ fin'[f].at = to /\ (to # "off" => fin'[f].job = fin[f].job)
        /\ fin[f].job \in Jobs /\ \A g \in Finishers : g # f => fin'[g] = fin[g]
    BY <1>0, <2>1, FinStepType DEF FinPoints
  <2>3. UNCHANGED <<finUnchanged, writer, readers, leaked, tubeSet, job>>
    BY <1>2 DEF Works
  <2>4. LockType'
    BY <1>0, <2>2, <2>3 DEF LockType
  <2>5. JobInv' /\ LeakInv'
    BY <1>0, <2>1, <2>2, <2>3 DEF JobInv, LeakInv, finUnchanged
  <2>6. HeldType' /\ GoneIsFinished'
    BY <2>1, <2>3, JobFrame
  <2>7. PlainType'
    BY <1>0, <2>1, <2>2, <2>3 DEF PlainType, finUnchanged
  <2> QED
    BY <1>1, <2>2, <2>4, <2>5, <2>6, <2>7, PartsNext DEF IInv
<1>3. ASSUME NEW from \in {"rlock", "delete", "lock", "wait", "close", "dial"},
             NEW to \in FinPoints \ {"work"}, FinGoes(f, from, to), finished' = finished,
             LockType', LeakInv', HeldType', GoneIsFinished', PlainType'
      PROVE  IInv'
  <2>1. FinType' /\ fin[f].at = from /\ fin'[f].at = to /\ (to # "off" => fin'[f].job = fin[f].job)
        /\ fin[f].job \in Jobs /\ \A g \in Finishers : g # f => fin'[g] = fin[g]
    BY <1>0, <1>3, FinStepType DEF FinPoints
  <2>2. JobInv'
    BY <1>0, <1>3, <2>1 DEF JobInv
  <2> QED
    BY <1>1, <1>3, <2>1, <2>2, PartsNext DEF IInv
<1>4. ASSUME NEW from \in {"rlock", "delete", "lock", "wait", "close", "dial"},
             NEW to \in FinPoints, FinGoes(f, from, to)
      PROVE  /\ fin[f].at = from /\ fin'[f].at = to
             /\ fin[f].job \in Jobs /\ fin[f].job \in finished
             /\ \A g \in Finishers : g # f => fin'[g] = fin[g]
  BY <1>0, <1>4, FinStepType DEF FinPoints, JobInv
<1>5. CASE RLocks(f)
  <2>1. FinGoes(f, "rlock", "delete") /\ writer = Free /\ readers' = readers \cup {f}
        /\ UNCHANGED <<finUnchanged, writer, leaked, tubeSet, job, finished>>
    BY <1>5 DEF RLocks
  <2>2. fin[f].at = "rlock" /\ fin'[f].at = "delete" /\ \A g \in Finishers : g # f => fin'[g] = fin[g]
    BY <2>1, <1>4 DEF FinPoints
  <2>3. LockType'
    BY <1>0, <2>1, <2>2, BeanstalkAssumption DEF LockType
  <2>4. LeakInv' /\ PlainType'
    BY <1>0, <2>1 DEF LeakInv, PlainType, finUnchanged
  <2>5. HeldType' /\ GoneIsFinished'
    BY <2>1, JobFrame
  <2> QED
    BY <1>3, <2>1, <2>3, <2>4, <2>5 DEF FinPoints
<1>6. CASE Deletes(f)
  <2>1. FinGoes(f, "delete", "off") /\ readers' = readers \ {f} /\ tubeSet = "up"
        /\ job' = [job EXCEPT ![fin[f].job] = IF @ \in {"ready", "held"} THEN "gone" ELSE @]
        /\ UNCHANGED <<finUnchanged, writer, leaked, tubeSet, finished>>
    BY <1>6 DEF Deletes
  <2>2. fin[f].at = "delete" /\ fin'[f].at = "off" /\ fin[f].job \in Jobs /\ fin[f].job \in finished
        /\ \A g \in Finishers : g # f => fin'[g] = fin[g]
    BY <2>1, <1>4 DEF FinPoints
  <2>3. LockType'
    BY <1>0, <2>1, <2>2 DEF LockType
  <2>4. LeakInv' /\ PlainType'
    BY <1>0, <2>1 DEF LeakInv, PlainType, finUnchanged
  <2>5. HeldType' /\ GoneIsFinished'
    BY <1>0, <2>1, <2>2 DEF HeldType, GoneIsFinished, JobStates
  <2> QED
    BY <1>3, <2>1, <2>3, <2>4, <2>5 DEF FinPoints
<1>7. CASE DeleteFails(f)
  <2>1. PICK to \in {"off", "lock"} : FinGoes(f, "delete", to)
    BY <1>7 DEF DeleteFails
  <2>2. fin[f].at = "delete" /\ fin'[f].at = to /\ \A g \in Finishers : g # f => fin'[g] = fin[g]
    BY <2>1, <1>4 DEF FinPoints
  <2>3. /\ readers' = readers \ {f} /\ leaked' \in BOOLEAN /\ (leaked' => leaked \/ stop)
        /\ UNCHANGED <<finUnchanged, writer, tubeSet, job, finished>>
    BY <1>0, <1>7 DEF DeleteFails, PlainType
  <2>4. LockType'
    BY <1>0, <2>2, <2>3 DEF LockType
  <2>5. LeakInv' /\ PlainType'
    BY <1>0, <2>3 DEF LeakInv, PlainType, finUnchanged
  <2>6. HeldType' /\ GoneIsFinished'
    BY <2>3, JobFrame
  <2> QED
    BY <1>3, <2>1, <2>3, <2>4, <2>5, <2>6 DEF FinPoints
<1>8. CASE Locks(f)
  <2>1. FinGoes(f, "lock", "wait") /\ writer = Free /\ writer' = f
        /\ UNCHANGED <<finUnchanged, readers, leaked, tubeSet, job, finished>>
    BY <1>8 DEF Locks
  <2>2. fin[f].at = "lock" /\ fin'[f].at = "wait" /\ \A g \in Finishers : g # f => fin'[g] = fin[g]
    BY <2>1, <1>4 DEF FinPoints
  <2>3. LockType'
    BY <1>0, <2>1, <2>2, BeanstalkAssumption DEF LockType
  <2>4. LeakInv' /\ PlainType'
    BY <1>0, <2>1 DEF LeakInv, PlainType, finUnchanged
  <2>5. HeldType' /\ GoneIsFinished'
    BY <2>1, JobFrame
  <2> QED
    BY <1>3, <2>1, <2>3, <2>4, <2>5 DEF FinPoints
<1>9. CASE ReadersLeft(f)
  <2>1. FinGoes(f, "wait", "close") /\ readers = {}
        /\ UNCHANGED <<finUnchanged, writer, readers, leaked, tubeSet, job, finished>>
    BY <1>9 DEF ReadersLeft
  <2>2. fin[f].at = "wait" /\ fin'[f].at = "close" /\ \A g \in Finishers : g # f => fin'[g] = fin[g]
    BY <2>1, <1>4 DEF FinPoints
  <2>3. LockType'
    BY <1>0, <2>1, <2>2 DEF LockType
  <2>4. LeakInv' /\ PlainType'
    BY <1>0, <2>1 DEF LeakInv, PlainType, finUnchanged
  <2>5. HeldType' /\ GoneIsFinished'
    BY <2>1, JobFrame
  <2> QED
    BY <1>3, <2>1, <2>3, <2>4, <2>5 DEF FinPoints
<1>10. CASE FinCloses(f)
  <2>1. FinGoes(f, "close", "dial") /\ tubeSet' = "closed" /\ job' = Held("ready")
        /\ UNCHANGED <<finUnchanged, writer, readers, leaked, finished>>
    BY <1>10 DEF FinCloses, ClosesTubeSet, TubeSetGoes
  <2>2. fin[f].at = "close" /\ fin'[f].at = "dial" /\ \A g \in Finishers : g # f => fin'[g] = fin[g]
    BY <2>1, <1>4 DEF FinPoints
  <2>3. LockType'
    BY <1>0, <2>1, <2>2 DEF LockType
  <2>4. LeakInv' /\ PlainType'
    BY <1>0, <2>1 DEF LeakInv, PlainType, finUnchanged
  <2>5. HeldType' /\ \A j \in Jobs : job'[j] = "gone" => job[j] = "gone"
    BY <1>0, <2>1, HeldStep
  <2>6. GoneIsFinished'
    BY <1>0, <2>1, <2>5 DEF GoneIsFinished
  <2> QED
    BY <1>3, <2>1, <2>3, <2>4, <2>5, <2>6 DEF FinPoints
<1>11. CASE FinConnects(f)
  <2>1. FinGoes(f, "dial", "rlock") /\ tubeSet' = "up" /\ job' = Held("leaked") /\ writer' = Free
        /\ UNCHANGED <<finUnchanged, readers, leaked, finished>>
    BY <1>11 DEF FinConnects, ConnectsTubeSet
  <2>2. fin[f].at = "dial" /\ fin'[f].at = "rlock" /\ \A g \in Finishers : g # f => fin'[g] = fin[g]
    BY <2>1, <1>4 DEF FinPoints
  <2>3. LockType'
    BY <1>0, <2>1, <2>2, BeanstalkAssumption DEF LockType
  <2>4. LeakInv' /\ PlainType'
    BY <1>0, <2>1 DEF LeakInv, PlainType, finUnchanged
  <2>5. HeldType' /\ \A j \in Jobs : job'[j] = "gone" => job[j] = "gone"
    BY <1>0, <2>1, HeldStep
  <2>6. GoneIsFinished'
    BY <1>0, <2>1, <2>5 DEF GoneIsFinished
  <2> QED
    BY <1>3, <2>1, <2>3, <2>4, <2>5, <2>6 DEF FinPoints
<1> QED
  BY <1>2, <1>5, <1>6, <1>7, <1>8, <1>9, <1>10, <1>11 DEF FinStep

\* The steps of Shutdown.
LEMMA ShutdownKeeps == IInv /\ ShutdownStep => IInv'
<1> SUFFICES ASSUME IInv, ShutdownStep PROVE IInv'
  OBVIOUS
<1>0. FinType /\ LockType /\ PutType /\ HeldType /\ PlainType /\ GoneIsFinished
  BY Parts DEF IInv
<1>1. FinType' /\ LockType' /\ JobInv' /\ LeakInv'
  <2>1. UNCHANGED <<fin, writer, readers, leaked, finished>>
    BY DEF ShutdownStep, SetsStop, ShutdownClosesTube, ShutdownClosesTubeSet, shutdownUnchanged,
       locks
  <2>2. stop' = TRUE \/ stop' = stop
    BY DEF ShutdownStep, SetsStop, ShutdownClosesTube, ShutdownClosesTubeSet
  <2> QED
    BY <2>1, <2>2, FinFrame
<1>2. HeldType' /\ GoneIsFinished'
  <2>1. CASE SetsStop \/ ShutdownClosesTube
    BY <2>1, JobFrame DEF SetsStop, ShutdownClosesTube, shutdownUnchanged
  <2>2. CASE ShutdownClosesTubeSet
    <3>1. job' = Held("ready") /\ tubeSet' = "closed" /\ finished' = finished
      BY <2>2 DEF ShutdownClosesTubeSet, ClosesTubeSet, TubeSetGoes, shutdownUnchanged
    <3>2. HeldType' /\ \A j \in Jobs : job'[j] = "gone" => job[j] = "gone"
      BY <1>0, <3>1, HeldStep
    <3> QED
      BY <1>0, <3>1, <3>2 DEF GoneIsFinished
  <2> QED
    BY <2>1, <2>2 DEF ShutdownStep
<1>3. PutType' /\ tubeUp' \in BOOLEAN
  <2>1. CASE SetsStop \/ ShutdownClosesTubeSet
    BY <1>0, <2>1 DEF PutType, PlainType, SetsStop, ShutdownClosesTubeSet, shutdownUnchanged, locks
  <2>2. CASE ShutdownClosesTube
    BY <1>0, <2>2, TubeStepType DEF ShutdownClosesTube, shutdownUnchanged, locks
  <2> QED
    BY <2>1, <2>2 DEF ShutdownStep
<1>4. PlainType'
  BY <1>0, <1>3 DEF PlainType, ShutdownStep, SetsStop, ShutdownClosesTube, ShutdownClosesTubeSet,
     shutdownUnchanged, locks
<1> QED
  BY <1>1, <1>2, <1>3, <1>4, PartsNext DEF IInv

\* The steps of the server and the network.
LEMMA EnvironmentKeeps == IInv /\ Environment => IInv'
<1> SUFFICES ASSUME IInv, Environment PROVE IInv'
  OBVIOUS
<1>0. FinType /\ LockType /\ PutType /\ HeldType /\ PlainType /\ GoneIsFinished /\ JobInv
  BY Parts DEF IInv
<1>1. UNCHANGED environmentUnchanged
  BY DEF Environment, TubeBreaks, TubeSetBreaks, Expires, DeleteIsCut
<1>2. FinType' /\ LockType' /\ JobInv' /\ LeakInv'
  BY <1>1, FinFrame DEF environmentUnchanged, locks, history
<1>3. HeldType' /\ GoneIsFinished'
  <2>0. finished' = finished
    BY <1>1 DEF environmentUnchanged, history
  <2>1. CASE TubeBreaks
    BY <2>0, <2>1, JobFrame DEF TubeBreaks
  <2>2. CASE TubeSetBreaks
    <3>1. job' = Held("ready") /\ tubeSet' = "broken"
      BY <2>2 DEF TubeSetBreaks, TubeSetGoes
    <3>2. HeldType' /\ \A j \in Jobs : job'[j] = "gone" => job[j] = "gone"
      BY <1>0, <3>1, HeldStep
    <3> QED
      BY <1>0, <2>0, <3>2 DEF GoneIsFinished
  <2>3. ASSUME NEW j \in Jobs, Expires(j) PROVE HeldType' /\ GoneIsFinished'
    BY <1>0, <2>0, <2>3 DEF Expires, HeldType, GoneIsFinished, JobStates
  <2>4. ASSUME NEW f \in Finishers, DeleteIsCut(f) PROVE HeldType' /\ GoneIsFinished'
    <3>1. fin[f].job \in Jobs /\ fin[f].job \in finished
      BY <1>0, <2>4 DEF DeleteIsCut, JobInv
    <3>2. tubeSet' = "broken" /\ job' = [Held("ready") EXCEPT ![fin[f].job] = "gone"]
      BY <2>4 DEF DeleteIsCut
    <3> QED
      BY <1>0, <2>0, <3>1, <3>2 DEF Held, HeldType, GoneIsFinished, JobStates
  <2> QED
    BY <2>1, <2>2, <2>3, <2>4 DEF Environment
<1>4. PutType' /\ tubeUp' \in BOOLEAN
  <2>1. CASE TubeBreaks
    BY <1>0, <1>1, <2>1, TubeStepType DEF TubeBreaks, environmentUnchanged, locks
  <2>2. CASE UNCHANGED <<tubeUp, put>>
    BY <1>0, <1>1, <2>2 DEF PutType, PlainType, environmentUnchanged, locks
  <2> QED
    BY <2>1, <2>2 DEF Environment, TubeSetBreaks, Expires, DeleteIsCut
<1>5. PlainType'
  <2>1. breaks' \in 0..MaxBreaks
    <3>1. MaxBreaks \in Nat
      BY BeanstalkAssumption
    <3>2. breaks' = breaks \/ (breaks < MaxBreaks /\ breaks' = breaks + 1)
      BY DEF Environment, TubeBreaks, TubeSetBreaks, Expires, DeleteIsCut
    <3> QED
      BY <1>0, <3>1, <3>2 DEF PlainType
  <2> QED
    BY <1>0, <1>1, <1>4, <2>1 DEF PlainType, environmentUnchanged, locks, history
<1> QED
  BY <1>2, <1>3, <1>4, <1>5, PartsNext DEF IInv

-----------------------------------------------------------------------------
(* The theorems. *)

\* The invariant holds of every run of the queue.
THEOREM Inductive == Spec => []IInv
<1>1. IInv /\ [Next]_vars => IInv'
  <2> SUFFICES ASSUME IInv, [Next]_vars PROVE IInv'
    OBVIOUS
  <2>1. CASE UNCHANGED vars
    <3>1. FinType' /\ LockType' /\ JobInv' /\ LeakInv'
      BY <2>1, FinFrame DEF vars, locks, history
    <3>2. HeldType' /\ GoneIsFinished'
      BY <2>1, JobFrame DEF vars, server, history
    <3>3. PutType' /\ PlainType'
      BY <2>1, Parts DEF IInv, PutType, PlainType, vars, locks, server, history
    <3> QED
      BY <3>1, <3>2, <3>3, PartsNext DEF IInv
  <2>2. CASE Next
    BY <2>2, PutKeeps, ProcessKeeps, FinKeeps, ShutdownKeeps, EnvironmentKeeps DEF Next
  <2> QED
    BY <2>1, <2>2
<1> QED
  BY InitIInv, <1>1, PTL DEF Spec

\* Locks are held by goroutines that are inside them, and only a connection
\* that works has jobs reserved (queue.go:52-116).
THEOREM TypeCorrect == Spec => []TypeOK
<1>1. IInv => TypeOK
  BY DEF IInv
<1> QED
  BY <1>1, Inductive, PTL

\* However connections break and jobs are handed out again, a job leaves the
\* server only after its processor called done (queue.go:82-84).
THEOREM GoneIsFinishedCorrect == Spec => []GoneIsFinished
<1>1. IInv => GoneIsFinished
  BY DEF IInv
<1> QED
  BY <1>1, Inductive, PTL

\* Only finishJob of a stopped queue leaves recvLock held (queue.go:109-111).
THEOREM LeakCorrect == Spec => [](leaked => stop)
<1>1. IInv => (leaked => stop)
  BY DEF IInv, LeakInv
<1> QED
  BY <1>1, Inductive, PTL
=============================================================================
