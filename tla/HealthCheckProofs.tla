------------------------- MODULE HealthCheckProofs -------------------------
(***************************************************************************)
(* Proofs about HealthCheck, for any number of handlers, ids and counters  *)
(* and any threshold.                                                      *)
(***************************************************************************)
EXTENDS HealthCheck, TLAPS

-----------------------------------------------------------------------------
(* The inductive invariant. *)

\* Between a notice and the mark that follows it the checker stands for the
\* mark; about to notify, it has seen that there is none, and only it sets one.
Marked(c) == failureProcessed[c] \/ (checker.at = "mark" /\ checker.counter = c)

NoticeInv ==
    /\ \A c \in Counters : notices[c] <= recoveries[c] + (IF Marked(c) THEN 1 ELSE 0)
    /\ checker.at = "notify" => ~failureProcessed[checker.counter]

\* The same for alerts and the other mark.
AlertInv ==
    /\ \A c \in alerted :
        countersProcessed[c] \/ (checker.at = "count" /\ checker.counter = c)
    /\ checker.at = "alert" => checker.counter \notin alerted

IInv == TypeOK /\ NoticeInv /\ AlertInv /\ MessageHasFailure

-----------------------------------------------------------------------------
(* It holds initially, and every step preserves it. *)

\* It holds of an empty storage.
LEMMA InitIInv == Init => IInv
<1> SUFFICES ASSUME Init PROVE IInv
  OBVIOUS
<1>1. TypeOK
  <2>1. handler \in [Handlers -> [at : HandlerPoints, counter : Counters \cup {None},
                                  id : SUBSET Ids]]
    BY DEF Init, Idle, HandlerPoints
  <2>2. checker \in [at : CheckerPoints, counter : Counters \cup {None}, known : BOOLEAN,
                     succeeded : Nat]
    BY DEF Init, Ranging, CheckerPoints
  <2>3. \A h \in Handlers : handler[h].at = "idle" <=> handler[h].counter = None
    BY DEF Init, Idle
  <2>4. checker.at # "range" => checker.counter # None
    BY DEF Init, Ranging
  <2>5. m \in [Ids -> Counters \cup {None}]
    BY DEF Init
  <2>6. 0 \in 0..MaxCounters /\ 0 \in 0..MaxHits
    <3>1. MaxCounters \in Nat /\ MaxHits \in Nat
      BY HealthAssumption
    <3> QED
      BY <3>1
  <2> QED
    BY <2>1, <2>2, <2>3, <2>4, <2>5, <2>6 DEF TypeOK, Init
<1>2. NoticeInv
  <2>1. ASSUME NEW c \in Counters
        PROVE  notices[c] <= recoveries[c] + (IF Marked(c) THEN 1 ELSE 0)
    <3>1. notices[c] = 0 /\ recoveries[c] = 0
      BY DEF Init
    <3> QED
      BY <3>1
  <2> QED
    BY <2>1 DEF NoticeInv, Init, Ranging
<1>3. AlertInv
  BY DEF AlertInv, Init, Ranging
<1>4. MessageHasFailure
  BY DEF MessageHasFailure, Init
<1> QED
  BY <1>1, <1>2, <1>3, <1>4 DEF IInv

\* Handler h goes to another point of its call.
Goes(h, to) ==
    handler' = [handler EXCEPT ![h] = IF to = "idle" THEN Idle ELSE [@ EXCEPT !.at = to]]

\* A step of a handler keeps the types of the handlers.
LEMMA HandlerType ==
    ASSUME TypeOK, NEW h \in Handlers, NEW c \in Counters, NEW to \in HandlerPoints,
           handler[h].counter = c,
           Goes(h, to)
    PROVE  /\ handler' \in [Handlers -> [at : HandlerPoints, counter : Counters \cup {None},
                                         id : SUBSET Ids]]
           /\ \A g \in Handlers : handler'[g].at = "idle" <=> handler'[g].counter = None
           /\ \A g \in Handlers \ {h} : handler'[g] = handler[g]
           /\ to # "idle" => handler'[h].at = to /\ handler'[h].counter = c
<1>1. c # None
  BY DEF Counters, None
<1>2. Idle \in [at : HandlerPoints, counter : Counters \cup {None}, id : SUBSET Ids]
  BY DEF Idle, HandlerPoints
<1>3. handler[h] \in [at : HandlerPoints, counter : Counters \cup {None}, id : SUBSET Ids]
  BY DEF TypeOK
<1>4. /\ [handler[h] EXCEPT !.at = to]
            \in [at : HandlerPoints, counter : Counters \cup {None}, id : SUBSET Ids]
      /\ [handler[h] EXCEPT !.at = to].at = to
      /\ [handler[h] EXCEPT !.at = to].counter = c
  BY <1>3
<1>5. handler'[h] = IF to = "idle" THEN Idle ELSE [handler[h] EXCEPT !.at = to]
  BY DEF TypeOK, Goes
<1>6. \A g \in Handlers \ {h} : handler'[g] = handler[g]
  BY DEF TypeOK, Goes
<1>7. handler'[h].at = "idle" <=> handler'[h].counter = None
  BY <1>1, <1>4, <1>5 DEF Idle
<1> QED
  BY <1>1, <1>2, <1>4, <1>5, <1>6, <1>7 DEF TypeOK, Goes

\* Where it goes.
LEMMA HandlerFrame ==
    ASSUME TypeOK, NEW h \in Handlers, NEW to \in HandlerPoints,
           handler[h].counter \in Counters, Goes(h, to)
    PROVE  to # "idle" => handler'[h].at = to /\ handler'[h].counter = handler[h].counter
<1>1. PICK c \in Counters : handler[h].counter = c
  OBVIOUS
<1> QED
  BY <1>1, HandlerType

\* The same for the steps that change little else.
LEMMA GoesType ==
    ASSUME TypeOK, NEW h \in Handlers, NEW c \in Counters, NEW from, NEW to \in HandlerPoints,
           HandlerGoes(h, c, from, to)
    PROVE  /\ handler' \in [Handlers -> [at : HandlerPoints, counter : Counters \cup {None},
                                         id : SUBSET Ids]]
           /\ \A g \in Handlers : handler'[g].at = "idle" <=> handler'[g].counter = None
           /\ \A g \in Handlers \ {h} : handler'[g] = handler[g]
           /\ handler[h].at = from /\ handler[h].counter = c
           /\ to # "idle" => handler'[h].at = to /\ handler'[h].counter = c
<1>1. handler[h].at = from /\ handler[h].counter = c /\ Goes(h, to)
  BY DEF HandlerGoes, Goes
<1> QED
  BY <1>1, HandlerType

\* What such a step does to the handlers.
LEMMA GoesFrame ==
    ASSUME TypeOK, NEW h \in Handlers, NEW c \in Counters, NEW from, NEW to \in HandlerPoints,
           HandlerGoes(h, c, from, to)
    PROVE  /\ \A g \in Handlers \ {h} : handler'[g] = handler[g]
           /\ handler[h].at = from /\ handler[h].counter = c
           /\ to # "idle" => handler'[h].at = to /\ handler'[h].counter = c
  BY GoesType

\* A step of the checker that goes on with its counter, or to the next one.
LEMMA CheckerType ==
    ASSUME TypeOK, NEW from, NEW to \in CheckerPoints, from # "range",
           CheckerGoes(from, to)
    PROVE  /\ checker' \in [at : CheckerPoints, counter : Counters \cup {None},
                            known : BOOLEAN, succeeded : Nat]
           /\ checker'.at = to
           /\ checker'.at # "range" => checker'.counter = checker.counter
           /\ checker.counter \in Counters
           /\ checker'.at # "range" => checker'.counter # None
<1>1. checker.counter \in Counters /\ checker.counter # None
  BY DEF TypeOK, CheckerGoes, Counters, None
<1>2. Ranging \in [at : CheckerPoints, counter : Counters \cup {None},
                   known : BOOLEAN, succeeded : Nat]
  BY DEF Ranging, CheckerPoints
<1>3. checker \in [at : CheckerPoints, counter : Counters \cup {None},
                   known : BOOLEAN, succeeded : Nat]
  BY DEF TypeOK
<1>4. /\ [checker EXCEPT !.at = to] \in [at : CheckerPoints, counter : Counters \cup {None},
                                         known : BOOLEAN, succeeded : Nat]
      /\ [checker EXCEPT !.at = to].at = to
      /\ [checker EXCEPT !.at = to].counter = checker.counter
  BY <1>3
<1> QED
  BY <1>1, <1>2, <1>4 DEF CheckerGoes, Ranging

\* Every step keeps the types.
LEMMA TypeStep == TypeOK /\ [Next]_vars => TypeOK'
<1> SUFFICES ASSUME TypeOK, [Next]_vars PROVE TypeOK'
  OBVIOUS
<1> DEFINE HandlerOK ==
        /\ handler \in [Handlers -> [at : HandlerPoints, counter : Counters \cup {None},
                                     id : SUBSET Ids]]
        /\ \A h \in Handlers : handler[h].at = "idle" <=> handler[h].counter = None
           CheckerOK ==
        /\ checker \in [at : CheckerPoints, counter : Counters \cup {None},
                        known : BOOLEAN, succeeded : Nat]
        /\ checker.at # "range" => checker.counter # None
           FieldsOK ==
        /\ success \in [Counters -> Nat] /\ failure \in [Counters -> Nat]
        /\ failed \in [Counters -> BOOLEAN]
        /\ failureProcessed \in [Counters -> BOOLEAN]
        /\ countersProcessed \in [Counters -> BOOLEAN]
        /\ msg \in [Counters -> Messages \cup {""}]
           HistoryOK ==
        /\ notices \in [Counters -> Nat] /\ recoveries \in [Counters -> Nat]
        /\ alerted \subseteq Counters /\ noticed \subseteq Counters
           StorageOK ==
        /\ m \in [Ids -> Counters \cup {None}]
        /\ created \in 0..MaxCounters
        /\ todo \subseteq Ids
        /\ hits \in 0..MaxHits
<1>1. HandlerOK /\ CheckerOK /\ FieldsOK /\ HistoryOK /\ StorageOK
  BY DEF TypeOK
<1>2. HandlerOK' /\ CheckerOK' /\ FieldsOK' /\ HistoryOK' /\ StorageOK' => TypeOK'
  BY DEF TypeOK
<1> HIDE DEF HandlerOK, CheckerOK, FieldsOK, HistoryOK, StorageOK
<1> USE DEF fields, history
<1>a. ASSUME NEW h \in Handlers, NEW i \in Ids, GetFinds(h, i)
      PROVE  HandlerOK'
  <2>1. m[i] \in Counters \cup {None} /\ m[i] # None
    BY <1>1, <1>a DEF StorageOK, GetFinds
  <2>2. [handler[h] EXCEPT !.at = "ready", !.counter = m[i]]
            \in [at : HandlerPoints, counter : Counters \cup {None}, id : SUBSET Ids]
    BY <1>1, <2>1 DEF HandlerOK, HandlerPoints
  <2>3. handler' = [handler EXCEPT ![h] = [handler[h] EXCEPT !.at = "ready", !.counter = m[i]]]
    BY <1>1, <1>a DEF GetFinds, HandlerOK
  <2> QED
    BY <1>1, <2>1, <2>2, <2>3 DEF HandlerOK
<1>b. ASSUME NEW h \in Handlers, NEW i \in Ids, GetMisses(h, i)
      PROVE  HandlerOK' /\ created' \in 0..MaxCounters
  <2>1. created' \in Counters /\ created' \in 0..MaxCounters /\ created' # None
    <3>1. MaxCounters \in Nat
      BY HealthAssumption
    <3> QED
      BY <1>1, <1>b, <3>1 DEF StorageOK, GetMisses, Counters, None
  <2>2. [at |-> "construct", counter |-> created', id |-> {i}]
            \in [at : HandlerPoints, counter : Counters \cup {None}, id : SUBSET Ids]
    BY <2>1 DEF HandlerPoints
  <2> QED
    BY <1>1, <1>b, <2>1, <2>2 DEF GetMisses, HandlerOK
<1>c. ASSUME NEW h \in Handlers, GetStores(h)
      PROVE  HandlerOK' /\ m' \in [Ids -> Counters \cup {None}]
  <2>1. handler[h].counter \in Counters \cup {None} /\ handler[h].counter # None
    BY <1>1, <1>c DEF HandlerOK, GetStores
  <2>2. [handler[h] EXCEPT !.at = "ready", !.id = {}]
            \in [at : HandlerPoints, counter : Counters \cup {None}, id : SUBSET Ids]
    BY <1>1 DEF HandlerOK, HandlerPoints
  <2>3. handler' = [handler EXCEPT ![h] = [handler[h] EXCEPT !.at = "ready", !.id = {}]]
    BY <1>1, <1>c DEF GetStores, HandlerOK
  <2>4. HandlerOK'
    BY <1>1, <2>1, <2>2, <2>3 DEF HandlerOK
  <2>5. \A i \in Ids : m[i] \in Counters \cup {None}
    BY <1>1 DEF StorageOK
  <2> QED
    BY <1>c, <2>1, <2>4, <2>5 DEF GetStores
<1>d. ASSUME NEW h \in Handlers, NEW c \in Counters, NEW to \in HandlerPoints, Hits(h, c, to)
      PROVE  HandlerOK' /\ hits' \in 0..MaxHits
  <2>1. HandlerOK'
    <3>1. handler[h].counter = c /\ Goes(h, to)
      BY <1>d DEF Hits, Goes
    <3> QED
      BY <3>1, HandlerType DEF HandlerOK
  <2>2. MaxHits \in Nat
    BY HealthAssumption
  <2> QED
    BY <1>1, <1>d, <2>1, <2>2 DEF Hits, StorageOK
<1>e. ASSUME NEW h \in Handlers, NEW c \in Counters, NEW from, NEW to \in HandlerPoints,
             HandlerGoes(h, c, from, to)
      PROVE  HandlerOK' /\ CheckerOK' /\ StorageOK'
  <2>1. HandlerOK'
    BY <1>e, GoesType DEF HandlerOK
  <2> QED
    BY <1>1, <1>e, <2>1 DEF HandlerGoes, CheckerOK, StorageOK
<1>f. ASSUME NEW from, NEW to \in CheckerPoints, from # "range", CheckerGoes(from, to)
      PROVE  HandlerOK' /\ CheckerOK' /\ StorageOK' /\ checker.counter \in Counters
  <2>1. CheckerOK' /\ checker.counter \in Counters
    BY <1>f, CheckerType DEF CheckerOK
  <2> QED
    BY <1>1, <1>f, <2>1 DEF CheckerGoes, HandlerOK, StorageOK
<1>g. "idle" \in HandlerPoints /\ "cas" \in HandlerPoints /\ "fail" \in HandlerPoints
      /\ "reset" \in HandlerPoints /\ "clear" \in HandlerPoints
  BY DEF HandlerPoints
<1>h. /\ UNCHANGED fields => FieldsOK'
      /\ UNCHANGED history => HistoryOK'
      /\ UNCHANGED handler => HandlerOK'
      /\ UNCHANGED checker => CheckerOK'
      /\ UNCHANGED <<m, created, todo, hits>> => StorageOK'
  BY <1>1 DEF HandlerOK, CheckerOK, FieldsOK, HistoryOK, StorageOK
<1>3. ASSUME NEW h \in Handlers, NEW i \in Ids, GetFinds(h, i) \/ GetMisses(h, i)
      PROVE  TypeOK'
  BY <1>1, <1>2, <1>3, <1>a, <1>b, <1>h DEF GetFinds, GetMisses, StorageOK
<1>4. ASSUME NEW h \in Handlers, NEW c \in Counters, HitFailure(h, c)
      PROVE  TypeOK'
  <2>1. failure' \in [Counters -> Nat]
    <3>1. failure \in [Counters -> Nat]
      BY <1>1 DEF FieldsOK
    <3>2. failure[c] + 1 \in Nat
      BY <3>1
    <3> QED
      BY <1>4, <3>1, <3>2 DEF HitFailure
  <2>2. HandlerOK' /\ hits' \in 0..MaxHits
    BY <1>4, <1>d, <1>g DEF HitFailure
  <2> QED
    BY <1>1, <1>2, <1>4, <2>1, <2>2, <1>h DEF HitFailure, StorageOK, FieldsOK
<1>5. ASSUME NEW h \in Handlers, NEW c \in Counters, HitSuccess(h, c)
      PROVE  TypeOK'
  <2>1. success' \in [Counters -> Nat]
    <3>1. success \in [Counters -> Nat]
      BY <1>1 DEF FieldsOK
    <3>2. success[c] + 1 \in Nat
      BY <3>1
    <3> QED
      BY <1>5, <3>1, <3>2 DEF HitSuccess
  <2>2. HandlerOK' /\ hits' \in 0..MaxHits
    BY <1>5, <1>d, <1>g DEF HitSuccess
  <2> QED
    BY <1>1, <1>2, <1>5, <2>1, <2>2, <1>h DEF HitSuccess, StorageOK, FieldsOK
<1>6. ASSUME NEW h \in Handlers, NEW c \in Counters, NEW e \in Messages, FailedStores(h, c, e)
      PROVE  TypeOK'
  BY <1>1, <1>2, <1>6, <1>d, <1>g, <1>h DEF FailedStores, StorageOK, FieldsOK, HistoryOK
<1>7. ASSUME NEW h \in Handlers, GetStores(h)
      PROVE  TypeOK'
  BY <1>1, <1>2, <1>7, <1>c, <1>h DEF GetStores, StorageOK
<1>8. ASSUME NEW h \in Handlers, NEW c \in Counters,
             \/ CasFails(h, c) \/ CasSwaps(h, c) \/ ResetProcessed(h, c) \/ ClearMessage(h, c)
             \/ FailedSets(h, c)
      PROVE  TypeOK'
  <2>1. HandlerOK' /\ CheckerOK' /\ StorageOK'
    BY <1>8, <1>e, <1>g
       DEF CasFails, CasSwaps, ResetProcessed, ClearMessage, FailedSets
  <2>2. FieldsOK'
    BY <1>1, <1>8
       DEF CasFails, CasSwaps, ResetProcessed, ClearMessage, FailedSets, FieldsOK
  <2>3. HistoryOK'
    <3>1. CASE ResetProcessed(h, c)
      <4>1. recoveries' \in [Counters -> Nat]
        BY <1>1, <3>1 DEF ResetProcessed, HistoryOK
      <4> QED
        BY <1>1, <3>1, <4>1 DEF ResetProcessed, HistoryOK
    <3> QED
      BY <1>8, <3>1, <1>h DEF CasFails, CasSwaps, ClearMessage, FailedSets
  <2> QED
    BY <1>2, <2>1, <2>2, <2>3
<1>9. ASSUME NEW i \in Removable, Remove(i)
      PROVE  TypeOK'
  BY <1>1, <1>2, <1>9, <1>h DEF Remove, StorageOK
<1>10. CASE RangeStarts
  BY <1>1, <1>2, <1>10, <1>h DEF RangeStarts, StorageOK
<1>11. ASSUME NEW i \in Ids, Visit(i)
       PROVE  TypeOK'
  <2>1. CheckerOK'
    <3>1. CASE m[i] = None
      BY <1>11, <1>h, <3>1 DEF Visit
    <3>2. CASE m[i] # None
      <4>1. m[i] \in Counters
        BY <1>1, <3>2 DEF StorageOK
      <4> QED
        BY <1>11, <3>2, <4>1 DEF Visit, CheckerOK, CheckerPoints
    <3> QED
      BY <3>1, <3>2
  <2> QED
    BY <1>1, <1>2, <1>11, <2>1, <1>h DEF Visit, StorageOK
<1>12. CASE ReadsSucceeded
  <2>1. success[checker.counter] \in Nat
    BY <1>1, <1>12 DEF CheckerOK, FieldsOK, ReadsSucceeded
  <2>2. CheckerOK'
    BY <1>1, <1>12, <2>1 DEF CheckerOK, ReadsSucceeded, CheckerPoints
  <2> QED
    BY <1>2, <1>12, <2>2, <1>h DEF ReadsSucceeded
<1>13. CASE ChecksFailed \/ ChecksProcessed \/ ReadsFailed \/ Flushes \/ ChecksCounted
  <2>1. \E from, to \in CheckerPoints : from # "range" /\ CheckerGoes(from, to)
    BY <1>13 DEF ChecksFailed, ChecksProcessed, ReadsFailed, Flushes, ChecksCounted, CheckerPoints
  <2> QED
    BY <1>2, <1>13, <2>1, <1>f, <1>h
       DEF ChecksFailed, ChecksProcessed, ReadsFailed, Flushes, ChecksCounted
<1>14. CASE Notifies \/ Marks \/ ClearsProcessed \/ FlushesSuccess \/ FlushesFailure \/ Alerts
            \/ Counts
  <2>1. \E from, to \in CheckerPoints : from # "range" /\ CheckerGoes(from, to)
    BY <1>14 DEF Notifies, Marks, ClearsProcessed, FlushesSuccess, FlushesFailure, Alerts, Counts,
                 CheckerPoints
  <2>2. HandlerOK' /\ CheckerOK' /\ StorageOK' /\ checker.counter \in Counters
    BY <2>1, <1>f
  <2>3. FieldsOK'
    <3>1. CASE Notifies \/ Alerts
      BY <3>1, <1>h DEF Notifies, Alerts
    <3>2. CASE Marks \/ ClearsProcessed \/ Counts
      BY <1>1, <2>2, <3>2 DEF Marks, ClearsProcessed, Counts, FieldsOK
    <3>3. CASE FlushesSuccess \/ FlushesFailure
      <4>1. success \in [Counters -> Nat] /\ failure \in [Counters -> Nat]
        BY <1>1 DEF FieldsOK
      <4>2. success' \in [Counters -> Nat] /\ failure' \in [Counters -> Nat]
        BY <2>2, <3>3, <4>1 DEF FlushesSuccess, FlushesFailure
      <4> QED
        BY <1>1, <3>3, <4>2 DEF FlushesSuccess, FlushesFailure, FieldsOK
    <3> QED
      BY <1>14, <3>1, <3>2, <3>3
  <2>4. HistoryOK'
    BY <1>1, <1>14, <2>2 DEF Notifies, Marks, ClearsProcessed, FlushesSuccess, FlushesFailure,
                             Alerts, Counts, HistoryOK
  <2> QED
    BY <1>2, <2>2, <2>3, <2>4
<1>15. CASE UNCHANGED vars
  BY <1>2, <1>15, <1>h DEF vars
<1> QED
  BY <1>3, <1>4, <1>5, <1>6, <1>7, <1>8, <1>9, <1>10, <1>11, <1>12, <1>13, <1>14, <1>15
     DEF Next, HandlerCall, HandlerStep, CheckerStep

\* What the actions have in common: a handler leaves the checker alone, and a
\* step that is not one of those named leaves the marks and histories alone.
LEMMA Frames ==
    ASSUME TypeOK, [Next]_vars
    PROVE  \/ /\ UNCHANGED <<checker, alerted, countersProcessed, notices>>
              /\ \/ UNCHANGED <<failureProcessed, recoveries>>
                 \/ \E h \in Handlers, c \in Counters : ResetProcessed(h, c)
           \/ /\ UNCHANGED <<handler, failed, msg, recoveries>>
              /\ RangeStarts \/ (\E i \in Ids : Visit(i))
                 \/ ChecksFailed \/ ChecksProcessed \/ Notifies \/ Marks
                 \/ ReadsSucceeded \/ ReadsFailed
                 \/ ClearsProcessed \/ Flushes \/ FlushesSuccess \/ FlushesFailure
                 \/ ChecksCounted \/ Alerts \/ Counts
<1> USE DEF vars, fields, history
<1>1. ASSUME NEW h \in Handlers, HandlerCall(h)
      PROVE  UNCHANGED <<checker, alerted, countersProcessed, notices, failureProcessed, recoveries>>
  BY <1>1 DEF HandlerCall, GetFinds, GetMisses, HitFailure, HitSuccess, FailedStores
<1>2. ASSUME NEW h \in Handlers, HandlerStep(h)
      PROVE  /\ UNCHANGED <<checker, alerted, countersProcessed, notices>>
             /\ \/ UNCHANGED <<failureProcessed, recoveries>>
                \/ \E g \in Handlers, c \in Counters : ResetProcessed(g, c)
  BY <1>2 DEF HandlerStep, GetStores, CasFails, CasSwaps, ResetProcessed, ClearMessage, FailedSets,
              HandlerGoes
<1>3. ASSUME NEW i \in Removable, Remove(i)
      PROVE  UNCHANGED <<checker, alerted, countersProcessed, notices, failureProcessed, recoveries>>
  BY <1>3 DEF Remove
<1>4. CASE CheckerStep
  <2>1. UNCHANGED <<handler, failed, msg, recoveries>>
    BY <1>4 DEF CheckerStep, RangeStarts, Visit, ChecksFailed, ChecksProcessed, Notifies, Marks,
                ReadsSucceeded, ReadsFailed, ClearsProcessed, Flushes, FlushesSuccess,
                FlushesFailure, ChecksCounted, Alerts, Counts, CheckerGoes
  <2> QED
    BY <1>4, <2>1 DEF CheckerStep
<1> QED
  BY <1>1, <1>2, <1>3, <1>4 DEF Next

\* Every step keeps the bound on notices.
LEMMA NoticeStep == IInv /\ TypeOK' /\ [Next]_vars => NoticeInv'
<1> SUFFICES ASSUME IInv, TypeOK', [Next]_vars PROVE NoticeInv'
  OBVIOUS
<1>1. TypeOK /\ NoticeInv
  BY DEF IInv
<1>2. notices \in [Counters -> Nat] /\ recoveries \in [Counters -> Nat]
      /\ failureProcessed \in [Counters -> BOOLEAN]
  BY <1>1 DEF TypeOK
<1>3. \A c \in Counters : /\ Marked(c) => notices[c] <= recoveries[c] + 1
                          /\ ~Marked(c) => notices[c] <= recoveries[c]
  BY <1>1, <1>2 DEF NoticeInv
<1>4. SUFFICES /\ \A c \in Counters : /\ Marked(c)' => notices'[c] <= recoveries'[c] + 1
                                      /\ ~Marked(c)' => notices'[c] <= recoveries'[c]
               /\ checker'.at = "notify" => ~failureProcessed'[checker'.counter]
  <2>1. \A c \in Counters : recoveries'[c] \in Nat
    BY DEF TypeOK
  <2>2. ASSUME NEW c \in Counters,
               Marked(c)' => notices'[c] <= recoveries'[c] + 1,
               ~Marked(c)' => notices'[c] <= recoveries'[c]
        PROVE  notices'[c] <= recoveries'[c] + (IF Marked(c)' THEN 1 ELSE 0)
    <3>1. recoveries'[c] + 0 = recoveries'[c]
      BY <2>1
    <3> QED
      BY <2>2, <3>1
  <2> QED
    BY <2>2 DEF NoticeInv
<1>5. ASSUME UNCHANGED <<notices, recoveries, failureProcessed>>,
             \/ UNCHANGED checker
             \/ /\ checker.at # "mark" /\ checker'.at # "mark"
                /\ checker'.at # "notify"
      PROVE  /\ \A c \in Counters : /\ Marked(c)' => notices'[c] <= recoveries'[c] + 1
                                    /\ ~Marked(c)' => notices'[c] <= recoveries'[c]
             /\ checker'.at = "notify" => ~failureProcessed'[checker'.counter]
  <2>1. \A c \in Counters : Marked(c)' = Marked(c)
    BY <1>5 DEF Marked
  <2> QED
    BY <1>1, <1>3, <1>5, <2>1 DEF NoticeInv
<1>6. ASSUME NEW h \in Handlers, NEW c \in Counters, ResetProcessed(h, c)
      PROVE  /\ \A d \in Counters : /\ Marked(d)' => notices'[d] <= recoveries'[d] + 1
                                    /\ ~Marked(d)' => notices'[d] <= recoveries'[d]
             /\ checker'.at = "notify" => ~failureProcessed'[checker'.counter]
  <2>1. UNCHANGED <<checker, notices>>
    BY <1>6 DEF ResetProcessed, HandlerGoes
  <2>2. ASSUME NEW d \in Counters, d # c
        PROVE  recoveries'[d] = recoveries[d] /\ failureProcessed'[d] = failureProcessed[d]
    BY <1>2, <1>6, <2>2 DEF ResetProcessed
  <2>3. recoveries'[c] = recoveries[c] + 1 /\ ~failureProcessed'[c]
    BY <1>2, <1>6 DEF ResetProcessed
  <2>4. checker'.at = "notify" => ~failureProcessed'[checker'.counter]
    <3>1. checker.at = "notify" => checker.counter \in Counters
      BY <1>1 DEF TypeOK
    <3> QED
      BY <1>1, <2>1, <2>2, <2>3, <3>1 DEF NoticeInv
  <2>5. notices[c] \in Nat /\ recoveries[c] \in Nat /\ notices[c] <= recoveries[c] + 1
    BY <1>2, <1>3
  <2>6. notices'[c] <= recoveries'[c] /\ notices'[c] <= recoveries'[c] + 1
    BY <2>1, <2>3, <2>5
  <2>7. ASSUME NEW d \in Counters, d # c
        PROVE  Marked(d)' = Marked(d)
    BY <2>1, <2>2, <2>7 DEF Marked
  <2> QED
    BY <1>3, <2>1, <2>2, <2>4, <2>6, <2>7
<1>7. CASE ChecksProcessed
  <2>1. /\ checker.at = "isprocessed" /\ UNCHANGED <<notices, recoveries, failureProcessed>>
        /\ checker'.at \in {"range", "notify"}
        /\ checker'.at = "notify" =>
                checker'.counter = checker.counter /\ ~failureProcessed[checker.counter]
    BY <1>1, <1>7, CheckerType DEF ChecksProcessed, CheckerGoes, fields, history, CheckerPoints, Ranging
  <2>2. \A c \in Counters : Marked(c)' = Marked(c)
    BY <2>1 DEF Marked
  <2> QED
    BY <1>3, <2>1, <2>2
<1>8. CASE Notifies
  <2>1. /\ checker.at = "notify" /\ checker'.at = "mark" /\ checker'.counter = checker.counter
        /\ checker.counter \in Counters
    BY <1>1, <1>8, CheckerType DEF Notifies, CheckerGoes, CheckerPoints
  <2>2. /\ UNCHANGED <<recoveries, failureProcessed>>
        /\ notices'[checker.counter] = notices[checker.counter] + 1
        /\ \A d \in Counters : d # checker.counter => notices'[d] = notices[d]
    BY <1>2, <1>8, <2>1 DEF Notifies, fields
  <2>3. ~Marked(checker.counter) /\ Marked(checker.counter)'
    BY <1>1, <2>1 DEF NoticeInv, Marked
  <2>4. notices[checker.counter] <= recoveries[checker.counter]
    BY <1>3, <2>1, <2>3
  <2>5. notices'[checker.counter] <= recoveries'[checker.counter] + 1
    BY <1>2, <2>1, <2>2, <2>4
  <2>6. ASSUME NEW d \in Counters, d # checker.counter
        PROVE  Marked(d)' = Marked(d)
    BY <2>1, <2>2, <2>6 DEF Marked
  <2> QED
    BY <1>3, <2>1, <2>2, <2>3, <2>5, <2>6
<1>9. CASE Marks
  <2>1. checker.at = "mark" /\ checker'.at = "range" /\ checker.counter \in Counters
    BY <1>1, <1>9, CheckerType DEF Marks, CheckerGoes, CheckerPoints, Ranging
  <2>2. /\ UNCHANGED <<notices, recoveries>>
        /\ failureProcessed'[checker.counter] = TRUE
        /\ \A d \in Counters : d # checker.counter => failureProcessed'[d] = failureProcessed[d]
    BY <1>2, <1>9, <2>1 DEF Marks, history
  <2>3. \A d \in Counters : Marked(d)' = Marked(d)
    BY <2>1, <2>2 DEF Marked
  <2> QED
    BY <1>3, <2>1, <2>2, <2>3
<1>10. CASE /\ \/ RangeStarts \/ (\E i \in Ids : Visit(i)) \/ ChecksFailed
               \/ ReadsSucceeded \/ ReadsFailed
               \/ ClearsProcessed \/ Flushes \/ FlushesSuccess \/ FlushesFailure
               \/ ChecksCounted \/ Alerts \/ Counts
  <2>1. UNCHANGED <<notices, recoveries, failureProcessed>>
    BY <1>10 DEF RangeStarts, Visit, ChecksFailed, ReadsSucceeded, ReadsFailed,
                 ClearsProcessed, Flushes, FlushesSuccess, FlushesFailure, ChecksCounted,
                 Alerts, Counts, fields, history
  <2>2. \/ UNCHANGED checker
        \/ checker.at # "mark" /\ checker'.at # "mark" /\ checker'.at # "notify"
    <3>1. CASE RangeStarts \/ (\E i \in Ids : Visit(i))
      BY <3>1 DEF RangeStarts, Visit
    <3>2. CASE ReadsSucceeded
      BY <1>1, <3>2 DEF ReadsSucceeded, TypeOK
    <3>3. CASE \/ ChecksFailed \/ ReadsFailed
               \/ ClearsProcessed \/ Flushes \/ FlushesSuccess \/ FlushesFailure
               \/ ChecksCounted \/ Alerts \/ Counts
      <4>1. \E from, to \in CheckerPoints :
                /\ from \notin {"range", "mark"} /\ to \notin {"mark", "notify"}
                /\ CheckerGoes(from, to)
        BY <3>3 DEF ChecksFailed, ReadsFailed, ClearsProcessed, Flushes, FlushesSuccess,
                    FlushesFailure, ChecksCounted, Alerts, Counts, CheckerPoints
      <4>2. PICK from, to \in CheckerPoints :
                /\ from \notin {"range", "mark"} /\ to \notin {"mark", "notify"}
                /\ CheckerGoes(from, to)
        BY <4>1
      <4>3. checker'.at = to /\ checker.at = from
        BY <1>1, <4>2, CheckerType DEF CheckerGoes
      <4> QED
        BY <4>2, <4>3
    <3> QED
      BY <1>10, <3>1, <3>2, <3>3
  <2> QED
    BY <1>5, <2>1, <2>2
<1> QED
  BY <1>1, <1>5, <1>6, <1>7, <1>8, <1>9, <1>10, Frames

\* Every step keeps the checker from a second alert.
LEMMA AlertStep == IInv /\ TypeOK' /\ [Next]_vars => AlertInv'
<1> SUFFICES ASSUME IInv, TypeOK', [Next]_vars PROVE AlertInv'
  OBVIOUS
<1>1. TypeOK /\ AlertInv
  BY DEF IInv
<1>2. countersProcessed \in [Counters -> BOOLEAN] /\ alerted \subseteq Counters
  BY <1>1 DEF TypeOK
<1>3. ASSUME UNCHANGED <<alerted, countersProcessed>>,
             \/ UNCHANGED checker
             \/ checker.at # "count" /\ checker'.at # "alert"
      PROVE  AlertInv'
  BY <1>1, <1>3 DEF AlertInv
<1>4. CASE ClearsProcessed
  <2>1. checker.at = "clear" /\ checker'.at = "flush" /\ alerted' = alerted \ {checker.counter}
    BY <1>1, <1>4, CheckerType DEF ClearsProcessed, CheckerGoes, CheckerPoints
  <2>2. \A c \in Counters \ {checker.counter} : countersProcessed'[c] = countersProcessed[c]
    BY <1>2, <1>4 DEF ClearsProcessed
  <2> QED
    BY <1>1, <1>2, <2>1, <2>2 DEF AlertInv
<1>5. CASE ChecksCounted
  <2>1. /\ checker.at = "iscounted" /\ UNCHANGED <<alerted, countersProcessed>>
        /\ checker'.at = "alert" =>
                checker'.counter = checker.counter /\ ~countersProcessed[checker.counter]
    BY <1>1, <1>5, CheckerType
       DEF ChecksCounted, CheckerGoes, fields, history, CheckerPoints, Ranging
  <2> QED
    BY <1>1, <2>1 DEF AlertInv
<1>6. CASE Alerts
  <2>1. /\ checker.at = "alert" /\ checker'.at = "count" /\ checker'.counter = checker.counter
        /\ alerted' = alerted \cup {checker.counter} /\ UNCHANGED countersProcessed
    BY <1>1, <1>6, CheckerType DEF Alerts, CheckerGoes, fields, CheckerPoints
  <2> QED
    BY <1>1, <2>1 DEF AlertInv
<1>7. CASE Counts
  <2>1. checker.at = "count" /\ checker'.at = "range" /\ UNCHANGED alerted
    BY <1>1, <1>7, CheckerType DEF Counts, CheckerGoes, history, CheckerPoints, Ranging
  <2>2. /\ checker.counter \in Counters => countersProcessed'[checker.counter]
        /\ \A c \in Counters \ {checker.counter} : countersProcessed'[c] = countersProcessed[c]
    BY <1>2, <1>7 DEF Counts
  <2> QED
    BY <1>1, <1>2, <2>1, <2>2 DEF AlertInv
<1>8. CASE \/ RangeStarts \/ (\E i \in Ids : Visit(i))
           \/ ChecksFailed \/ ChecksProcessed \/ Notifies \/ Marks
           \/ ReadsSucceeded \/ ReadsFailed \/ Flushes \/ FlushesSuccess \/ FlushesFailure
  <2>1. UNCHANGED <<alerted, countersProcessed>>
    BY <1>8 DEF RangeStarts, Visit, ChecksFailed, ChecksProcessed, Notifies, Marks,
                ReadsSucceeded, ReadsFailed, Flushes, FlushesSuccess, FlushesFailure,
                fields, history
  <2>2. \/ UNCHANGED checker
        \/ checker.at # "count" /\ checker'.at # "alert"
    <3>1. CASE RangeStarts \/ (\E i \in Ids : Visit(i))
      BY <3>1 DEF RangeStarts, Visit
    <3>2. CASE ReadsSucceeded
      BY <1>1, <3>2 DEF ReadsSucceeded, TypeOK
    <3>3. CASE \/ ChecksFailed \/ ChecksProcessed \/ Notifies \/ Marks
               \/ ReadsFailed \/ Flushes \/ FlushesSuccess \/ FlushesFailure
      <4>1. PICK from, to \in CheckerPoints :
                /\ from \notin {"range", "count"} /\ to # "alert"
                /\ CheckerGoes(from, to)
        BY <3>3 DEF ChecksFailed, ChecksProcessed, Notifies, Marks, ReadsFailed, Flushes,
                    FlushesSuccess, FlushesFailure, CheckerPoints
      <4>2. checker'.at = to /\ checker.at = from
        BY <1>1, <4>1, CheckerType DEF CheckerGoes
      <4> QED
        BY <4>1, <4>2
    <3> QED
      BY <1>8, <3>1, <3>2, <3>3
  <2> QED
    BY <1>3, <2>1, <2>2
<1> QED
  BY <1>1, <1>3, <1>4, <1>5, <1>6, <1>7, <1>8, Frames

\* The calls that leave a message without a failure, for a while.
Dealing(h, c) == handler[h].counter = c /\ handler[h].at \in {"fail", "reset", "clear"}

\* Every step keeps stale messages away.
LEMMA MessageStep == IInv /\ TypeOK' /\ [Next]_vars => MessageHasFailure'
<1> SUFFICES ASSUME IInv, TypeOK', [Next]_vars,
                    NEW c \in Counters, msg'[c] # ""
             PROVE  failed'[c] \/ \E h \in Handlers : Dealing(h, c)'
  BY DEF MessageHasFailure, Dealing
<1>1. TypeOK
  BY DEF IInv
<1>2. msg[c] # "" => failed[c] \/ \E h \in Handlers : Dealing(h, c)
  BY DEF IInv, MessageHasFailure, Dealing
<1>3. failed \in [Counters -> BOOLEAN] /\ msg \in [Counters -> Messages \cup {""}]
  BY <1>1 DEF TypeOK
\* A step that keeps what there is of the message, its failure and its calls.
<1>4. ASSUME msg'[c] = msg[c], failed[c] => failed'[c],
             \A h \in Handlers : Dealing(h, c) => Dealing(h, c)'
      PROVE  failed'[c] \/ \E h \in Handlers : Dealing(h, c)'
  BY <1>2, <1>4
<1>5. ASSUME NEW h \in Handlers, HandlerCall(h) \/ GetStores(h)
      PROVE  failed'[c] \/ \E g \in Handlers : Dealing(g, c)'
  <2>1. \A g \in Handlers \ {h} : handler'[g] = handler[g]
    <3>1. handler \in [Handlers -> [at : HandlerPoints, counter : Counters \cup {None},
                                    id : SUBSET Ids]]
      BY <1>1 DEF TypeOK
    <3>2. \E r : handler' = [handler EXCEPT ![h] = r]
      <4>1. ASSUME NEW i \in Ids, GetFinds(h, i)
            PROVE  handler' = [handler EXCEPT ![h] =
                                [handler[h] EXCEPT !.at = "ready", !.counter = m[i]]]
        BY <3>1, <4>1 DEF GetFinds
      <4>2. ASSUME GetStores(h)
            PROVE  handler' = [handler EXCEPT ![h] =
                                [handler[h] EXCEPT !.at = "ready", !.id = {}]]
        BY <3>1, <4>2 DEF GetStores
      <4> QED
        BY <1>5, <4>1, <4>2
           DEF HandlerCall, GetMisses, HitFailure, HitSuccess, FailedStores, Hits
    <3> QED
      BY <3>1, <3>2
  <2>2. handler[h].at \in {"idle", "ready", "construct"}
    BY <1>5 DEF HandlerCall, GetStores, GetFinds, GetMisses, HitFailure, HitSuccess,
                FailedStores, Hits
  <2>3. \A g \in Handlers : Dealing(g, c) => Dealing(g, c)'
    BY <2>1, <2>2 DEF Dealing
  <2>4. UNCHANGED failed
    BY <1>5 DEF HandlerCall, GetStores, GetFinds, GetMisses, HitFailure, HitSuccess,
                FailedStores, fields
  <2>5. CASE msg'[c] = msg[c]
    BY <1>4, <2>3, <2>4, <2>5
  <2>6. CASE msg'[c] # msg[c]
    <3>1. PICK e \in Messages : FailedStores(h, c, e)
      BY <1>3, <1>5, <2>6 DEF HandlerCall, GetStores, GetFinds, GetMisses, HitFailure,
                              HitSuccess, FailedStores, fields
    <3>2. Dealing(h, c)'
      <4>1. PICK to \in HandlerPoints :
                to = "fail" /\ handler[h].counter = c /\ Goes(h, to)
        BY <1>3, <2>6, <3>1 DEF FailedStores, Hits, Goes, HandlerPoints
      <4>2. to # "idle" => handler'[h].at = to /\ handler'[h].counter = c
        BY <1>1, <4>1, HandlerFrame
      <4> QED
        BY <4>1, <4>2 DEF Dealing
    <3> QED
      BY <3>2
  <2> QED
    BY <2>5, <2>6
<1>6. ASSUME NEW h \in Handlers, NEW d \in Counters, NEW from, NEW to \in HandlerPoints,
             HandlerGoes(h, d, from, to)
      PROVE  /\ \A g \in Handlers \ {h} : handler'[g] = handler[g]
             /\ handler[h].at = from /\ handler[h].counter = d
             /\ to # "idle" => handler'[h].at = to /\ handler'[h].counter = d
  BY <1>1, <1>6, GoesFrame
<1>7. "idle" \in HandlerPoints /\ "reset" \in HandlerPoints /\ "clear" \in HandlerPoints
  BY DEF HandlerPoints
<1>8. ASSUME NEW h \in Handlers, NEW d \in Counters,
             CasFails(h, d) \/ CasSwaps(h, d) \/ ResetProcessed(h, d)
      PROVE  failed'[c] \/ \E g \in Handlers : Dealing(g, c)'
  <2>1. UNCHANGED msg
    BY <1>8 DEF CasFails, CasSwaps, ResetProcessed, fields
  <2>2. PICK from, to \in HandlerPoints :
            /\ HandlerGoes(h, d, from, to)
            /\ (from = "cas" /\ to \in {"idle", "reset"}) \/ (from = "reset" /\ to = "clear")
            /\ CasSwaps(h, d) => to = "reset"
    BY <1>8 DEF CasFails, CasSwaps, ResetProcessed, HandlerPoints
  <2>a. /\ \A g \in Handlers \ {h} : handler'[g] = handler[g]
        /\ handler[h].at = from /\ handler[h].counter = d
        /\ to # "idle" => handler'[h].at = to /\ handler'[h].counter = d
    BY <1>1, <2>2, GoesFrame
  <2>3. \A g \in Handlers : Dealing(g, c) => Dealing(g, c)'
    BY <2>2, <2>a DEF Dealing
  <2>4. CASE CasSwaps(h, d)
    <3>1. Dealing(h, d)'
      BY <2>2, <2>4, <2>a DEF Dealing
    <3>2. d # c => failed'[c] = failed[c]
      BY <1>3, <2>4 DEF CasSwaps
    <3> QED
      BY <1>4, <2>1, <2>3, <3>1, <3>2
  <2>5. CASE CasFails(h, d) \/ ResetProcessed(h, d)
    <3>1. UNCHANGED failed
      BY <2>5 DEF CasFails, ResetProcessed, fields
    <3> QED
      BY <1>4, <2>1, <2>3, <3>1
  <2> QED
    BY <1>8, <2>4, <2>5
<1>9. ASSUME NEW h \in Handlers, NEW d \in Counters, ClearMessage(h, d)
      PROVE  failed'[c] \/ \E g \in Handlers : Dealing(g, c)'
  <2>1. d # c /\ msg'[c] = msg[c] /\ UNCHANGED failed
    BY <1>3, <1>9 DEF ClearMessage
  <2>2. \A g \in Handlers : Dealing(g, c) => Dealing(g, c)'
    <3>1. HandlerGoes(h, d, "clear", "idle")
      BY <1>9 DEF ClearMessage
    <3>2. handler[h].counter = d /\ \A g \in Handlers \ {h} : handler'[g] = handler[g]
      BY <1>1, <1>7, <3>1, GoesFrame
    <3> QED
      BY <2>1, <3>2 DEF Dealing
  <2> QED
    BY <1>4, <2>1, <2>2
<1>10. ASSUME NEW h \in Handlers, NEW d \in Counters, FailedSets(h, d)
       PROVE  failed'[c] \/ \E g \in Handlers : Dealing(g, c)'
  <2>1. UNCHANGED msg /\ failed'[d] /\ (failed[c] => failed'[c])
    BY <1>3, <1>10 DEF FailedSets
  <2>2. d # c => \A g \in Handlers : Dealing(g, c) => Dealing(g, c)'
    <3>1. HandlerGoes(h, d, "fail", "idle")
      BY <1>10 DEF FailedSets
    <3>2. handler[h].counter = d /\ \A g \in Handlers \ {h} : handler'[g] = handler[g]
      BY <1>1, <1>7, <3>1, GoesFrame
    <3> QED
      BY <3>2 DEF Dealing
  <2> QED
    BY <1>4, <2>1, <2>2
<1>11. CASE (\E i \in Removable : Remove(i)) \/ CheckerStep \/ UNCHANGED vars
  <2>1. UNCHANGED <<handler, failed, msg>>
    BY <1>11 DEF Remove, vars, fields, CheckerStep, RangeStarts, Visit, ChecksFailed,
                 ChecksProcessed, Notifies, Marks, ReadsSucceeded, ReadsFailed, ClearsProcessed,
                 Flushes, FlushesSuccess, FlushesFailure, ChecksCounted, Alerts, Counts,
                 CheckerGoes
  <2> QED
    BY <1>4, <2>1 DEF Dealing
<1> QED
  BY <1>5, <1>8, <1>9, <1>10, <1>11 DEF Next, HandlerStep

-----------------------------------------------------------------------------
(* The theorems. *)

\* The strengthened invariant always holds.
THEOREM Inductive == Spec => []IInv
<1>1. IInv /\ [Next]_vars => IInv'
  <2> SUFFICES ASSUME IInv, [Next]_vars PROVE IInv'
    OBVIOUS
  <2>1. TypeOK'
    BY TypeStep DEF IInv
  <2> QED
    BY <2>1, NoticeStep, AlertStep, MessageStep DEF IInv
<1> QED
  BY <1>1, InitIInv, PTL DEF Spec

\* The fields of counters, handlers and checker keep their types; no call is
\* made on a counter that is not there (storage.go:18-38).
THEOREM TypeCorrect == Spec => []TypeOK
<1>1. IInv => TypeOK
  BY DEF IInv
<1> QED
  BY <1>1, Inductive, PTL

\* Administrators are told of a failure once, and of a bad ratio once, however
\* requests interleave with the checker (processor.go:30-87).
THEOREM NoAlertStormCorrect == Spec => []NoAlertStorm
<1>1. IInv => NoAlertStorm
  <2> SUFFICES ASSUME IInv PROVE NoAlertStorm
    OBVIOUS
  <2>1. ASSUME NEW c \in Counters
        PROVE  notices[c] <= 1 + recoveries[c]
    <3>1. recoveries[c] \in Nat /\ notices[c] \in Nat
      BY DEF IInv, TypeOK
    <3>2. notices[c] <= recoveries[c] + (IF Marked(c) THEN 1 ELSE 0)
      BY DEF IInv, NoticeInv
    <3> QED
      BY <3>1, <3>2
  <2> QED
    BY <2>1 DEF NoAlertStorm, IInv, AlertInv
<1> QED
  BY <1>1, Inductive, PTL

\* A message stays behind only with its failure, whichever of Failed and
\* HitSuccess overtake each other (counter.go:48-54 and 68-71).
THEOREM MessageCorrect == Spec => []MessageHasFailure
<1>1. IInv => MessageHasFailure
  BY DEF IInv
<1> QED
  BY <1>1, Inductive, PTL
=============================================================================
