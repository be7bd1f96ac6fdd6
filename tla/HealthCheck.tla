----------------------------- MODULE HealthCheck -----------------------------
(***************************************************************************)
(* Health counters (src/core/healthcheck): request handlers find a counter *)
(* of a connection in SyncMapStorage and hit it; a checker ranges over the *)
(* storage with CounterProcessor and notifies the administrators.          *)
(*                                                                         *)
(* A counter is the number of its construction.  Its fields are atomics,   *)
(* and no lock joins them: every load, store and compare-and-swap is a     *)
(* step of its own.                                                        *)
(***************************************************************************)
EXTENDS Integers, FiniteSets

CONSTANTS
    Ids,            \* connections
    Known,          \* those ConnectionDataProvider knows
    Removable,      \* those whose counter is removed at times
    Handlers,       \* goroutines that serve requests
    Messages,       \* error messages
    MaxCounters,    \* bounds how many counters are constructed
    MaxHits,        \* bounds how many calls of HitSuccess, HitFailure and Failed
    MinRequests,
    Num, Den        \* FailureThreshold is Num / Den

ASSUME HealthAssumption ==
    /\ Known \subseteq Ids /\ Removable \subseteq Ids
    /\ "" \notin Messages
    /\ MaxCounters \in Nat /\ MaxHits \in Nat /\ MinRequests \in Nat
    /\ Num \in Nat /\ Den \in Nat \ {0}

Counters == 1..MaxCounters
None == 0       \* no counter

VARIABLES
    m,          \* the counter stored for an id, or None
    created,    \* how many counters were constructed
    \* the fields of each AtomicCounter
    success, failure, failed, failureProcessed, countersProcessed, msg,
    \* the goroutines
    handler,    \* where a handler is, its counter, and the id it stores it for
    checker,    \* where the checker is, its counter, is its id known, its first reading
    todo,       \* the ids that Range has yet to visit
    \* history
    hits,       \* how often counters were hit
    notices,    \* how often the failure of a counter was notified
    recoveries, \* how often HitSuccess cleared the mark of a failure
    alerted,    \* the counters whose ratio was notified since it was good last
    noticed     \* the counters whose last failure was notified

fields == <<success, failure, failed, failureProcessed, countersProcessed, msg>>
history == <<notices, recoveries, alerted, noticed>>
vars == <<m, created, fields, handler, checker, todo, hits, history>>

HandlerPoints == {"idle", "ready", "construct", "cas", "reset", "clear", "fail"}
CheckerPoints == {"range", "isfailed", "isprocessed", "notify", "mark", "succeeded", "failed",
                  "clear", "flush", "success0", "failure0", "iscounted", "alert", "count"}

\* The types; a step inside a call is made on some counter.
TypeOK ==
    /\ m \in [Ids -> Counters \cup {None}]
    /\ created \in 0..MaxCounters
    /\ success \in [Counters -> Nat] /\ failure \in [Counters -> Nat]
    /\ failed \in [Counters -> BOOLEAN]
    /\ failureProcessed \in [Counters -> BOOLEAN]
    /\ countersProcessed \in [Counters -> BOOLEAN]
    /\ msg \in [Counters -> Messages \cup {""}]
    /\ handler \in [Handlers -> [at : HandlerPoints, counter : Counters \cup {None},
                                 id : SUBSET Ids]]
    /\ checker \in [at : CheckerPoints, counter : Counters \cup {None}, known : BOOLEAN,
                    succeeded : Nat]
    /\ todo \subseteq Ids
    /\ hits \in 0..MaxHits
    /\ notices \in [Counters -> Nat] /\ recoveries \in [Counters -> Nat]
    /\ alerted \subseteq Counters /\ noticed \subseteq Counters
    /\ \A h \in Handlers :
        handler[h].at = "idle" <=> handler[h].counter = None
    /\ checker.at # "range" => checker.counter # None

\* A handler between two calls, the checker between two counters.
Idle == [at |-> "idle", counter |-> None, id |-> {}]
Ranging == [at |-> "range", counter |-> None, known |-> FALSE, succeeded |-> 0]

Init ==
    /\ m = [i \in Ids |-> None]
    /\ created = 0
    /\ success = [c \in Counters |-> 0] /\ failure = success
    /\ failed = [c \in Counters |-> FALSE]
    /\ failureProcessed = failed /\ countersProcessed = failed
    /\ msg = [c \in Counters |-> ""]
    /\ handler = [h \in Handlers |-> Idle]
    /\ checker = Ranging
    /\ todo = {}
    /\ hits = 0
    /\ notices = success /\ recoveries = success
    /\ alerted = {} /\ noticed = {}

-----------------------------------------------------------------------------
(* SyncMapStorage. *)

\* Get finds the counter.
GetFinds(h, i) ==
    /\ handler[h].at = "idle"
    /\ m[i] # None
    /\ handler' = [handler EXCEPT ![h].at = "ready", ![h].counter = m[i]]
    /\ UNCHANGED <<m, created, fields, checker, todo, hits, history>>

\* It does not, and constructs one.
GetMisses(h, i) ==
    /\ handler[h].at = "idle"
    /\ m[i] = None
    /\ created < MaxCounters
    /\ created' = created + 1
    /\ handler' = [handler EXCEPT ![h] = [at |-> "construct", counter |-> created', id |-> {i}]]
    /\ UNCHANGED <<m, fields, checker, todo, hits, history>>

\* m.Store, whoever stored another one meanwhile.
GetStores(h) ==
    /\ handler[h].at = "construct"
    /\ m' = [i \in Ids |-> IF i \in handler[h].id THEN handler[h].counter ELSE m[i]]
    /\ handler' = [handler EXCEPT ![h].at = "ready", ![h].id = {}]
    /\ UNCHANGED <<created, fields, checker, todo, hits, history>>

Remove(i) ==
    /\ m' = [m EXCEPT ![i] = None]
    /\ UNCHANGED <<created, fields, handler, checker, todo, hits, history>>

-----------------------------------------------------------------------------
(* AtomicCounter, by the handlers. *)

\* A call on the counter that Get returned begins.
Hits(h, c, to) ==
    /\ handler[h].at = "ready"
    /\ handler[h].counter = c
    /\ hits < MaxHits
    /\ hits' = hits + 1
    /\ handler' = [handler EXCEPT ![h] = IF to = "idle" THEN Idle ELSE [@ EXCEPT !.at = to]]

\* It goes on, and returns when it is "idle".
HandlerGoes(h, c, from, to) ==
    /\ handler[h].at = from
    /\ handler[h].counter = c
    /\ handler' = [handler EXCEPT ![h] = IF to = "idle" THEN Idle ELSE [@ EXCEPT !.at = to]]
    /\ UNCHANGED <<m, created, checker, todo, hits>>

HitFailure(h, c) ==
    /\ Hits(h, c, "idle")
    /\ failure' = [failure EXCEPT ![c] = @ + 1]
    /\ UNCHANGED <<m, created, success, failed, failureProcessed, countersProcessed, msg,
                   checker, todo, history>>

\* HitSuccess: success.Add.
HitSuccess(h, c) ==
    /\ Hits(h, c, "cas")
    /\ success' = [success EXCEPT ![c] = @ + 1]
    /\ UNCHANGED <<m, created, failure, failed, failureProcessed, countersProcessed, msg,
                   checker, todo, history>>

\* failed.CompareAndSwap(true, false) does nothing.
CasFails(h, c) ==
    /\ ~failed[c]
    /\ HandlerGoes(h, c, "cas", "idle")
    /\ UNCHANGED <<fields, history>>

\* It clears the failure.
CasSwaps(h, c) ==
    /\ failed[c]
    /\ HandlerGoes(h, c, "cas", "reset")
    /\ failed' = [failed EXCEPT ![c] = FALSE]
    /\ UNCHANGED <<success, failure, failureProcessed, countersProcessed, msg, history>>

\* Faulty: the message stays.
KeepsMessage(h, c) ==
    /\ HandlerGoes(h, c, "reset", "idle")
    /\ failureProcessed' = [failureProcessed EXCEPT ![c] = FALSE]
    /\ recoveries' = [recoveries EXCEPT ![c] = @ + 1]
    /\ UNCHANGED <<success, failure, failed, countersProcessed, msg,
                   notices, alerted, noticed>>

\* failureProcessed.Store(false).
ResetProcessed(h, c) ==
    /\ HandlerGoes(h, c, "reset", "clear")
    /\ failureProcessed' = [failureProcessed EXCEPT ![c] = FALSE]
    /\ recoveries' = [recoveries EXCEPT ![c] = @ + 1]
    /\ UNCHANGED <<success, failure, failed, countersProcessed, msg,
                   notices, alerted, noticed>>

\* msg.Store("").
ClearMessage(h, c) ==
    /\ HandlerGoes(h, c, "clear", "idle")
    /\ msg' = [msg EXCEPT ![c] = ""]
    /\ UNCHANGED <<success, failure, failed, failureProcessed, countersProcessed, history>>

\* Failed: msg.Store(message).
FailedStores(h, c, e) ==
    /\ Hits(h, c, "fail")
    /\ msg' = [msg EXCEPT ![c] = e]
    /\ noticed' = IF failed[c] THEN noticed ELSE noticed \ {c}
    /\ UNCHANGED <<m, created, success, failure, failed, failureProcessed, countersProcessed,
                   checker, todo, notices, recoveries, alerted>>

\* failed.Store(true).
FailedSets(h, c) ==
    /\ HandlerGoes(h, c, "fail", "idle")
    /\ failed' = [failed EXCEPT ![c] = TRUE]
    /\ UNCHANGED <<success, failure, failureProcessed, countersProcessed, msg, history>>

-----------------------------------------------------------------------------
(* SyncMapStorage.Process and CounterProcessor.Process. *)

CheckerGoes(from, to) ==
    /\ checker.at = from
    /\ checker' = IF to = "range" THEN Ranging ELSE [checker EXCEPT !.at = to]
    /\ UNCHANGED <<m, created, handler, todo, hits>>

RangeStarts ==
    /\ checker.at = "range"
    /\ todo = {}
    /\ todo' = {i \in Ids : m[i] # None}
    /\ UNCHANGED <<m, created, fields, handler, checker, hits, history>>

\* Faulty: the counter of an id that was removed meanwhile is processed.
VisitsRemoved(i) ==
    /\ checker.at = "range"
    /\ i \in todo
    /\ todo' = todo \ {i}
    /\ checker' = [at |-> "isfailed", counter |-> m[i], known |-> i \in Known, succeeded |-> 0]
    /\ UNCHANGED <<m, created, fields, handler, hits, history>>

\* Range comes to an id, whose counter may have been removed or replaced.
Visit(i) ==
    /\ checker.at = "range"
    /\ i \in todo
    /\ todo' = todo \ {i}
    /\ checker' = IF m[i] = None THEN checker
                  ELSE [at |-> "isfailed", counter |-> m[i], known |-> i \in Known, succeeded |-> 0]
    /\ UNCHANGED <<m, created, fields, handler, hits, history>>

ChecksFailed ==
    /\ CheckerGoes("isfailed", IF failed[checker.counter] THEN "isprocessed" ELSE "succeeded")
    /\ UNCHANGED <<fields, history>>

\* Faulty: Process returns false for an unknown connection, which ends Range.
UnknownEndsRange ==
    /\ checker.at = "isprocessed"
    /\ IF failureProcessed[checker.counter] \/ ~checker.known
       THEN /\ checker' = Ranging
            /\ todo' = IF checker.known THEN todo ELSE {}
       ELSE /\ checker' = [checker EXCEPT !.at = "notify"]
            /\ todo' = todo
    /\ UNCHANGED <<m, created, fields, handler, hits, history>>

\* IsFailureProcessed, and ConnectionDataProvider if it is not.
ChecksProcessed ==
    /\ CheckerGoes("isprocessed",
            IF failureProcessed[checker.counter] \/ ~checker.known
            THEN "range" ELSE "notify")
    /\ UNCHANGED <<fields, history>>

\* Message and Notifier, whose error is only logged.
Notifies ==
    /\ CheckerGoes("notify", "mark")
    /\ notices' = [notices EXCEPT ![checker.counter] = @ + 1]
    /\ noticed' = noticed \cup {checker.counter}
    /\ UNCHANGED <<fields, recoveries, alerted>>

\* Faulty: a failure is not marked when the notification was not sent.
MarksOnSuccess ==
    /\ CheckerGoes("mark", "range")
    /\ \E sent \in BOOLEAN :
        failureProcessed' = [failureProcessed EXCEPT ![checker.counter] = sent]
    /\ UNCHANGED <<success, failure, failed, countersProcessed, msg, history>>

\* FailureProcessed.
Marks ==
    /\ CheckerGoes("mark", "range")
    /\ failureProcessed' = [failureProcessed EXCEPT ![checker.counter] = TRUE]
    /\ UNCHANGED <<success, failure, failed, countersProcessed, msg, history>>

ReadsSucceeded ==
    /\ checker.at = "succeeded"
    /\ checker' = [checker EXCEPT !.at = "failed", !.succeeded = success[checker.counter]]
    /\ UNCHANGED <<m, created, fields, handler, todo, hits, history>>

\* The threshold on two readings; 0/0 is NaN, which is not >= anything.
Healthy(s, f) == s + f > 0 /\ s * Den >= Num * (s + f)

\* TotalFailed, read after TotalSucceeded, and what follows from the two.
ReadsFailed ==
    LET s == checker.succeeded
        f == failure[checker.counter]
    IN /\ CheckerGoes("failed",
            IF s + f < MinRequests THEN "range"
            ELSE IF Healthy(s, f) THEN "clear" ELSE "iscounted")
       /\ UNCHANGED <<fields, history>>

\* ClearCountersProcessed.
ClearsProcessed ==
    /\ CheckerGoes("clear", "flush")
    /\ countersProcessed' = [countersProcessed EXCEPT ![checker.counter] = FALSE]
    /\ alerted' = alerted \ {checker.counter}
    /\ UNCHANGED <<success, failure, failed, failureProcessed, msg,
                   notices, recoveries, noticed>>

\* FlushCounters, within resetPeriod of the last flush or after it.
Flushes ==
    /\ \E to \in {"range", "success0"} : CheckerGoes("flush", to)
    /\ UNCHANGED <<fields, history>>
FlushesSuccess ==
    /\ CheckerGoes("success0", "failure0")
    /\ success' = [success EXCEPT ![checker.counter] = 0]
    /\ UNCHANGED <<failure, failed, failureProcessed, countersProcessed, msg, history>>
FlushesFailure ==
    /\ CheckerGoes("failure0", "range")
    /\ failure' = [failure EXCEPT ![checker.counter] = 0]
    /\ UNCHANGED <<success, failed, failureProcessed, countersProcessed, msg, history>>

\* IsCountersProcessed, and ConnectionDataProvider if they are not.
ChecksCounted ==
    /\ CheckerGoes("iscounted",
            IF countersProcessed[checker.counter] \/ ~checker.known
            THEN "range" ELSE "alert")
    /\ UNCHANGED <<fields, history>>

\* getErrorText and Notifier.
Alerts ==
    /\ CheckerGoes("alert", "count")
    /\ alerted' = alerted \cup {checker.counter}
    /\ UNCHANGED <<fields, notices, recoveries, noticed>>

\* CountersProcessed.
Counts ==
    /\ CheckerGoes("count", "range")
    /\ countersProcessed' = [countersProcessed EXCEPT ![checker.counter] = TRUE]
    /\ UNCHANGED <<success, failure, failed, failureProcessed, msg, history>>

-----------------------------------------------------------------------------
HandlerCall(h) ==
    \/ \E i \in Ids : GetFinds(h, i) \/ GetMisses(h, i)
    \/ \E c \in Counters :
        HitFailure(h, c) \/ HitSuccess(h, c) \/ \E e \in Messages : FailedStores(h, c, e)

HandlerStep(h) ==
    \/ GetStores(h)
    \/ \E c \in Counters :
        \/ CasFails(h, c) \/ CasSwaps(h, c) \/ ResetProcessed(h, c) \/ ClearMessage(h, c)
        \/ FailedSets(h, c)

CheckerStep ==
    \/ RangeStarts \/ \E i \in Ids : Visit(i)
    \/ ChecksFailed \/ ChecksProcessed \/ Notifies \/ Marks
    \/ ReadsSucceeded \/ ReadsFailed
    \/ ClearsProcessed \/ Flushes \/ FlushesSuccess \/ FlushesFailure
    \/ ChecksCounted \/ Alerts \/ Counts

Next ==
    \/ \E h \in Handlers : HandlerCall(h) \/ HandlerStep(h)
    \/ \E i \in Removable : Remove(i)
    \/ CheckerStep

Spec == Init /\ [][Next]_vars

\* The checker is run again and again, its ConnectionDataProvider and Notifier
\* come back, and handlers that are in a call go on.
FairSpec ==
    /\ Spec
    /\ WF_vars(CheckerStep)
    /\ \A h \in Handlers : WF_vars(HandlerStep(h))

-----------------------------------------------------------------------------
(* Properties. *)

\* Administrators are told of a failure once: each further notice about a
\* counter takes a success that cleared the failure, and each further alert
\* about its ratio takes a good ratio in between, however requests interleave
\* with the checker (counter.go:48-54, processor.go:32-47 and 60-83).
NoAlertStorm ==
    /\ \A c \in Counters : notices[c] <= 1 + recoveries[c]
    /\ checker.at = "alert" => checker.counter \notin alerted

\* A message stays behind only with the failure it is about, or while a call
\* that will deal with it is under way, whichever of Failed and HitSuccess
\* overtake each other (counter.go:50-53 and 68-71).
MessageHasFailure ==
    \A c \in Counters : msg[c] # "" =>
        \/ failed[c]
        \/ \E h \in Handlers :
            handler[h].counter = c /\ handler[h].at \in {"fail", "reset", "clear"}

\* A failure of a known connection is dealt with, whatever is wrong with the
\* other connections in the storage: it is marked as processed, unless a
\* success clears it or the counter is removed first (processor.go:30-48,
\* storage.go:34-38).
FailureIsProcessed ==
    \A i \in Known, c \in Counters :
        m[i] = c /\ failed[c] ~> m[i] # c \/ ~failed[c] \/ failureProcessed[c]

\* "IsFailureProcessed will return true if current error inside counter has
\* been processed already" (iface.go): of a failure that the checker skips as
\* processed the administrators have been told.
ProcessedMeansNoticed ==
    \A c \in Counters : failed[c] /\ failureProcessed[c] => c \in noticed
=============================================================================
