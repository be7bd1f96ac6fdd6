--------------------------- MODULE BeanstalkQueue ---------------------------
(***************************************************************************)
(* The queue on beanstalkd (src/core/queue/beanstalk): Put on one          *)
(* connection, the tube; Process and finishJob on another, the tube set;   *)
(* both are reconnected on errors, and Shutdown closes them.               *)
(*                                                                         *)
(* The server is external.  It hands a ready job to a connection, which    *)
(* has it reserved until it deletes the job, the job's time to run is      *)
(* over, or the connection ends.  An error of a call is a net.Error, or it *)
(* is not (io.EOF): isNetConnErr tells the two apart.                      *)
(***************************************************************************)
EXTENDS Integers, FiniteSets

CONSTANTS
    Putters,    \* goroutines that call Put
    Finishers,  \* bounds the goroutines of the processor function alive at once
    MaxJobs,    \* bounds the jobs that the server accepts
    MaxBreaks,  \* bounds how many connections break
    Free        \* sendLock and recvLock when nobody holds them

ASSUME BeanstalkAssumption ==
    /\ MaxJobs \in Nat /\ MaxBreaks \in Nat
    /\ Free \notin Putters \cup Finishers

Jobs == 1..MaxJobs
None == 0       \* no job

VARIABLES
    \* Queue and Manager
    stop,
    sendLock,
    writer,     \* who holds recvLock for writing, or waits for its readers to leave
    readers,    \* who holds it for reading
    leaked,     \* it was not given up by a reader that has returned
    tubeUp,     \* the connection of the tube works
    tubeSet,    \* how the connection of the tube set is
    \* the goroutines
    put,        \* where a caller of Put is
    process,    \* where Process is
    fin,        \* where a processor or its finishJob is, and its job
    shutdown,   \* where Shutdown is
    \* the server and the network
    job,        \* each job: "held" is reserved by the connection of the tube set,
                \* "leaked" by one that a tube set had and nobody closed
    breaks,     \* how many broke
    \* history
    finished,   \* the jobs whose processor called done
    late        \* Shutdown began when a reconnection had looked at stop

locks == <<sendLock, writer, readers, leaked>>
server == <<job, breaks>>
history == <<finished, late>>
vars == <<stop, locks, tubeUp, tubeSet, put, process, fin, shutdown, server, history>>

PutPoints == {"idle", "send", "sent", "cut", "lock", "close", "dial"}
FinPoints == {"off", "work", "rlock", "delete", "lock", "wait", "close", "dial"}
JobStates == {"unmade", "ready", "held", "leaked", "gone"}

\* The types; locks are held by goroutines that are inside; only a connection
\* that is up has jobs reserved.
TypeOK ==
    /\ stop \in BOOLEAN /\ leaked \in BOOLEAN /\ late \in BOOLEAN
    /\ sendLock \in Putters \cup {Free}
    /\ writer \in Finishers \cup {Free}
    /\ readers \subseteq Finishers
    /\ tubeUp \in BOOLEAN
    /\ tubeSet \in {"up", "closed", "broken"}
    /\ put \in [Putters -> PutPoints]
    /\ process \in {"get", "check", "close", "dial", "done"}
    /\ fin \in [Finishers -> [at : FinPoints, job : Jobs \cup {None}]]
    /\ shutdown \in {"no", "tube", "tubeset", "done"}
    /\ job \in [Jobs -> JobStates]
    /\ breaks \in 0..MaxBreaks
    /\ finished \subseteq Jobs
    /\ \A p \in Putters : put[p] \in {"close", "dial"} <=> sendLock = p
    /\ \A f \in Finishers :
        /\ fin[f].at \in {"wait", "close", "dial"} <=> writer = f
        /\ fin[f].at = "delete" <=> f \in readers
    /\ (\E f \in Finishers : fin[f].at \in {"close", "dial"}) => readers = {}
    /\ (\E j \in Jobs : job[j] = "held") => tubeSet = "up"

\* New: CreateTubes has made both connections.
Init ==
    /\ stop = FALSE
    /\ sendLock = Free /\ writer = Free /\ readers = {} /\ leaked = FALSE
    /\ tubeUp = TRUE /\ tubeSet = "up"
    /\ put = [p \in Putters |-> "idle"]
    /\ process = "get"
    /\ fin = [f \in Finishers |-> [at |-> "off", job |-> None]]
    /\ shutdown = "no"
    /\ job = [j \in Jobs |-> "unmade"]
    /\ breaks = 0
    /\ finished = {} /\ late = FALSE

-----------------------------------------------------------------------------
(* The connections. *)

\* The tube goes down, under the calls that wait for an answer on it.
TubeGoesDown ==
    /\ tubeUp' = FALSE
    /\ put' = [p \in Putters |->
                IF put[p] = "sent" THEN "cut" ELSE put[p]]

\* What the connection of the tube set has reserved becomes something else.
Held(becomes) == [j \in Jobs |-> IF job[j] = "held" THEN becomes ELSE job[j]]

\* It goes down, and the server releases its jobs.
TubeSetGoes(down) ==
    /\ tubeSet' = down
    /\ job' = Held("ready")

\* CloseTubeSet.
ClosesTubeSet == TubeSetGoes("closed")

\* ReconnectTubeSet, once beanstalkd can be reached: a new connection takes the
\* place of the one there is now, which may be another than was closed.
ConnectsTubeSet ==
    /\ tubeSet' = "up"
    /\ job' = Held("leaked")

-----------------------------------------------------------------------------
(* Put. *)

PutGoes(p, from, to) ==
    /\ put[p] = from
    /\ put' = [put EXCEPT ![p] = to]

PutReturns(p) == put' = [put EXCEPT ![p] = "idle"]

putUnchanged == <<stop, writer, readers, leaked, tubeSet, process, fin, shutdown, breaks,
                  finished, late>>

PutCalls(p) ==
    /\ PutGoes(p, "idle", "send")
    /\ UNCHANGED <<putUnchanged, sendLock, tubeUp, job>>

\* The server makes a job; its answer is under way.
PutSends(p) ==
    /\ PutGoes(p, "send", "sent")
    /\ tubeUp
    /\ \E j \in Jobs :
        /\ \A i \in Jobs : i < j <=> job[i] # "unmade"
        /\ job' = [job EXCEPT ![j] = "ready"]
    /\ UNCHANGED <<putUnchanged, sendLock, tubeUp>>

\* The server refuses it (OUT_OF_MEMORY), which is no net.Error.
PutRefused(p) ==
    /\ put[p] = "send"
    /\ tubeUp
    /\ \A j \in Jobs : job[j] # "unmade"
    /\ PutReturns(p)
    /\ UNCHANGED <<putUnchanged, sendLock, tubeUp, job>>

PutAccepted(p) ==
    /\ put[p] = "sent"
    /\ PutReturns(p)
    /\ UNCHANGED <<putUnchanged, sendLock, tubeUp, job>>

\* The connection is down.
PutCut(p) ==
    /\ ~tubeUp
    /\ PutGoes(p, "send", "cut")
    /\ UNCHANGED <<putUnchanged, sendLock, tubeUp, job>>

\* The error is a net.Error, after which Put looks at stop and returns "queue
\* was stopped" or reconnects; or, if the server ended the connection, io.EOF,
\* which Put returns.
PutFails(p) ==
    /\ \/ PutGoes(p, "cut", IF stop THEN "idle" ELSE "lock")
       \/ PutGoes(p, "cut", "idle")
    /\ UNCHANGED <<putUnchanged, sendLock, tubeUp, job>>

PutLocks(p) ==
    /\ sendLock = Free
    /\ PutGoes(p, "lock", "close")
    /\ sendLock' = p
    /\ UNCHANGED <<putUnchanged, tubeUp, job>>

\* ReconnectTube: CloseTube, under the calls of others.
PutCloses(p) ==
    /\ put[p] = "close"
    /\ tubeUp' = FALSE
    /\ put' = [q \in Putters |->
                IF q = p THEN "dial" ELSE IF put[q] = "sent" THEN "cut" ELSE put[q]]
    /\ UNCHANGED <<putUnchanged, sendLock, job>>

\* It has a connection, and puts the job again; the server may have it already.
PutConnects(p) ==
    /\ PutGoes(p, "dial", "send")
    /\ tubeUp' = TRUE
    /\ sendLock' = Free
    /\ UNCHANGED <<putUnchanged, job>>

-----------------------------------------------------------------------------
(* Process. *)

processUnchanged == <<stop, locks, tubeUp, put, shutdown, breaks, history>>

\* Faulty: a job is off the server when its processor starts.
ProcessTakes(f, j) ==
    /\ process = "get"
    /\ tubeSet = "up"
    /\ job[j] = "ready"
    /\ fin[f].at = "off"
    /\ job' = [job EXCEPT ![j] = "gone"]
    /\ fin' = [fin EXCEPT ![f] = [at |-> "work", job |-> j]]
    /\ UNCHANGED <<processUnchanged, tubeSet, process>>

\* GetJob has a job, and a goroutine for it starts.
ProcessGets(f, j) ==
    /\ process = "get"
    /\ tubeSet = "up"
    /\ job[j] = "ready"
    /\ fin[f].at = "off"
    /\ job' = [job EXCEPT ![j] = "held"]
    /\ fin' = [fin EXCEPT ![f] = [at |-> "work", job |-> j]]
    /\ UNCHANGED <<processUnchanged, tubeSet, process>>

\* GetJob fails: the connection is down, or the time to run of a job that it
\* has reserved is nearly over (DEADLINE_SOON).  ErrTimeout changes nothing.
ProcessFails ==
    /\ process = "get"
    /\ \/ tubeSet # "up"
       \/ (\E j \in Jobs : job[j] = "held") /\ (\A j \in Jobs : job[j] # "ready")
    /\ process' = "check"
    /\ UNCHANGED <<processUnchanged, tubeSet, fin, job>>

\* Faulty: stop is not looked at.
ProcessIgnoresStop ==
    /\ process = "check"
    /\ process' = "close"
    /\ UNCHANGED <<processUnchanged, tubeSet, fin, job>>

\* Faulty: Process gives up at an error.
ProcessGivesUp ==
    /\ process = "check"
    /\ process' = "done"
    /\ UNCHANGED <<processUnchanged, tubeSet, fin, job>>

ProcessChecksStop ==
    /\ process = "check"
    /\ process' = IF stop THEN "done" ELSE "close"
    /\ UNCHANGED <<processUnchanged, tubeSet, fin, job>>

ProcessCloses ==
    /\ process = "close"
    /\ process' = "dial"
    /\ ClosesTubeSet
    /\ UNCHANGED <<processUnchanged, fin>>

ProcessConnects ==
    /\ process = "dial"
    /\ process' = "get"
    /\ ConnectsTubeSet
    /\ UNCHANGED <<processUnchanged, fin>>

-----------------------------------------------------------------------------
(* The processor of a job, and finishJob. *)

FinGoes(f, from, to) ==
    /\ fin[f].at = from
    /\ fin' = [fin EXCEPT ![f] = [at |-> to, job |-> IF to = "off" THEN None ELSE fin[f].job]]

finUnchanged == <<stop, sendLock, tubeUp, put, process, shutdown, breaks, late>>

\* The processor calls done, or comes back without.
Works(f) ==
    /\ \/ FinGoes(f, "work", "rlock") /\ finished' = finished \cup {fin[f].job}
       \/ FinGoes(f, "work", "off") /\ finished' = finished
    /\ UNCHANGED <<finUnchanged, writer, readers, leaked, tubeSet, job>>

\* A writer keeps readers out from when it waits for the lock.
RLocks(f) ==
    /\ FinGoes(f, "rlock", "delete")
    /\ writer = Free
    /\ readers' = readers \cup {f}
    /\ UNCHANGED <<finUnchanged, writer, leaked, tubeSet, job, finished>>

\* DeleteJob is answered.  A job that another connection has reserved is
\* NOT_FOUND, which ends finishJob too.
Deletes(f) ==
    /\ tubeSet = "up"
    /\ FinGoes(f, "delete", "off")
    /\ readers' = readers \ {f}
    /\ job' = [job EXCEPT ![fin[f].job] = IF @ \in {"ready", "held"} THEN "gone" ELSE @]
    /\ UNCHANGED <<finUnchanged, writer, leaked, tubeSet, finished>>

\* DeleteJob fails, with a net.Error, and a stopped queue is left with recvLock
\* held; or, when the connection broke, perhaps with another error.
DeleteFails(f) ==
    /\ tubeSet # "up"
    /\ \/ /\ FinGoes(f, "delete", IF stop THEN "off" ELSE "lock")
          /\ leaked' = (leaked \/ stop)
       \/ /\ tubeSet = "broken"
          /\ FinGoes(f, "delete", "off")
          /\ leaked' = leaked
    /\ readers' = readers \ {f}
    /\ UNCHANGED <<finUnchanged, writer, tubeSet, job, finished>>

\* It waits for recvLock behind other writers, then for the readers.
Locks(f) ==
    /\ FinGoes(f, "lock", "wait")
    /\ writer = Free
    /\ writer' = f
    /\ UNCHANGED <<finUnchanged, readers, leaked, tubeSet, job, finished>>

\* Faulty: it does not wait for the readers.
ReadersStay(f) ==
    /\ FinGoes(f, "wait", "close")
    /\ UNCHANGED <<finUnchanged, writer, readers, leaked, tubeSet, job, finished>>

ReadersLeft(f) ==
    /\ FinGoes(f, "wait", "close")
    /\ readers = {} /\ ~leaked
    /\ UNCHANGED <<finUnchanged, writer, readers, leaked, tubeSet, job, finished>>

FinCloses(f) ==
    /\ FinGoes(f, "close", "dial")
    /\ ClosesTubeSet
    /\ UNCHANGED <<finUnchanged, writer, readers, leaked, finished>>

FinConnects(f) ==
    /\ FinGoes(f, "dial", "rlock")
    /\ ConnectsTubeSet
    /\ writer' = Free
    /\ UNCHANGED <<finUnchanged, readers, leaked, finished>>

-----------------------------------------------------------------------------
(* Shutdown. *)

shutdownUnchanged == <<locks, process, fin, breaks, finished>>

SetsStop ==
    /\ shutdown = "no"
    /\ shutdown' = "tube"
    /\ stop' = TRUE
    /\ late' = \/ process \in {"close", "dial"}
               \/ \E f \in Finishers : fin[f].at \in {"lock", "wait", "close", "dial"}
    /\ UNCHANGED <<shutdownUnchanged, tubeUp, put, tubeSet, job>>

ShutdownClosesTube ==
    /\ shutdown = "tube"
    /\ shutdown' = "tubeset"
    /\ TubeGoesDown
    /\ UNCHANGED <<shutdownUnchanged, stop, tubeSet, job, late>>

ShutdownClosesTubeSet ==
    /\ shutdown = "tubeset"
    /\ shutdown' = "done"
    /\ ClosesTubeSet
    /\ UNCHANGED <<shutdownUnchanged, stop, tubeUp, put, late>>

-----------------------------------------------------------------------------
(* The server and the network. *)

environmentUnchanged == <<stop, locks, process, fin, shutdown, history>>

\* The time to run of a job is over, and anybody may have it again.
Expires(j) ==
    /\ job[j] \in {"held", "leaked"}
    /\ job' = [job EXCEPT ![j] = "ready"]
    /\ UNCHANGED <<environmentUnchanged, tubeUp, tubeSet, put, breaks>>

TubeBreaks ==
    /\ tubeUp
    /\ breaks < MaxBreaks
    /\ breaks' = breaks + 1
    /\ TubeGoesDown
    /\ UNCHANGED <<environmentUnchanged, tubeSet, job>>

TubeSetBreaks ==
    /\ tubeSet = "up"
    /\ breaks < MaxBreaks
    /\ breaks' = breaks + 1
    /\ TubeSetGoes("broken")
    /\ UNCHANGED <<environmentUnchanged, tubeUp, put>>

\* The connection breaks after the server has deleted a job on it, and before
\* finishJob knows.
DeleteIsCut(f) ==
    /\ fin[f].at = "delete"
    /\ tubeSet = "up"
    /\ job[fin[f].job] \in {"ready", "held"}
    /\ breaks < MaxBreaks
    /\ breaks' = breaks + 1
    /\ tubeSet' = "broken"
    /\ job' = [Held("ready") EXCEPT ![fin[f].job] = "gone"]
    /\ UNCHANGED <<environmentUnchanged, tubeUp, put>>

-----------------------------------------------------------------------------
PutStep(p) ==
    \/ PutSends(p) \/ PutRefused(p) \/ PutAccepted(p) \/ PutCut(p) \/ PutFails(p)
    \/ PutLocks(p) \/ PutCloses(p) \/ PutConnects(p)

ProcessStep ==
    \/ \E f \in Finishers, j \in Jobs : ProcessGets(f, j)
    \/ ProcessFails \/ ProcessChecksStop \/ ProcessCloses \/ ProcessConnects

FinStep(f) ==
    \/ Works(f) \/ RLocks(f) \/ Deletes(f) \/ DeleteFails(f)
    \/ Locks(f) \/ ReadersLeft(f) \/ FinCloses(f) \/ FinConnects(f)

ShutdownStep == SetsStop \/ ShutdownClosesTube \/ ShutdownClosesTubeSet

Environment ==
    \/ TubeBreaks \/ TubeSetBreaks
    \/ \E j \in Jobs : Expires(j)
    \/ \E f \in Finishers : DeleteIsCut(f)

Next ==
    \/ \E p \in Putters : PutCalls(p) \/ PutStep(p)
    \/ ProcessStep
    \/ \E f \in Finishers : FinStep(f)
    \/ ShutdownStep
    \/ Environment

Spec == Init /\ [][Next]_vars

\* Started goroutines go on, beanstalkd answers on connections that are up and
\* can be reached again, processors come back, and a RWMutex starves nobody.
\* Nobody is obliged to call Put or Shutdown.
FairSpec ==
    /\ Spec
    /\ \A p \in Putters : WF_vars(PutStep(p)) /\ SF_vars(PutLocks(p))
    /\ WF_vars(ProcessStep)
    /\ \A f \in Finishers : WF_vars(FinStep(f)) /\ SF_vars(RLocks(f) \/ Locks(f))
    /\ WF_vars(ShutdownClosesTube) /\ WF_vars(ShutdownClosesTubeSet)

-----------------------------------------------------------------------------
(* Properties. *)

\* A job leaves the server only after its processor called done, however often
\* connections are lost and jobs are handed out again (queue.go:82-84).
GoneIsFinished == \A j \in Jobs : job[j] = "gone" => j \in finished

\* Shutdown ends Process, unless it came between the look at stop and the new
\* connection of a reconnection (queue.go:75-78, 89-93, 109-114).
StopEndsProcess == shutdown = "done" /\ ~late ~> process = "done"

\* "Shutdown stops the queue process" (queue.go:88).
ShutdownStopsProcess == shutdown = "done" ~> process = "done"

\* A job that is ready is handed to a processor, unless the queue is stopped or
\* goroutines of finishJob reconnect for ever (queue.go:69-85).
JobIsDelivered ==
    \/ []<>(\E f \in Finishers : fin[f].at = "dial")
    \/ \A j \in Jobs : job[j] = "ready" ~> job[j] # "ready" \/ stop
=============================================================================
