------------------------------ MODULE JobTimer ------------------------------
(***************************************************************************)
(* Running and stopping one regular Job (src/core/job_manager.go:91-137).  *)
(* run starts a timer goroutine with a stop channel of its own; stop       *)
(* leaves a goroutine behind that sends on the job's channel while it      *)
(* holds writeLock.  The channel is unbuffered, and the timer looks at it  *)
(* at its ticks only.                                                      *)
(*                                                                         *)
(* The sections under RLock do nothing but read two fields, so each is one *)
(* step, possible while no writer holds the lock.                          *)
(***************************************************************************)
EXTENDS Integers, FiniteSets

CONSTANTS
    Clients,    \* goroutines that call RunJob, StopJob or Start
    Stoppers,   \* bounds how many goroutines of stop live at once
    MaxRuns,    \* bounds how often a timer is started
    SelfCalls,  \* what the job's own Command calls: a subset of {"run", "stop"}
    Serialised, \* what is not called beside a call of the same: a subset of the two
    Free        \* writeLock when no writer holds it

ASSUME JobAssumption ==
    /\ MaxRuns \in Nat
    /\ SelfCalls \subseteq {"run", "stop"}
    /\ Serialised \subseteq {"run", "stop"}
    /\ Free \notin Stoppers

Timers == 1..MaxRuns    \* a timer and the stop channel made for it

VARIABLES
    \* the fields of Job
    writeLock,  \* the stopper that holds it, or Free
    active,
    stopChannel,    \* the timer whose channel it is, or 0 for nil
    \* the goroutines
    call,       \* where a client, or the Command of a timer, is in its call
    timer,      \* where a timer goroutine is
    stopper,    \* where a goroutine of stop is
    runs        \* how many timers were started

jobVars == <<writeLock, active, stopChannel>>
vars == <<jobVars, call, timer, stopper, runs>>

Callers == Clients \cup Timers

\* The types; a stopper holds the lock for as long as it sends.
TypeOK ==
    /\ writeLock \in Stoppers \cup {Free}
    /\ active \in BOOLEAN
    /\ stopChannel \in Timers \cup {0}
    /\ call \in [Callers -> {"none", "run", "runlock", "stop"}]
    /\ timer \in [Timers -> {"off", "wait", "command", "ended"}]
    /\ stopper \in [Stoppers -> {"off", "lock", "send"}]
    /\ runs \in 0..MaxRuns
    /\ \A s \in Stoppers : stopper[s] = "send" <=> writeLock = s

Init ==
    /\ writeLock = Free
    /\ active = FALSE
    /\ stopChannel = 0
    /\ call = [c \in Callers |-> "none"]
    /\ timer = [t \in Timers |-> "off"]
    /\ stopper = [s \in Stoppers |-> "off"]
    /\ runs = 0

-----------------------------------------------------------------------------
UnderWay(f) ==
    IF f = "run"
    THEN \E c \in Callers : call[c] \in {"run", "runlock"}
    ELSE \/ \E c \in Callers : call[c] = "stop"
         \/ \E s \in Stoppers : stopper[s] # "off"

\* The calls of RunJob that may start a timer yet.
Running == {c \in Callers : call[c] \in {"run", "runlock"}}

\* A client calls RunJob (or Start) or StopJob.
ClientCalls(c, f) ==
    /\ call[c] = "none"
    /\ f \in Serialised => ~UnderWay(f)
    /\ f = "run" => runs + Cardinality(Running) < MaxRuns
    /\ call' = [call EXCEPT ![c] = f]
    /\ UNCHANGED <<jobVars, timer, stopper, runs>>

\* So does the job's own Command.
CommandCalls(t, f) ==
    /\ timer[t] = "command"
    /\ call[t] = "none"
    /\ f \in Serialised => ~UnderWay(f)
    /\ f = "run" => runs + Cardinality(Running) < MaxRuns
    /\ call' = [call EXCEPT ![t] = f]
    /\ UNCHANGED <<jobVars, timer, stopper, runs>>

\* The RLock section of run, line 107-110 and 118.
RunChecks(c) ==
    /\ call[c] = "run"
    /\ writeLock = Free
    /\ call' = [call EXCEPT ![c] = IF active THEN "none" ELSE "runlock"]
    /\ UNCHANGED <<jobVars, timer, stopper, runs>>

\* Faulty: active is not set.
RunForgetsActive(c) ==
    /\ call[c] = "runlock"
    /\ writeLock = Free
    /\ runs' = runs + 1
    /\ stopChannel' = runs'
    /\ timer' = [timer EXCEPT ![runs'] = "wait"]
    /\ call' = [call EXCEPT ![c] = "none"]
    /\ UNCHANGED <<writeLock, active, stopper>>

\* Its Lock section, lines 111-116: active is not looked at again.
RunStarts(c) ==
    /\ call[c] = "runlock"
    /\ writeLock = Free
    /\ runs' = runs + 1
    /\ stopChannel' = runs'
    /\ timer' = [timer EXCEPT ![runs'] = "wait"]
    /\ active' = TRUE
    /\ call' = [call EXCEPT ![c] = "none"]
    /\ UNCHANGED <<writeLock, stopper>>

\* The RLock section of stop, which may leave a goroutine behind.
StopChecks(c) ==
    /\ call[c] = "stop"
    /\ writeLock = Free
    /\ call' = [call EXCEPT ![c] = "none"]
    /\ IF active /\ stopChannel # 0
       THEN \E s \in Stoppers :
                /\ stopper[s] = "off"
                /\ stopper' = [stopper EXCEPT ![s] = "lock"]
       ELSE UNCHANGED stopper
    /\ UNCHANGED <<jobVars, timer, runs>>

\* That goroutine takes the lock and starts to send.
StopperLocks(s) ==
    /\ stopper[s] = "lock"
    /\ writeLock = Free
    /\ writeLock' = s
    /\ stopper' = [stopper EXCEPT ![s] = "send"]
    /\ UNCHANGED <<active, stopChannel, call, timer, runs>>

-----------------------------------------------------------------------------
\* The stopper whose send the channel of t would receive.
Sending(t) == {s \in Stoppers : stopper[s] = "send" /\ stopChannel = t}

\* Faulty: the stop's goroutine keeps the lock.
TimerStopsLocked(t) ==
    /\ timer[t] = "wait"
    /\ Sending(t) # {}
    /\ timer' = [timer EXCEPT ![t] = "ended"]
    /\ stopper' = [s \in Stoppers |-> IF s \in Sending(t) THEN "off" ELSE stopper[s]]
    /\ active' = FALSE
    /\ UNCHANGED <<writeLock, stopChannel, call, runs>>

\* A tick with a sender: the timer ends; the sender clears active and unlocks
\* before anybody can read active.
TimerStops(t) ==
    /\ timer[t] = "wait"
    /\ Sending(t) # {}
    /\ timer' = [timer EXCEPT ![t] = "ended"]
    /\ stopper' = [s \in Stoppers |-> IF s \in Sending(t) THEN "off" ELSE stopper[s]]
    /\ active' = FALSE
    /\ writeLock' = Free
    /\ UNCHANGED <<stopChannel, call, runs>>

\* A tick without one: the timer runs the Command.
TimerTicks(t) ==
    /\ timer[t] = "wait"
    /\ Sending(t) = {}
    /\ timer' = [timer EXCEPT ![t] = "command"]
    /\ UNCHANGED <<jobVars, call, stopper, runs>>

\* The Command returns, fails or panics; the timer goes on in any case.
CommandEnds(t) ==
    /\ timer[t] = "command"
    /\ call[t] = "none"
    /\ timer' = [timer EXCEPT ![t] = "wait"]
    /\ UNCHANGED <<jobVars, call, stopper, runs>>

CallStep(c) == RunChecks(c) \/ RunStarts(c) \/ StopChecks(c)
TimerStep(t) == TimerStops(t) \/ TimerTicks(t) \/ CommandEnds(t)

Next ==
    \/ \E c \in Clients, f \in {"run", "stop"} : ClientCalls(c, f)
    \/ \E t \in Timers, f \in SelfCalls : CommandCalls(t, f)
    \/ \E c \in Callers : CallStep(c)
    \/ \E s \in Stoppers : StopperLocks(s)
    \/ \E t \in Timers : TimerStep(t)

Spec == Init /\ [][Next]_vars

\* Tickers tick, Commands return, goroutines run, and a RWMutex lets a writer
\* in before the readers that come after it.
FairSpec ==
    /\ Spec
    /\ \A c \in Callers : SF_vars(CallStep(c))
    /\ \A s \in Stoppers : SF_vars(StopperLocks(s))
    /\ \A t \in Timers : WF_vars(TimerStops(t) \/ TimerTicks(t)) /\ SF_vars(CommandEnds(t))

-----------------------------------------------------------------------------
(* Properties. *)

Alive(t) == timer[t] \in {"wait", "command"}

\* "Regular job will be executed every Interval" (job_manager.go:31): by one
\* timer, not by several side by side, which its stop channel reaches; and by none
\* once the job is not active (job_manager.go:104-137).
OneTimer == {t \in Timers : Alive(t)} = IF active THEN {stopChannel} ELSE {}

\* RunJob "runs asynchronously" (job_manager.go:242), and so does StopJob: a
\* call comes back, if only after the running Command.
CallsReturn == \A c \in Clients : call[c] # "none" ~> call[c] = "none"
=============================================================================
