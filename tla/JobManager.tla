----------------------------- MODULE JobManager -----------------------------
(***************************************************************************)
(* The registry of jobs and running registered jobs once                   *)
(* (src/core/job_manager.go:69-89, 139-147, 195-239 and 262-317):          *)
(* RunJobsOnceSequentially starts the first job of a list with a callback  *)
(* that starts the second one, and so on, each in a goroutine of its own;  *)
(* RunJobOnceSync runs one job in the caller's.  Meanwhile others register,*)
(* unregister and update jobs, each call in several steps on a sync.Map.   *)
(*                                                                         *)
(* Goroutine i of a call runs getWrappedFunc for the i-th job of the list. *)
(* The timers of regular jobs are in JobTimer.                             *)
(***************************************************************************)
EXTENDS Integers, Sequences

CONSTANTS
    Calls,          \* calls of RunJobsOnceSequentially or RunJobOnceSync
    Registrars,     \* goroutines that register, unregister and update jobs
    Jobs,           \* the names of the jobs
    names,          \* the list that is run, its first job by RunJobOnceSync
    WithHandler,    \* the jobs with an ErrorHandler
    MayPanic,       \* the jobs whose Command or ErrorHandler panics at times
    MayLeave        \* the jobs the registrars work on

ASSUME ManagerAssumption ==
    /\ names \in Seq(Jobs) \ {<<>>}
    /\ WithHandler \cup MayPanic \cup MayLeave \subseteq Jobs

VARIABLES
    jobs,       \* the jobs that are registered
    reg,        \* where a registrar is in its call, and for which job
    kind,       \* "sync", or a sequence that runs "all" or "untilError"
    answer,     \* what it returned
    at,         \* where goroutine i of a call is
    err,        \* the error of its Command
    cberr,      \* the error of its callback
    handled     \* history: the errors ErrorHandler got, nil included

managerVars == <<jobs, reg, kind, answer, at, err, cberr, handled>>

Index == DOMAIN names
RegStates == {"idle", "store", "delete", "unregister", "updelete", "reregister"}
States == {"none", "command", "handler", "callback", "cbhandler", "done", "panicked"}

\* The types; a Command that failed is not passed over in silence: its error
\* gets to the job's ErrorHandler before anything else happens.
ManagerTypeOK ==
    /\ jobs \subseteq Jobs
    /\ reg \in [Registrars -> [at : RegStates, job : Jobs]]
    /\ kind \in [Calls -> {"none", "sync", "all", "untilError"}]
    /\ answer \in [Calls -> {"none", "nil", "not found"}]
    /\ at \in [Calls -> [Index -> States]]
    /\ err \in [Calls -> [Index -> {"nil", "failed"}]]
    /\ cberr \in [Calls -> [Index -> {"nil", "failed", "not found"}]]
    /\ handled \subseteq [call : Calls, job : Index, error : {"nil", "failed", "not found"}]
    /\ \A r \in Calls, i \in Index :
        /\ err[r][i] = "failed" /\ names[i] \in WithHandler
        /\ at[r][i] \in {"callback", "cbhandler", "done"}
        => [call |-> r, job |-> i, error |-> "failed"] \in handled

ManagerInit ==
    /\ jobs = Jobs
    /\ reg \in [Registrars -> [at : {"idle"}, job : {names[1]}]]
    /\ kind = [r \in Calls |-> "none"]
    /\ answer = [r \in Calls |-> "none"]
    /\ at = [r \in Calls |-> [i \in Index |-> "none"]]
    /\ err = [r \in Calls |-> [i \in Index |-> "nil"]]
    /\ cberr = err
    /\ handled = {}

-----------------------------------------------------------------------------
\* Faulty: RunJobOnce for each of the jobs.
RunAllAtOnce(r, k) ==
    /\ kind[r] = "none"
    /\ kind' = [kind EXCEPT ![r] = k]
    /\ at' = [at EXCEPT ![r] = [i \in Index |-> IF names[i] \in jobs THEN "command" ELSE "none"]]
    /\ answer' = [answer EXCEPT ![r] = "nil"]
    /\ UNCHANGED <<jobs, reg, err, cberr, handled>>

\* RunJobsOnceSequentially: RunJobOnce for the first job.
RunSequentially(r, k) ==
    /\ kind[r] = "none"
    /\ kind' = [kind EXCEPT ![r] = k]
    /\ IF names[1] \in jobs
       THEN /\ at' = [at EXCEPT ![r][1] = "command"]
            /\ answer' = [answer EXCEPT ![r] = "nil"]
       ELSE /\ answer' = [answer EXCEPT ![r] = "not found"]
            /\ UNCHANGED at
    /\ UNCHANGED <<jobs, reg, err, cberr, handled>>

\* RunJobOnceSync answers when the job is done.
RunSync(r) ==
    /\ kind[r] = "none"
    /\ kind' = [kind EXCEPT ![r] = "sync"]
    /\ IF names[1] \in jobs
       THEN /\ at' = [at EXCEPT ![r][1] = "command"]
            /\ UNCHANGED answer
       ELSE /\ answer' = [answer EXCEPT ![r] = "not found"]
            /\ UNCHANGED at
    /\ UNCHANGED <<jobs, reg, err, cberr, handled>>

\* The wrapped function returns, after a panic too.
SyncReturns(r) ==
    /\ kind[r] = "sync"
    /\ answer[r] = "none"
    /\ at[r][1] \in {"done", "panicked"}
    /\ answer' = [answer EXCEPT ![r] = "nil"]
    /\ UNCHANGED <<jobs, reg, kind, at, err, cberr, handled>>

\* What follows the Command and its ErrorHandler: the callback, which the last
\* job of the list and the job of RunJobOnceSync do not have.
Onwards(r, i) ==
    IF kind[r] # "sync" /\ i < Len(names) THEN "callback" ELSE "done"

\* Faulty: the callback follows an error at once.
CommandFailsUnhandled(r, i, e) ==
    /\ at[r][i] = "command"
    /\ err' = [err EXCEPT ![r][i] = e]
    /\ at' = [at EXCEPT ![r][i] = Onwards(r, i)]
    /\ UNCHANGED <<jobs, reg, kind, answer, cberr, handled>>

\* The Command returns, with an error or without.
CommandReturns(r, i, e) ==
    /\ at[r][i] = "command"
    /\ err' = [err EXCEPT ![r][i] = e]
    /\ at' = [at EXCEPT ![r][i] =
            IF e # "nil" /\ names[i] \in WithHandler THEN "handler" ELSE Onwards(r, i)]
    /\ UNCHANGED <<jobs, reg, kind, answer, cberr, handled>>

\* The Command or the ErrorHandler panics: the deferred function recovers, and
\* nothing of getWrappedFunc runs any more.
Panics(r, i) ==
    /\ at[r][i] \in {"command", "handler", "cbhandler"}
    /\ names[i] \in MayPanic
    /\ at' = [at EXCEPT ![r][i] = "panicked"]
    /\ UNCHANGED <<jobs, reg, kind, answer, err, cberr, handled>>

\* ErrorHandler is called for the Command's error.
Handles(r, i) ==
    /\ at[r][i] = "handler"
    /\ handled' = handled \cup {[call |-> r, job |-> i, error |-> err[r][i]]}
    /\ at' = [at EXCEPT ![r][i] = Onwards(r, i)]
    /\ UNCHANGED <<jobs, reg, kind, answer, err, cberr>>

AfterCallback(i) == IF names[i] \in WithHandler THEN "cbhandler" ELSE "done"

\* The callback returns the Command's error and the chain ends.
CallbackStops(r, i) ==
    /\ at[r][i] = "callback"
    /\ err[r][i] # "nil" /\ kind[r] = "untilError"
    /\ cberr' = [cberr EXCEPT ![r][i] = err[r][i]]
    /\ at' = [at EXCEPT ![r][i] = AfterCallback(i)]
    /\ UNCHANGED <<jobs, reg, kind, answer, err, handled>>

\* Faulty: the callback forgets the error.
CallbackIgnoresError(r, i) ==
    /\ at[r][i] = "callback"
    /\ names[i + 1] \in jobs
    /\ at' = [at EXCEPT ![r][i] = AfterCallback(i), ![r][i + 1] = "command"]
    /\ UNCHANGED <<jobs, reg, kind, answer, err, cberr, handled>>

\* Faulty: the callbacks share the loop variable, which is where the loop left
\* it when they run.
LoopVariableShared(r, i) ==
    /\ at[r][i] = "callback"
    /\ ~(err[r][i] # "nil" /\ kind[r] = "untilError")
    /\ names[1] \in jobs
    /\ at' = [at EXCEPT ![r][i] = AfterCallback(i), ![r][1] = "command"]
    /\ UNCHANGED <<jobs, reg, kind, answer, err, cberr, handled>>

\* The callback starts the next job.
CallbackRunsNext(r, i) ==
    /\ at[r][i] = "callback"
    /\ ~(err[r][i] # "nil" /\ kind[r] = "untilError")
    /\ names[i + 1] \in jobs
    /\ at' = [at EXCEPT ![r][i] = AfterCallback(i), ![r][i + 1] = "command"]
    /\ UNCHANGED <<jobs, reg, kind, answer, err, cberr, handled>>

\* It does not find the next job, and the chain ends.
CallbackFails(r, i) ==
    /\ at[r][i] = "callback"
    /\ ~(err[r][i] # "nil" /\ kind[r] = "untilError")
    /\ names[i + 1] \notin jobs
    /\ cberr' = [cberr EXCEPT ![r][i] = "not found"]
    /\ at' = [at EXCEPT ![r][i] = AfterCallback(i)]
    /\ UNCHANGED <<jobs, reg, kind, answer, err, handled>>

\* ErrorHandler is called for what the callback returned, whatever it is.
HandlesCallback(r, i) ==
    /\ at[r][i] = "cbhandler"
    /\ handled' = handled \cup {[call |-> r, job |-> i, error |-> cberr[r][i]]}
    /\ at' = [at EXCEPT ![r][i] = "done"]
    /\ UNCHANGED <<jobs, reg, kind, answer, err, cberr>>

-----------------------------------------------------------------------------
(* The registry.  A call that returns at its first FetchJob changes nothing. *)

RegistrarGoes(g, from, to, j) ==
    /\ reg[g].at = from
    /\ reg' = [reg EXCEPT ![g] = [at |-> to, job |-> j]]
    /\ UNCHANGED <<kind, answer, at, err, cberr, handled>>

\* RegisterJob does not find the job.
RegisterMisses(g, j) == j \notin jobs /\ RegistrarGoes(g, "idle", "store", j) /\ UNCHANGED jobs

\* jobs.Store, at the end of RegisterJob or of UpdateJob.
RegisterStores(g) ==
    /\ RegistrarGoes(g, "store", "idle", reg[g].job)
    /\ jobs' = jobs \cup {reg[g].job}

\* UnregisterJob finds it, stops it (JobTimer), and deletes the name.
UnregisterFinds(g, j) == j \in jobs /\ RegistrarGoes(g, "idle", "delete", j) /\ UNCHANGED jobs
UnregisterDeletes(g) ==
    /\ RegistrarGoes(g, "delete", "idle", reg[g].job)
    /\ jobs' = jobs \ {reg[g].job}

\* UpdateJob finds it and calls UnregisterJob, which looks for it again.
UpdateFinds(g, j) == j \in jobs /\ RegistrarGoes(g, "idle", "unregister", j) /\ UNCHANGED jobs
UpdateUnregisters(g) ==
    /\ RegistrarGoes(g, "unregister",
            IF reg[g].job \in jobs THEN "updelete" ELSE "reregister", reg[g].job)
    /\ UNCHANGED jobs

\* Faulty: UpdateJob heeds the error of UnregisterJob, which always returns one.
UpdateHeedsError(g) ==
    /\ RegistrarGoes(g, "updelete", "idle", reg[g].job)
    /\ jobs' = jobs \ {reg[g].job}

\* The rest of UnregisterJob; its error is ignored.
UpdateDeletes(g) ==
    /\ RegistrarGoes(g, "updelete", "reregister", reg[g].job)
    /\ jobs' = jobs \ {reg[g].job}

\* Then RegisterJob looks whether the name is free.
UpdateRegisters(g) ==
    /\ RegistrarGoes(g, "reregister", IF reg[g].job \in jobs THEN "idle" ELSE "store", reg[g].job)
    /\ UNCHANGED jobs

RegistrarStep(g) ==
    \/ RegisterStores(g) \/ UnregisterDeletes(g)
    \/ UpdateUnregisters(g) \/ UpdateDeletes(g) \/ UpdateRegisters(g)
    \/ \E j \in MayLeave : RegisterMisses(g, j) \/ UnregisterFinds(g, j) \/ UpdateFinds(g, j)

-----------------------------------------------------------------------------

GoroutineStep(r, i) ==
    \/ \E e \in {"nil", "failed"} : CommandReturns(r, i, e)
    \/ Panics(r, i)
    \/ Handles(r, i)
    \/ CallbackStops(r, i) \/ CallbackRunsNext(r, i) \/ CallbackFails(r, i)
    \/ HandlesCallback(r, i)

ManagerNext ==
    \/ \E r \in Calls : RunSync(r) \/ SyncReturns(r)
    \/ \E r \in Calls, k \in {"all", "untilError"} : RunSequentially(r, k)
    \/ \E r \in Calls, i \in Index : GoroutineStep(r, i)
    \/ \E g \in Registrars : RegistrarStep(g)

ManagerSpec == ManagerInit /\ [][ManagerNext]_managerVars

-----------------------------------------------------------------------------
(* Properties. *)

Started(r, i) == at[r][i] # "none"

\* The jobs of a list run one after the other, although nobody waits for any
\* of them: a Command starts when the one before it has returned and its
\* error has been handled (job_manager.go:79-83, 287-306).
OneAfterTheOther ==
    \A r \in Calls, i \in Index :
        Started(r, i) => \A k \in 1..(i - 1) : at[r][k] \in {"cbhandler", "done", "panicked"}

\* With stopOnError nothing runs after a failed job (job_manager.go:277), and
\* nothing runs after one whose Command or first ErrorHandler call panicked,
\* for its callback is not executed (job_manager.go:18).
FailureEndsChain ==
    \A r \in Calls, i \in Index : i < Len(names) /\ Started(r, i + 1) =>
        /\ kind[r] = "untilError" => err[r][i] = "nil"
        /\ at[r][i] = "panicked" => names[i] \in WithHandler

\* The jobs of a list run in its order as far as their failures let them.
ListsRunInOrder == OneAfterTheOther /\ FailureEndsChain

\* A call of RunJobsOnceSequentially does all it can: every job runs unless a
\* job before it panicked, failed with stopOnError, or was followed by one that
\* is not registered (job_manager.go:283-306).
ChainRunsOn ==
    \A r \in Calls :
        answer[r] = "nil" /\ kind[r] # "sync" ~>
            \/ at[r][Len(names)] \in {"done", "panicked"}
            \/ \E i \in Index :
                \/ at[r][i] = "panicked"
                \/ at[r][i] = "done" /\ cberr[r][i] # "nil"

\* UpdateJob of a job that is there, and RegisterJob of one that is not, leave
\* the name registered however they end, whoever else works on it meanwhile
\* (job_manager.go:196-239).
UpdateLeavesJob ==
    [][\A g \in Registrars :
        /\ reg[g].at \in {"store", "unregister", "updelete", "reregister"}
        /\ reg'[g].at = "idle"
        => reg[g].job \in jobs']_managerVars
=============================================================================
