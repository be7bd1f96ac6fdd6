------------------------------ MODULE JobProofs ------------------------------
(***************************************************************************)
(* Proofs about jobs.  JobTimer: as long as no two calls of RunJob are     *)
(* under way at once, a job has one timer, whatever else is called beside  *)
(* it.  JobManager: the jobs of a list run one after the other, and the    *)
(* registry keeps the jobs that updates are to leave in it.                *)
(***************************************************************************)
EXTENDS JobTimer, JobManager, FiniteSetTheorems, TLAPS

-----------------------------------------------------------------------------
(* JobTimer. *)

Starts(c) == call[c] \in {"run", "runlock"}

\* One call of RunJob at a time ...
OneStart == \A c, d \in Callers : Starts(c) /\ Starts(d) => c = d

\* ... which has a timer left to start, and past its check finds no other timer.
StartIsFree == \A c \in Callers :
    /\ Starts(c) => runs < MaxRuns
    /\ call[c] = "runlock" => ~active

TimerInv == TypeOK /\ OneTimer /\ OneStart /\ StartIsFree

-----------------------------------------------------------------------------
LEMMA TimerInvInitially == Init => TimerInv
<1> SUFFICES ASSUME Init PROVE TimerInv
  OBVIOUS
<1>1. TypeOK
  <2>1. /\ call \in [Callers -> {"none", "run", "runlock", "stop"}]
        /\ timer \in [Timers -> {"off", "wait", "command", "ended"}]
        /\ stopper \in [Stoppers -> {"off", "lock", "send"}]
    BY DEF Init
  <2>2. runs \in 0..MaxRuns /\ \A s \in Stoppers : stopper[s] # "send" /\ writeLock # s
    BY JobAssumption DEF Init
  <2> QED
    BY <2>1, <2>2 DEF Init, TypeOK
<1>2. OneTimer
  BY DEF Init, OneTimer, Alive
<1>3. OneStart /\ StartIsFree
  BY DEF Init, OneStart, StartIsFree, Starts
<1> QED
  BY <1>1, <1>2, <1>3 DEF TimerInv

\* A caller that starts a call; only a RunJob needs the others to be outside.
LEMMA CallKeeps ==
    ASSUME "run" \in Serialised, TimerInv, NEW c \in Callers, NEW f \in {"run", "stop"},
           call[c] = "none", f \in Serialised => ~UnderWay(f),
           f = "run" => runs + Cardinality(Running) < MaxRuns,
           call' = [call EXCEPT ![c] = f], UNCHANGED <<jobVars, timer, stopper, runs>>
    PROVE  TimerInv'
<1>1. /\ call \in [Callers -> {"none", "run", "runlock", "stop"}]
      /\ call' \in [Callers -> {"none", "run", "runlock", "stop"}]
      /\ call'[c] = f /\ \A d \in Callers \ {c} : call'[d] = call[d]
  BY DEF TimerInv, TypeOK
<1>2. TypeOK'
  BY <1>1 DEF TimerInv, TypeOK, jobVars
<1>3. OneTimer'
  BY DEF TimerInv, OneTimer, Alive, jobVars
<1>4. f = "run" => runs < MaxRuns /\ \A d \in Callers : ~Starts(d)
  <2> SUFFICES ASSUME f = "run" PROVE runs < MaxRuns /\ \A d \in Callers : ~Starts(d)
    OBVIOUS
  <2>1. \A d \in Callers : ~Starts(d)
    BY DEF UnderWay, Starts
  <2>2. Running = {}
    BY <2>1 DEF Running, Starts
  <2> QED
    BY <2>1, <2>2, FS_EmptySet, JobAssumption DEF TimerInv, TypeOK
<1>5. f = "stop" => ~Starts(c)'
  BY <1>1 DEF Starts
<1>6. \A d \in Callers \ {c} : Starts(d)' <=> Starts(d)
  BY <1>1 DEF Starts
<1>7. OneStart'
  BY <1>4, <1>5, <1>6 DEF TimerInv, OneStart
<1>8. StartIsFree'
  BY <1>1, <1>4, <1>5, <1>6 DEF TimerInv, StartIsFree, jobVars
<1> QED
  BY <1>2, <1>3, <1>7, <1>8 DEF TimerInv

\* A step of a call: it ends, or passes its check.
LEMMA CallMoves ==
    ASSUME TimerInv, NEW c \in Callers, NEW to \in {"none", "runlock"},
           to = "runlock" => call[c] = "run",
           call' = [call EXCEPT ![c] = to]
    PROVE  /\ call' \in [Callers -> {"none", "run", "runlock", "stop"}]
           /\ call'[c] = to /\ \A d \in Callers \ {c} : call'[d] = call[d]
           /\ \A d \in Callers : Starts(d)' => Starts(d)
           /\ OneStart'
<1>1. /\ call' \in [Callers -> {"none", "run", "runlock", "stop"}]
      /\ call'[c] = to /\ \A d \in Callers \ {c} : call'[d] = call[d]
  BY DEF TimerInv, TypeOK
<1>2. \A d \in Callers : Starts(d)' => Starts(d)
  BY <1>1 DEF Starts
<1> QED
  BY <1>1, <1>2 DEF TimerInv, OneStart

LEMMA RunChecksKeeps == ASSUME TimerInv, NEW c \in Callers, RunChecks(c) PROVE TimerInv'
<1> DEFINE to == IF active THEN "none" ELSE "runlock"
<1>1. call[c] = "run" /\ call' = [call EXCEPT ![c] = to] /\ UNCHANGED <<jobVars, timer, stopper, runs>>
  BY DEF RunChecks
<1>2. to \in {"none", "runlock"} /\ (to = "runlock" => ~active)
  OBVIOUS
<1> HIDE DEF to
<1>3. /\ call' \in [Callers -> {"none", "run", "runlock", "stop"}]
      /\ call'[c] = to /\ \A d \in Callers \ {c} : call'[d] = call[d]
      /\ \A d \in Callers : Starts(d)' => Starts(d)
      /\ OneStart'
  BY <1>1, <1>2, CallMoves
<1>4. TypeOK'
  BY <1>1, <1>3 DEF TimerInv, TypeOK, jobVars
<1>5. OneTimer'
  BY <1>1 DEF TimerInv, OneTimer, Alive, jobVars
<1>6. StartIsFree'
  BY <1>1, <1>2, <1>3 DEF TimerInv, StartIsFree, jobVars
<1> QED
  BY <1>3, <1>4, <1>5, <1>6 DEF TimerInv

LEMMA RunStartsKeeps == ASSUME TimerInv, NEW c \in Callers, RunStarts(c) PROVE TimerInv'
<1>1. /\ call[c] = "runlock" /\ call' = [call EXCEPT ![c] = "none"]
      /\ runs' = runs + 1 /\ stopChannel' = runs + 1 /\ active' = TRUE
      /\ timer' = [timer EXCEPT ![runs + 1] = "wait"]
      /\ UNCHANGED <<writeLock, stopper>>
  BY DEF RunStarts
<1>2. /\ call' \in [Callers -> {"none", "run", "runlock", "stop"}]
      /\ call'[c] = "none" /\ \A d \in Callers \ {c} : call'[d] = call[d]
      /\ OneStart'
  BY <1>1, CallMoves
<1>3. Starts(c) /\ runs < MaxRuns /\ ~active
  BY <1>1 DEF TimerInv, StartIsFree, Starts
<1>4. runs \in 0..MaxRuns /\ MaxRuns \in Nat
  BY JobAssumption DEF TimerInv, TypeOK
<1>5. runs + 1 \in Timers /\ runs + 1 \in 0..MaxRuns
  BY <1>3, <1>4 DEF Timers
<1>6. /\ timer' \in [Timers -> {"off", "wait", "command", "ended"}]
      /\ timer'[runs + 1] = "wait" /\ \A t \in Timers \ {runs + 1} : timer'[t] = timer[t]
  BY <1>1, <1>5 DEF TimerInv, TypeOK
<1>7. TypeOK'
  BY <1>1, <1>2, <1>5, <1>6 DEF TimerInv, TypeOK
<1>8. \A t \in Timers : timer[t] \notin {"wait", "command"}
  BY <1>3 DEF TimerInv, OneTimer, Alive
<1>9. \A t \in Timers : timer'[t] \in {"wait", "command"} <=> t = runs + 1
  BY <1>6, <1>8
<1>10. OneTimer'
  BY <1>1, <1>5, <1>9 DEF OneTimer, Alive
<1>11. \A d \in Callers : ~Starts(d)'
  <2>1. \A d \in Callers \ {c} : ~Starts(d)
    BY <1>3 DEF TimerInv, OneStart
  <2> QED
    BY <1>2, <2>1 DEF Starts
<1>12. StartIsFree'
  BY <1>11 DEF StartIsFree, Starts
<1> QED
  BY <1>2, <1>7, <1>10, <1>12 DEF TimerInv

LEMMA StopChecksKeeps == ASSUME TimerInv, NEW c \in Callers, StopChecks(c) PROVE TimerInv'
<1>1. call' = [call EXCEPT ![c] = "none"] /\ UNCHANGED <<jobVars, timer, runs>>
  BY DEF StopChecks
<1>2. /\ call' \in [Callers -> {"none", "run", "runlock", "stop"}]
      /\ call'[c] = "none" /\ \A d \in Callers \ {c} : call'[d] = call[d]
      /\ \A d \in Callers : Starts(d)' => Starts(d)
      /\ OneStart'
  BY <1>1, CallMoves
<1>3. /\ stopper' \in [Stoppers -> {"off", "lock", "send"}]
      /\ \A s \in Stoppers : stopper'[s] = "send" <=> stopper[s] = "send"
  BY DEF StopChecks, TimerInv, TypeOK
<1>4. TypeOK'
  BY <1>1, <1>2, <1>3 DEF TimerInv, TypeOK, jobVars
<1>5. OneTimer'
  BY <1>1 DEF TimerInv, OneTimer, Alive, jobVars
<1>6. StartIsFree'
  BY <1>1, <1>2 DEF TimerInv, StartIsFree, jobVars
<1> QED
  BY <1>2, <1>4, <1>5, <1>6 DEF TimerInv

\* Steps that touch neither calls nor active, and start and end no timer.
LEMMA OthersKeep ==
    ASSUME TimerInv, TypeOK', UNCHANGED <<active, stopChannel, call, runs>>,
           \A t \in Timers : Alive(t)' <=> Alive(t)
    PROVE  TimerInv'
<1>1. OneTimer'
  BY DEF TimerInv, OneTimer
<1>2. OneStart' /\ StartIsFree'
  BY DEF TimerInv, OneStart, StartIsFree, Starts
<1> QED
  BY <1>1, <1>2 DEF TimerInv

LEMMA StopperLocksKeeps == ASSUME TimerInv, NEW s \in Stoppers, StopperLocks(s) PROVE TimerInv'
<1>1. TypeOK'
  BY JobAssumption DEF StopperLocks, TimerInv, TypeOK
<1> QED
  BY <1>1, OthersKeep DEF StopperLocks, Alive

LEMMA TimerStopsKeeps == ASSUME TimerInv, NEW t \in Timers, TimerStops(t) PROVE TimerInv'
<1>1. /\ timer[t] = "wait" /\ stopChannel = t
      /\ timer' = [timer EXCEPT ![t] = "ended"]
      /\ active' = FALSE /\ writeLock' = Free /\ UNCHANGED <<stopChannel, call, runs>>
  BY DEF TimerStops, Sending
<1>2. \A s \in Stoppers : stopper'[s] = IF stopper[s] = "send" THEN "off" ELSE stopper[s]
  BY <1>1 DEF TimerStops, Sending
<1>3. stopper' \in [Stoppers -> {"off", "lock", "send"}]
  BY DEF TimerStops, TimerInv, TypeOK
<1>4. /\ timer' \in [Timers -> {"off", "wait", "command", "ended"}]
      /\ timer'[t] = "ended" /\ \A u \in Timers \ {t} : timer'[u] = timer[u]
  BY <1>1 DEF TimerInv, TypeOK
<1>5. TypeOK'
  <2>1. \A s \in Stoppers : stopper'[s] # "send" /\ writeLock' # s
    BY <1>1, <1>2, JobAssumption
  <2> QED
    BY <1>1, <1>3, <1>4, <2>1 DEF TimerInv, TypeOK
<1>6. OneTimer'
  <2>1. \A u \in Timers : Alive(u) <=> u = t
    BY <1>1 DEF TimerInv, OneTimer, Alive
  <2>2. \A u \in Timers : ~Alive(u)'
    BY <1>4, <2>1 DEF Alive
  <2> QED
    BY <1>1, <2>2 DEF OneTimer
<1>7. OneStart' /\ StartIsFree'
  BY <1>1 DEF TimerInv, OneStart, StartIsFree, Starts
<1> QED
  BY <1>5, <1>6, <1>7 DEF TimerInv

LEMMA TimerTicksKeeps == ASSUME TimerInv, NEW t \in Timers, TimerTicks(t) PROVE TimerInv'
<1>1. /\ timer[t] = "wait" /\ timer' = [timer EXCEPT ![t] = "command"]
      /\ UNCHANGED <<jobVars, call, stopper, runs>>
  BY DEF TimerTicks
<1>2. TypeOK'
  BY <1>1 DEF TimerInv, TypeOK, jobVars
<1>3. \A u \in Timers : Alive(u)' <=> Alive(u)
  BY <1>1 DEF TimerInv, TypeOK, Alive
<1> QED
  BY <1>1, <1>2, <1>3, OthersKeep DEF jobVars

LEMMA CommandEndsKeeps == ASSUME TimerInv, NEW t \in Timers, CommandEnds(t) PROVE TimerInv'
<1>1. /\ timer[t] = "command" /\ timer' = [timer EXCEPT ![t] = "wait"]
      /\ UNCHANGED <<jobVars, call, stopper, runs>>
  BY DEF CommandEnds
<1>2. TypeOK'
  BY <1>1 DEF TimerInv, TypeOK, jobVars
<1>3. \A u \in Timers : Alive(u)' <=> Alive(u)
  BY <1>1 DEF TimerInv, TypeOK, Alive
<1> QED
  BY <1>1, <1>2, <1>3, OthersKeep DEF jobVars

LEMMA TimerStepKeeps ==
    ASSUME "run" \in Serialised PROVE TimerInv /\ [Next]_vars => TimerInv'
<1> SUFFICES ASSUME TimerInv, [Next]_vars PROVE TimerInv'
  OBVIOUS
<1>1. ASSUME NEW c \in Clients, NEW f \in {"run", "stop"}, ClientCalls(c, f) PROVE TimerInv'
  BY <1>1, CallKeeps DEF ClientCalls, Callers
<1>2. ASSUME NEW t \in Timers, NEW f \in SelfCalls, CommandCalls(t, f) PROVE TimerInv'
  <2>1. t \in Callers /\ f \in {"run", "stop"}
    BY JobAssumption DEF Callers
  <2> QED
    BY <1>2, <2>1, CallKeeps DEF CommandCalls
<1>3. ASSUME NEW c \in Callers, CallStep(c) PROVE TimerInv'
  BY <1>3, RunChecksKeeps, RunStartsKeeps, StopChecksKeeps DEF CallStep
<1>4. ASSUME NEW s \in Stoppers, StopperLocks(s) PROVE TimerInv'
  BY <1>4, StopperLocksKeeps
<1>5. ASSUME NEW t \in Timers, TimerStep(t) PROVE TimerInv'
  BY <1>5, TimerStopsKeeps, TimerTicksKeeps, CommandEndsKeeps DEF TimerStep
<1>6. CASE UNCHANGED vars
  <2>1. TypeOK'
    BY <1>6 DEF vars, jobVars, TimerInv, TypeOK
  <2> QED
    BY <1>6, <2>1, OthersKeep DEF vars, jobVars, Alive
<1> QED
  BY <1>1, <1>2, <1>3, <1>4, <1>5, <1>6 DEF Next

-----------------------------------------------------------------------------
\* For any number of clients and goroutines, and for Commands that run or stop their own
\* job: while no two calls of RunJob overlap, the variables keep their types and a
\* stopper holds the job's lock for exactly as long as it sends (job_manager.go:121-137).
THEOREM TimerTypes == ASSUME "run" \in Serialised PROVE Spec => []TypeOK
<1>1. TimerInv /\ [Next]_vars => TimerInv'
  BY TimerStepKeeps
<1>2. TimerInv => TypeOK
  BY DEF TimerInv
<1> QED
  BY <1>1, <1>2, TimerInvInitially, PTL DEF Spec

\* Under the same condition a job has one timer, the one that stop reaches, while it is
\* active, and none otherwise (job_manager.go:91-137).  Calls of StopJob need not be
\* serialised for this: a second one blocks the job, but brings no second timer.
THEOREM TimerIsOne == ASSUME "run" \in Serialised PROVE Spec => []OneTimer
<1>1. TimerInv /\ [Next]_vars => TimerInv'
  BY TimerStepKeeps
<1>2. TimerInv => OneTimer
  BY DEF TimerInv
<1> QED
  BY <1>1, <1>2, TimerInvInitially, PTL DEF Spec

-----------------------------------------------------------------------------
(* JobManager: its inductive invariant. *)

\* Nothing runs for a call that was not made, only a job that is not the last one has
\* a callback, and only one with an ErrorHandler has it called for the callback.
PlaceInv == \A r \in Calls, i \in Index :
    /\ kind[r] = "none" => at[r][i] = "none"
    /\ at[r][i] = "callback" => i < Len(names)
    /\ at[r][i] = "cbhandler" => names[i] \in WithHandler

ManagerInv == ManagerTypeOK /\ PlaceInv /\ ListsRunInOrder

-----------------------------------------------------------------------------
LEMMA NamesAre ==
    /\ Len(names) \in Nat /\ Index = 1..Len(names) /\ 1 \in Index
    /\ \A i \in Index : i \in Int /\ names[i] \in Jobs
    /\ \A i, k \in Index : i < Len(names) => i + 1 \in Index
BY ManagerAssumption DEF Index

LEMMA ManagerInitially == ManagerInit => ManagerInv
<1> SUFFICES ASSUME ManagerInit PROVE ManagerInv
  OBVIOUS
<1> USE DEF ManagerInit
<1>1. ManagerTypeOK
  BY NamesAre DEF ManagerTypeOK, RegStates, States
<1>2. PlaceInv
  BY DEF PlaceInv
<1>3. ListsRunInOrder
  BY NamesAre DEF ListsRunInOrder, OneAfterTheOther, FailureEndsChain, Started
<1> QED
  BY <1>1, <1>2, <1>3 DEF ManagerInv

\* A step of a registrar is none of the lists.
LEMMA RegistrarStepIs ==
    ASSUME ManagerTypeOK, NEW g \in Registrars, RegistrarStep(g)
    PROVE  /\ UNCHANGED <<kind, answer, at, err, cberr, handled>>
           /\ jobs' \subseteq Jobs
           /\ \E to \in RegStates, j \in Jobs : reg' = [reg EXCEPT ![g] = [at |-> to, job |-> j]]
<1> USE DEF RegistrarGoes
<1>0. jobs \subseteq Jobs /\ reg[g].job \in Jobs /\ MayLeave \subseteq Jobs
  BY ManagerAssumption DEF ManagerTypeOK
<1>1. CASE RegisterStores(g) \/ UnregisterDeletes(g) \/ UpdateDeletes(g)
  BY <1>0, <1>1 DEF RegisterStores, UnregisterDeletes, UpdateDeletes, RegStates
<1>2. CASE UpdateUnregisters(g) \/ UpdateRegisters(g)
  BY <1>0, <1>2 DEF UpdateUnregisters, UpdateRegisters, RegStates
<1>3. ASSUME NEW j \in MayLeave, RegisterMisses(g, j) \/ UnregisterFinds(g, j) \/ UpdateFinds(g, j)
      PROVE  /\ UNCHANGED <<kind, answer, at, err, cberr, handled, jobs>>
             /\ \E to \in RegStates : reg' = [reg EXCEPT ![g] = [at |-> to, job |-> j]]
  BY <1>3 DEF RegisterMisses, UnregisterFinds, UpdateFinds, RegStates
<1> QED
  BY <1>0, <1>1, <1>2, <1>3 DEF RegistrarStep

LEMMA RegistrarKeeps ==
    ASSUME ManagerInv, NEW g \in Registrars, RegistrarStep(g)
    PROVE  ManagerInv'
<1>1. ManagerTypeOK /\ reg \in [Registrars -> [at : RegStates, job : Jobs]]
  BY DEF ManagerInv, ManagerTypeOK
<1>2. reg' \in [Registrars -> [at : RegStates, job : Jobs]]
  BY <1>1, RegistrarStepIs
<1>3. UNCHANGED <<kind, answer, at, err, cberr, handled>> /\ jobs' \subseteq Jobs
  BY <1>1, RegistrarStepIs
<1>4. ManagerTypeOK'
  BY <1>1, <1>2, <1>3 DEF ManagerTypeOK
<1> QED
  BY <1>3, <1>4 DEF ManagerInv, PlaceInv, ListsRunInOrder, OneAfterTheOther, FailureEndsChain, Started

\* The first job of a list, or the job of RunJobOnceSync, starts.
LEMMA RunKeeps ==
    ASSUME ManagerInv, NEW r \in Calls,
           RunSync(r) \/ SyncReturns(r) \/ \E k \in {"all", "untilError"} : RunSequentially(r, k)
    PROVE  ManagerInv'
<1>0. ManagerTypeOK /\ PlaceInv /\ OneAfterTheOther /\ FailureEndsChain
  BY DEF ManagerInv, ListsRunInOrder
<1>1. /\ UNCHANGED <<jobs, reg, err, cberr, handled>>
      /\ answer' \in [Calls -> {"none", "nil", "not found"}]
      /\ kind' \in [Calls -> {"none", "sync", "all", "untilError"}]
  BY <1>0 DEF RunSync, SyncReturns, RunSequentially, ManagerTypeOK
<1>2. CASE UNCHANGED <<kind, at>>
  BY <1>0, <1>1, <1>2, ZenonT(30) DEF ManagerInv, ManagerTypeOK, PlaceInv, ListsRunInOrder, OneAfterTheOther,
     FailureEndsChain, Started
<1>3. CASE /\ kind[r] = "none" /\ \E k \in {"sync", "all", "untilError"} : kind' = [kind EXCEPT ![r] = k]
           /\ at' = at \/ at' = [at EXCEPT ![r][1] = "command"]
  <2>1. /\ at \in [Calls -> [Index -> States]] /\ at' \in [Calls -> [Index -> States]]
        /\ \A q \in Calls \ {r} : kind'[q] = kind[q] /\ at'[q] = at[q]
        /\ \A i \in Index : at[r][i] = "none" /\ (at'[r][i] = "none" \/ (i = 1 /\ at'[r][i] = "command"))
        /\ kind'[r] # "none"
    <3>1. at \in [Calls -> [Index -> States]] /\ kind \in [Calls -> {"none", "sync", "all", "untilError"}]
      BY <1>0 DEF ManagerTypeOK
    <3>2. \A i \in Index : at[r][i] = "none"
      BY <1>0, <1>3 DEF PlaceInv
    <3>3. at' \in [Calls -> [Index -> States]]
      BY <1>3, <3>1, NamesAre, SMTT(30) DEF States
    <3> QED
      BY <1>3, <3>1, <3>2, <3>3, NamesAre
  <2>2. ManagerTypeOK'
    BY <1>0, <1>1, <2>1 DEF ManagerTypeOK
  <2>3. PlaceInv'
    BY <1>0, <2>1 DEF PlaceInv
  <2>4. OneAfterTheOther'
    BY <1>0, <2>1, NamesAre, SMTT(30) DEF OneAfterTheOther, Started
  <2>5. FailureEndsChain'
    <3>1. \A i \in Index : i < Len(names) => at'[r][i + 1] = "none"
      BY <2>1, NamesAre
    <3> QED
      <4>1. ASSUME NEW q \in Calls, NEW i \in Index, i < Len(names), at'[q][i + 1] # "none"
            PROVE  q # r /\ at[q][i + 1] # "none" /\ kind'[q] = kind[q] /\ at'[q][i] = at[q][i]
        BY <2>1, <3>1, <4>1
      <4>2. err' = err
        BY <1>1
      <4> QED
        BY <1>0, <4>1, <4>2 DEF FailureEndsChain, Started
  <2> QED
    BY <2>2, <2>3, <2>4, <2>5 DEF ManagerInv, ListsRunInOrder
<1> QED
  BY <1>2, <1>3 DEF RunSync, SyncReturns, RunSequentially

\* What goroutine i of a call does to the places of its list: it moves on, and its
\* callback starts the next job.
LEMMA GoroutineStepIs ==
    ASSUME ManagerInv, NEW r \in Calls, NEW i \in Index, GoroutineStep(r, i)
    PROVE  /\ at' \in [Calls -> [Index -> States]]
           /\ \A q \in Calls \ {r} : at'[q] = at[q] /\ err'[q] = err[q]
           /\ \A k \in Index \ {i, i + 1} : at'[r][k] = at[r][k]
           /\ \A k \in Index \ {i} : err'[r][k] = err[r][k]
           /\ at[r][i] # "command" => err' = err
           /\ UNCHANGED <<jobs, reg, kind, answer>>
           /\ at'[r][i] = "panicked" => at[r][i] # "cbhandler" \/ names[i] \in WithHandler
           /\ at'[r][i] = "callback" => i < Len(names)
           /\ at'[r][i] = "cbhandler" => names[i] \in WithHandler
           /\ at[r][i] \notin {"none", "done", "panicked"} /\ at'[r][i] # "none"
           /\ at[r][i] = "cbhandler" => at'[r][i] \in {"done", "panicked"}
           /\ i + 1 \in Index =>
                \/ at'[r][i + 1] = at[r][i + 1]
                \/ /\ at'[r][i + 1] = "command" /\ at[r][i] = "callback"
                   /\ at'[r][i] \in {"cbhandler", "done"}
                   /\ ~(err[r][i] # "nil" /\ kind[r] = "untilError")
<1>0. ManagerTypeOK /\ at \in [Calls -> [Index -> States]] /\ DOMAIN err = Calls /\ DOMAIN err[r] = Index
  BY DEF ManagerInv, ManagerTypeOK
<1>1. \A x \in States : [at EXCEPT ![r][i] = x] \in [Calls -> [Index -> States]]
  BY <1>0
<1>2. i \in Int /\ i + 1 # i
  BY NamesAre
<1>3. ASSUME NEW e \in {"nil", "failed"}, CommandReturns(r, i, e)
      PROVE  /\ at[r][i] = "command" /\ err' = [err EXCEPT ![r][i] = e] /\ UNCHANGED <<jobs, reg, kind, answer>>
             /\ \E x \in {"handler", "callback", "done"} : at' = [at EXCEPT ![r][i] = x] /\ (x = "callback" => i < Len(names))
  BY <1>3 DEF CommandReturns, Onwards
<1>4. ASSUME Panics(r, i)
      PROVE  /\ at[r][i] \in {"command", "handler", "cbhandler"} /\ UNCHANGED <<jobs, reg, kind, answer, err>>
             /\ at' = [at EXCEPT ![r][i] = "panicked"]
  BY <1>4 DEF Panics
<1>5. ASSUME Handles(r, i)
      PROVE  /\ at[r][i] = "handler" /\ UNCHANGED <<jobs, reg, kind, answer, err>>
             /\ \E x \in {"callback", "done"} : at' = [at EXCEPT ![r][i] = x] /\ (x = "callback" => i < Len(names))
  BY <1>5 DEF Handles, Onwards
<1>6. ASSUME CallbackStops(r, i) \/ CallbackFails(r, i)
      PROVE  /\ at[r][i] = "callback" /\ UNCHANGED <<jobs, reg, kind, answer, err>>
             /\ \E x \in {"cbhandler", "done"} : at' = [at EXCEPT ![r][i] = x] /\ (x = "cbhandler" => names[i] \in WithHandler)
  BY <1>6 DEF CallbackStops, CallbackFails, AfterCallback
<1>7. ASSUME HandlesCallback(r, i)
      PROVE  at[r][i] = "cbhandler" /\ at' = [at EXCEPT ![r][i] = "done"] /\ UNCHANGED <<jobs, reg, kind, answer, err>>
  BY <1>7 DEF HandlesCallback
<1>8. ASSUME CallbackRunsNext(r, i)
      PROVE  /\ at[r][i] = "callback" /\ UNCHANGED <<jobs, reg, kind, answer, err>>
             /\ ~(err[r][i] # "nil" /\ kind[r] = "untilError")
             /\ \E x \in {"cbhandler", "done"} :
                    at' = [at EXCEPT ![r][i] = x, ![r][i + 1] = "command"] /\ (x = "cbhandler" => names[i] \in WithHandler)
  BY <1>8 DEF CallbackRunsNext, AfterCallback
<1>9. CASE \E e \in {"nil", "failed"} : CommandReturns(r, i, e)
  BY <1>0, <1>1, <1>2, <1>3, <1>9 DEF States
<1>10. CASE Panics(r, i)
  BY <1>0, <1>1, <1>2, <1>4, <1>10 DEF States, ManagerInv, PlaceInv
<1>11. CASE Handles(r, i)
  BY <1>0, <1>1, <1>2, <1>5, <1>11 DEF States
<1>12. CASE CallbackStops(r, i) \/ CallbackFails(r, i)
  BY <1>0, <1>1, <1>2, <1>6, <1>12 DEF States
<1>13. CASE HandlesCallback(r, i)
  BY <1>0, <1>1, <1>2, <1>7, <1>13 DEF States
<1>14. CASE CallbackRunsNext(r, i)
  <2>1. PICK x \in {"cbhandler", "done"} :
            at' = [at EXCEPT ![r][i] = x, ![r][i + 1] = "command"] /\ (x = "cbhandler" => names[i] \in WithHandler)
    BY <1>8, <1>14
  <2>2. i + 1 \in Index
    BY <1>8, <1>14, NamesAre DEF ManagerInv, PlaceInv
  <2>3. /\ at' \in [Calls -> [Index -> States]]
        /\ \A q \in Calls \ {r} : at'[q] = at[q]
        /\ \A k \in Index \ {i, i + 1} : at'[r][k] = at[r][k]
        /\ at'[r][i] = x /\ at'[r][i + 1] = "command"
    BY <1>0, <1>2, <2>1, <2>2 DEF States
  <2> QED
    BY <1>8, <1>14, <2>1, <2>3
<1> QED
  BY <1>9, <1>10, <1>11, <1>12, <1>13, <1>14 DEF GoroutineStep

LEMMA GoroutineTypesKeep ==
    ASSUME ManagerInv, NEW r \in Calls, NEW i \in Index, GoroutineStep(r, i)
    PROVE  ManagerTypeOK'
<1> DEFINE Errors == {"nil", "failed", "not found"}
<1>0. /\ ManagerTypeOK
      /\ err \in [Calls -> [Index -> {"nil", "failed"}]]
      /\ cberr \in [Calls -> [Index -> Errors]]
      /\ handled \subseteq [call : Calls, job : Index, error : Errors]
      /\ err[r][i] \in {"nil", "failed"} /\ cberr[r][i] \in Errors
  BY DEF ManagerInv, ManagerTypeOK
<1>1. \A e \in Errors : [call |-> r, job |-> i, error |-> e] \in [call : Calls, job : Index, error : Errors]
  OBVIOUS
<1> HIDE DEF Errors
<1>2. err' = err \/ \E e \in {"nil", "failed"} : err' = [err EXCEPT ![r][i] = e]
  BY DEF GoroutineStep, CommandReturns, Panics, Handles, CallbackStops, CallbackRunsNext, CallbackFails, HandlesCallback
<1>3. cberr' = cberr \/ \E e \in Errors : cberr' = [cberr EXCEPT ![r][i] = e]
  <2>1. CASE CallbackStops(r, i)
    BY <1>0, <2>1 DEF CallbackStops, Errors
  <2>2. CASE ~CallbackStops(r, i)
    BY <2>2 DEF GoroutineStep, CommandReturns, Panics, Handles, CallbackRunsNext, CallbackFails, HandlesCallback, Errors
  <2> QED
    BY <2>1, <2>2
<1>4. handled' = handled \/ \E e \in Errors : handled' = handled \cup {[call |-> r, job |-> i, error |-> e]}
  <2>1. CASE Handles(r, i) \/ HandlesCallback(r, i)
    BY <1>0, <2>1 DEF Handles, HandlesCallback, Errors
  <2>2. CASE ~(Handles(r, i) \/ HandlesCallback(r, i))
    BY <2>2 DEF GoroutineStep, CommandReturns, Panics, CallbackStops, CallbackRunsNext, CallbackFails
  <2> QED
    BY <2>1, <2>2
<1>5. err' \in [Calls -> [Index -> {"nil", "failed"}]] /\ cberr' \in [Calls -> [Index -> Errors]]
  <2>1. err' \in [Calls -> [Index -> {"nil", "failed"}]]
    BY <1>0, <1>2
  <2>2. \A e \in Errors : [cberr EXCEPT ![r][i] = e] \in [Calls -> [Index -> Errors]]
    BY <1>0
  <2> QED
    BY <1>0, <1>3, <2>1, <2>2
<1>6. handled' \subseteq [call : Calls, job : Index, error : Errors] /\ handled \subseteq handled'
  BY <1>0, <1>1, <1>4
<1>7. ASSUME NEW q \in Calls, NEW k \in Index, err'[q][k] = "failed", names[k] \in WithHandler,
             at'[q][k] \in {"callback", "cbhandler", "done"}
      PROVE  [call |-> q, job |-> k, error |-> "failed"] \in handled'
  <2>1. CASE at[q][k] \in {"callback", "cbhandler", "done"}
    <3>1. err'[q][k] = err[q][k]
      <4>1. CASE q = r /\ k = i
        BY <2>1, <4>1, GoroutineStepIs
      <4>2. CASE ~(q = r /\ k = i)
        BY <4>2, GoroutineStepIs
      <4> QED
        BY <4>1, <4>2
    <3> QED
      BY <1>0, <1>6, <1>7, <2>1, <3>1 DEF ManagerTypeOK
  <2>2. CASE at[q][k] \notin {"callback", "cbhandler", "done"}
    <3>1. q = r /\ k = i
      <4>1. q = r
        BY <1>7, <2>2, GoroutineStepIs
      <4>2. k \in {i, i + 1}
        BY <1>7, <2>2, <4>1, GoroutineStepIs
      <4>3. k # i + 1
        <5>1. at'[r][i + 1] = at[r][i + 1] \/ at'[r][i + 1] = "command" \/ i + 1 \notin Index
          BY GoroutineStepIs
        <5> QED
          BY <1>7, <2>2, <4>1, <5>1
      <4> QED
        BY <4>1, <4>2, <4>3
    <3>2. at[r][i] # "callback"
      BY <2>2, <3>1
    <3>3. CASE Handles(r, i)
      <4>1. err' = err
        BY <3>3 DEF Handles
      <4> QED
        BY <1>7, <3>1, <3>3, <4>1 DEF Handles
    <3>4. CASE ~Handles(r, i)
      <4>1. \E e \in {"nil", "failed"} : CommandReturns(r, i, e)
        <5>1. ~Panics(r, i)
          <6>1. at \in [Calls -> [Index -> States]]
            BY <1>0 DEF ManagerTypeOK
          <6> QED
            BY <1>7, <3>1, <6>1 DEF Panics
        <5>2. ~HandlesCallback(r, i)
          BY <2>2, <3>1 DEF HandlesCallback
        <5> QED
          BY <3>2, <3>4, <5>1, <5>2 DEF GoroutineStep, CallbackStops, CallbackRunsNext, CallbackFails
      <4>2. PICK e \in {"nil", "failed"} : CommandReturns(r, i, e)
        BY <4>1
      <4>3. e = "failed"
        BY <1>0, <1>7, <3>1, <4>2 DEF CommandReturns
      <4>4. at'[r][i] = "handler"
        BY <1>0, <1>7, <3>1, <4>2, <4>3 DEF CommandReturns, ManagerTypeOK
      <4> QED
        BY <1>7, <3>1, <4>4
    <3> QED
      BY <3>3, <3>4
  <2> QED
    BY <2>1, <2>2
<1>8. at' \in [Calls -> [Index -> States]] /\ UNCHANGED <<jobs, reg, kind, answer>>
  BY GoroutineStepIs
<1> QED
  BY <1>0, <1>5, <1>6, <1>7, <1>8 DEF ManagerTypeOK, Errors

LEMMA GoroutineKeeps ==
    ASSUME ManagerInv, NEW r \in Calls, NEW i \in Index, GoroutineStep(r, i)
    PROVE  ManagerInv'
<1>0. PlaceInv /\ OneAfterTheOther /\ FailureEndsChain /\ i \in Int
  BY NamesAre DEF ManagerInv, ListsRunInOrder
<1>1. PlaceInv'
  <2> SUFFICES ASSUME NEW q \in Calls, NEW k \in Index
               PROVE  /\ kind'[q] = "none" => at'[q][k] = "none"
                      /\ at'[q][k] = "callback" => k < Len(names)
                      /\ at'[q][k] = "cbhandler" => names[k] \in WithHandler
    BY DEF PlaceInv
  <2>1. kind' = kind /\ (q = r => kind[q] # "none")
    BY <1>0, GoroutineStepIs DEF PlaceInv
  <2>2. CASE at'[q][k] = at[q][k]
    BY <1>0, <2>1, <2>2 DEF PlaceInv
  <2>3. CASE q = r /\ k \in {i, i + 1} /\ at'[q][k] # at[q][k]
    BY <2>1, <2>3, GoroutineStepIs
  <2> QED
    BY <2>2, <2>3, GoroutineStepIs
\* Who follows a job of the list started after it, and does not come back.
<1>2. \A k \in Index : at'[r][k] # "none" /\ at[r][k] = "none" => k = i + 1 /\ at[r][i] = "callback"
  BY GoroutineStepIs
<1>3. OneAfterTheOther'
  <2> SUFFICES ASSUME NEW q \in Calls, NEW j \in Index, at'[q][j] # "none", NEW k \in 1..(j - 1)
               PROVE  at'[q][k] \in {"cbhandler", "done", "panicked"}
    BY DEF OneAfterTheOther, Started
  <2>0. k \in Index /\ k < j /\ k \in Int /\ j \in Int
    BY NamesAre
  <2>1. CASE at[q][j] # "none"
    <3>1. at[q][k] \in {"cbhandler", "done", "panicked"}
      BY <1>0, <2>1 DEF OneAfterTheOther, Started
    <3>2. CASE q = r /\ k = i
      <4>1. at[r][i] = "cbhandler"
        BY <3>1, <3>2, GoroutineStepIs
      <4> QED
        BY <3>2, <4>1, GoroutineStepIs
    <3>3. CASE q = r /\ k = i + 1
      <4>1. i \in 1..(j - 1)
        BY <1>0, <2>0, <3>3, NamesAre
      <4>2. at[r][i] \in {"cbhandler", "done", "panicked"}
        BY <1>0, <2>1, <3>3, <4>1 DEF OneAfterTheOther, Started
      <4>3. at'[r][i + 1] = at[r][i + 1]
        BY <2>0, <3>3, <4>2, GoroutineStepIs
      <4> QED
        BY <3>1, <3>3, <4>3
    <3>4. CASE ~(q = r /\ k \in {i, i + 1})
      BY <2>0, <3>1, <3>4, GoroutineStepIs
    <3> QED
      BY <3>2, <3>3, <3>4
  <2>2. CASE at[q][j] = "none"
    <3>1. q = r /\ j = i + 1 /\ at[r][i] = "callback"
      BY <1>2, <2>2, GoroutineStepIs
    <3>2. at'[r][i] \in {"cbhandler", "done"}
      BY <2>2, <3>1, GoroutineStepIs
    <3>3. CASE k = i
      BY <3>1, <3>2, <3>3
    <3>4. CASE k # i
      <4>1. k \in 1..(i - 1) /\ k # i + 1
        BY <1>0, <2>0, <3>1, <3>4
      <4>2. at[r][k] \in {"cbhandler", "done", "panicked"}
        BY <1>0, <3>1, <4>1 DEF OneAfterTheOther, Started
      <4> QED
        BY <2>0, <3>1, <3>4, <4>1, <4>2, GoroutineStepIs
    <3> QED
      BY <3>3, <3>4
  <2> QED
    BY <2>1, <2>2
<1>4. FailureEndsChain'
  <2> SUFFICES ASSUME NEW q \in Calls, NEW j \in Index, j < Len(names), at'[q][j + 1] # "none"
               PROVE  /\ kind'[q] = "untilError" => err'[q][j] = "nil"
                      /\ at'[q][j] = "panicked" => names[j] \in WithHandler
    BY DEF FailureEndsChain, Started
  <2>0. j + 1 \in Index /\ j \in Int /\ j \in 1..((j + 1) - 1) /\ kind' = kind
    BY NamesAre, GoroutineStepIs
  <2>1. CASE at[q][j + 1] # "none"
    <3>1. at[q][j] \in {"cbhandler", "done", "panicked"}
      BY <1>0, <2>0, <2>1 DEF OneAfterTheOther, Started
    <3>2. /\ kind[q] = "untilError" => err[q][j] = "nil"
          /\ at[q][j] = "panicked" => names[j] \in WithHandler
      BY <1>0, <2>1 DEF FailureEndsChain, Started
    <3>3. err'[q][j] = err[q][j]
      BY <3>1, GoroutineStepIs
    <3>4. at'[q][j] = "panicked" => names[j] \in WithHandler
      <4>1. CASE q = r /\ j = i
        BY <1>0, <3>1, <4>1, GoroutineStepIs DEF PlaceInv
      <4>2. CASE ~(q = r /\ j = i)
        BY <3>2, <4>2, GoroutineStepIs
      <4> QED
        BY <4>1, <4>2
    <3> QED
      BY <2>0, <3>2, <3>3, <3>4
  <2>2. CASE at[q][j + 1] = "none"
    <3>1. q = r /\ j = i /\ at[r][i] = "callback"
      BY <1>0, <1>2, <2>0, <2>2, GoroutineStepIs
    <3>2. /\ at'[r][i] \in {"cbhandler", "done"} /\ ~(err[r][i] # "nil" /\ kind[r] = "untilError")
          /\ err' = err
      BY <2>0, <2>2, <3>1, GoroutineStepIs
    <3> QED
      BY <2>0, <3>1, <3>2
  <2> QED
    BY <2>1, <2>2
<1> QED
  BY <1>1, <1>3, <1>4, GoroutineTypesKeep DEF ManagerInv, ListsRunInOrder

LEMMA ManagerStep == ManagerInv /\ [ManagerNext]_managerVars => ManagerInv'
<1> SUFFICES ASSUME ManagerInv, [ManagerNext]_managerVars PROVE ManagerInv'
  OBVIOUS
<1>1. CASE UNCHANGED managerVars
  BY <1>1 DEF managerVars, ManagerInv, ManagerTypeOK, PlaceInv, ListsRunInOrder, OneAfterTheOther, FailureEndsChain, Started
<1>2. CASE ManagerNext
  BY <1>2, RunKeeps, GoroutineKeeps, RegistrarKeeps DEF ManagerNext
<1> QED
  BY <1>1, <1>2

\* Every way out of a call that stores the job ends with the name in the registry.
LEMMA RegistrarLeavesJob ==
    ASSUME ManagerTypeOK, [ManagerNext]_managerVars, NEW g \in Registrars,
           reg[g].at \in {"store", "unregister", "updelete", "reregister"}, reg'[g].at = "idle"
    PROVE  reg[g].job \in jobs'
<1>1. reg'[g] # reg[g] /\ reg \in [Registrars -> [at : RegStates, job : Jobs]]
  BY DEF ManagerTypeOK
<1>2. RegistrarStep(g)
  <2>1. ~UNCHANGED reg
    BY <1>1
  <2>2. PICK h \in Registrars : RegistrarStep(h)
    <3>1. ASSUME NEW r \in Calls, NEW i \in Index PROVE ~GoroutineStep(r, i)
      BY <2>1 DEF GoroutineStep, CommandReturns, Panics, Handles, CallbackStops, CallbackRunsNext, CallbackFails,
         HandlesCallback
    <3>2. ASSUME NEW r \in Calls, NEW k \in {"all", "untilError"}
          PROVE  ~(RunSync(r) \/ SyncReturns(r) \/ RunSequentially(r, k))
      BY <2>1 DEF RunSync, SyncReturns, RunSequentially
    <3> QED
      BY <2>1, <3>1, <3>2 DEF managerVars, ManagerNext
  <2>3. h = g
    BY <1>1, <2>2, RegistrarStepIs
  <2> QED
    BY <2>2, <2>3
<1>3. CASE RegisterStores(g)
  BY <1>3 DEF RegisterStores
<1>4. CASE UpdateRegisters(g)
  BY <1>1, <1>4 DEF UpdateRegisters, RegistrarGoes
<1>5. ~(UnregisterDeletes(g) \/ \E j \in MayLeave : RegisterMisses(g, j) \/ UnregisterFinds(g, j) \/ UpdateFinds(g, j))
  BY DEF UnregisterDeletes, RegisterMisses, UnregisterFinds, UpdateFinds, RegistrarGoes
<1>6. ~(UpdateUnregisters(g) \/ UpdateDeletes(g))
  BY <1>1 DEF UpdateUnregisters, UpdateDeletes, RegistrarGoes
<1> QED
  BY <1>2, <1>3, <1>4, <1>5, <1>6 DEF RegistrarStep

\* The types, and that an error of a Command has got to the job's ErrorHandler
\* before anything else happens (job_manager.go:78-84).
THEOREM ManagerTypes == ManagerSpec => []ManagerTypeOK
<1>1. ManagerInv => ManagerTypeOK
  BY DEF ManagerInv
<1> QED
  BY <1>1, ManagerInitially, ManagerStep, PTL DEF ManagerSpec

\* For any list, calls and registrars: the jobs of a list run in its order, and none
\* after a failure that ends it (job_manager.go:69-89, 262-317).
THEOREM ListsAreInOrder == ManagerSpec => []ListsRunInOrder
<1>1. ManagerInv => ListsRunInOrder
  BY DEF ManagerInv
<1> QED
  BY <1>1, ManagerInitially, ManagerStep, PTL DEF ManagerSpec

\* However many goroutines register, unregister and update jobs at once, a call that
\* is to leave its job registered does (job_manager.go:196-239).
THEOREM JobsAreLeft == ManagerSpec => UpdateLeavesJob
<1>1. ManagerTypeOK /\ [ManagerNext]_managerVars =>
        [\A g \in Registrars :
            /\ reg[g].at \in {"store", "unregister", "updelete", "reregister"}
            /\ reg'[g].at = "idle"
            => reg[g].job \in jobs']_managerVars
  BY RegistrarLeavesJob
<1> QED
  BY <1>1, ManagerTypes, PTL DEF ManagerSpec, UpdateLeavesJob
=============================================================================
