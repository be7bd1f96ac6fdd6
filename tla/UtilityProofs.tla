---------------------------- MODULE UtilityProofs ----------------------------
(***************************************************************************)
(* Proofs about the parts of an application that its handlers call: the    *)
(* domain stores, for any number of validations and any hosts and domains; *)
(* the default logger, for chains of any length, the strings it writes and *)
(* the lines it puts them in; the tunnels of the HTTP client and the       *)
(* scopes of an API key, for lists of any length.  The loops of all but    *)
(* the stores are folds: what is known of a fold is derived from the       *)
(* states between its steps, which a least counterexample shows to exist   *)
(* (MigrationsProofs has the lemmas on least and greatest elements).       *)
(***************************************************************************)
EXTENDS DomainStore, DefaultLogger, LogText, LogLine, HttpClient, Scopes, MigrationsProofs, SequenceTheorems, TLAPS

-----------------------------------------------------------------------------
(* DomainStore: the inductive invariant. *)

Untouched(v, s) == expired[v][s] = -1 /\ used[v][s] = 0
Judged(v, s) == expired[v][s] >= 0 /\ used[v][s] > expired[v][s]

\* How far a call is with the store s it asks, and that it is done with the one
\* before: from its fetch on the domains are newer than those it found expired.
Waits(v, s) == expired[v][s] >= 0 /\ expired[v][s] <= domains[s].number /\ used[v][s] = 0
Fetched(v, s) == expired[v][s] >= 0 /\ expired[v][s] < domains[s].number /\ used[v][s] = 0
Before(v, s) == IF s = "crm" THEN Untouched(v, "box") ELSE Judged(v, "crm")

ProgressAt(v, s, step) ==
    CASE step = "new" -> s = "crm" /\ Untouched(v, "crm") /\ Untouched(v, "box")
      [] step = "match" -> Untouched(v, s) /\ Before(v, s)
      [] step \in {"wants lock", "fetches"} -> Waits(v, s) /\ Before(v, s)
      [] step \in {"stamps", "reads"} -> Fetched(v, s) /\ Before(v, s)
      [] step = "valid" -> Judged(v, s) /\ Before(v, s)
      [] step = "invalid" -> \/ s = "crm" /\ Untouched(v, "crm") /\ Untouched(v, "box")
                             \/ s = "box" /\ Judged(v, "crm") /\ Judged(v, "box")

Progress(v) == ProgressAt(v, validation[v].store, validation[v].step)

\* Somebody has fetched what is recent.
RecentIsFetched == \A s \in Stores : recent[s] => domains[s].number > 0

DomainsInv == DomainsTypeOK /\ RecentIsFetched /\ \A v \in Validations : Progress(v)

LEMMA DomainsInitially == DomainsInit => DomainsInv
<1> SUFFICES ASSUME DomainsInit PROVE DomainsInv
  OBVIOUS
<1>1. DomainsTypeOK
  BY NobodyAssumption DEF DomainsInit, DomainsTypeOK, Stores, Steps
<1>2. RecentIsFetched
  BY DEF DomainsInit, RecentIsFetched
<1>3. ASSUME NEW v \in Validations PROVE Progress(v)
  <2>1. Untouched(v, "crm") /\ Untouched(v, "box")
    BY DEF DomainsInit, Untouched, Stores
  <2>2. validation[v].store = "crm" /\ validation[v].step = "new"
    BY DEF DomainsInit
  <2> QED
    BY <2>1, <2>2 DEF Progress, ProgressAt
<1> QED
  BY <1>1, <1>2, <1>3 DEF DomainsInv

-----------------------------------------------------------------------------
LEMMA Types ==
    ASSUME DomainsTypeOK, NEW v \in Validations, NEW s \in Stores
    PROVE  /\ domains[s].number \in Nat
           /\ expired[v][s] \in Int /\ used[v][s] \in Nat
           /\ validation[v].store \in Stores /\ validation[v].step \in Steps
BY DEF DomainsTypeOK

LEMMA TypesNext ==
    ASSUME DomainsTypeOK', NEW v \in Validations, NEW s \in Stores
    PROVE  domains'[s].number \in Nat /\ expired'[v][s] \in Int /\ used'[v][s] \in Nat
BY DEF DomainsTypeOK

\* What is known of a call and a store stays true while its history stays and fetches
\* are counted upwards.
LEMMA HistoryStays ==
    ASSUME NEW v \in Validations, NEW s \in Stores, DomainsTypeOK, DomainsTypeOK',
           expired'[v][s] = expired[v][s], used'[v][s] = used[v][s],
           domains'[s].number >= domains[s].number
    PROVE  /\ Untouched(v, s) => Untouched(v, s)'
           /\ Judged(v, s) => Judged(v, s)'
           /\ Waits(v, s) => Waits(v, s)'
           /\ Fetched(v, s) => Fetched(v, s)'
<1>1. /\ domains[s].number \in Nat /\ domains'[s].number \in Nat
      /\ expired[v][s] \in Int
  BY Types, TypesNext
<1> QED
  BY <1>1 DEF Untouched, Judged, Waits, Fetched

\* So does what is known of the store before s.
LEMMA BeforeStays ==
    ASSUME NEW v \in Validations, NEW s \in Stores, Before(v, s),
           \A o \in Stores \ {s} : expired'[v][o] = expired[v][o] /\ used'[v][o] = used[v][o]
    PROVE  Before(v, s)'
<1>1. "crm" \in Stores /\ "box" \in Stores /\ (s = "crm" \/ s = "box")
  BY DEF Stores
<1>2. CASE s = "crm"
  BY <1>1, <1>2 DEF Before, Untouched
<1>3. CASE s = "box"
  BY <1>1, <1>3 DEF Before, Judged
<1> QED
  BY <1>1, <1>2, <1>3

\* A call that does not move.
LEMMA OthersProgress ==
    ASSUME NEW w \in Validations, DomainsTypeOK, DomainsTypeOK', Progress(w),
           validation'[w] = validation[w], expired'[w] = expired[w], used'[w] = used[w],
           \A o \in Stores : domains'[o].number >= domains[o].number
    PROVE  Progress(w)'
<1> DEFINE s == validation[w].store
           step == validation[w].step
<1>1. s \in Stores /\ "crm" \in Stores /\ "box" \in Stores /\ step \in Steps
  BY Types DEF Stores
<1>2. \A o \in Stores : /\ Untouched(w, o) => Untouched(w, o)'
                        /\ Judged(w, o) => Judged(w, o)'
                        /\ Waits(w, o) => Waits(w, o)'
                        /\ Fetched(w, o) => Fetched(w, o)'
  BY HistoryStays
<1>3. Before(w, s) => Before(w, s)'
  BY <1>1, BeforeStays
<1>4. ProgressAt(w, s, step)
  BY DEF Progress
<1>5. /\ validation'[w].store = s /\ validation'[w].step = step
      /\ \A o \in Stores : (Untouched(w, o) => Untouched(w, o)')
  BY <1>2
<1>6. ASSUME NEW t \in Stores, NEW p \in Steps, t = s, p = step
      PROVE  ProgressAt(w, t, p)'
  <2>1. Before(w, t) => Before(w, t)'
    BY <1>3, <1>6, BeforeStays
  <2>2. ProgressAt(w, t, p)
    BY <1>4, <1>6
  <2> QED
    BY <1>1, <1>2, <2>1, <2>2 DEF ProgressAt, Steps
<1> QED
  BY <1>1, <1>5, <1>6 DEF Progress

\* All calls but one do not move.
LEMMA OneMoves ==
    ASSUME NEW v \in Validations, DomainsInv, DomainsTypeOK', Progress(v)', RecentIsFetched',
           \A w \in Validations \ {v} :
               validation'[w] = validation[w] /\ expired'[w] = expired[w] /\ used'[w] = used[w],
           \A o \in Stores : domains'[o].number >= domains[o].number
    PROVE  DomainsInv'
BY OthersProgress DEF DomainsInv

LEMMA GoesMoves ==
    ASSUME NEW v \in Validations, NEW from, NEW step \in Steps, DomainsTypeOK, Goes(v, from, step)
    PROVE  /\ validation[v].step = from
           /\ validation'[v].step = step /\ validation'[v].store = validation[v].store
           /\ \A w \in Validations \ {v} : validation'[w] = validation[w]
           /\ validation' \in [Validations -> [step : Steps, store : Stores]]
<1>1. validation[v] \in [step : Steps, store : Stores]
  BY DEF DomainsTypeOK
<1>2. [validation[v] EXCEPT !.step = step] = [step |-> step, store |-> validation[v].store]
  BY <1>1
<1>3. validation' = [validation EXCEPT ![v] = [step |-> step, store |-> validation[v].store]]
  BY <1>2 DEF Goes
<1>4. [step |-> step, store |-> validation[v].store] \in [step : Steps, store : Stores]
  BY <1>1
<1>5. validation[v].step = from
  BY DEF Goes
<1>6. validation \in [Validations -> [step : Steps, store : Stores]]
  BY DEF DomainsTypeOK
<1> QED
  BY <1>3, <1>4, <1>5, <1>6

\* A call that neither gets nor gives back a mutex leaves all types as they are.
Holds(v, s) == validation[v].store = s /\ validation[v].step \in {"fetches", "stamps"}

LEMMA TypesStay ==
    ASSUME NEW v \in Validations, DomainsTypeOK, UNCHANGED writer,
           domains' \in [Stores -> [number : Nat, names : SUBSET DomainNames]],
           recent' \in [Stores -> BOOLEAN],
           validation' \in [Validations -> [step : Steps, store : Stores]],
           expired' \in [Validations -> [Stores -> Int]], used' \in [Validations -> [Stores -> Nat]],
           \A w \in Validations \ {v} : validation'[w] = validation[w],
           \A s \in Stores : Holds(v, s)' <=> Holds(v, s)
    PROVE  DomainsTypeOK'
<1>1. \A w \in Validations, s \in Stores : Holds(w, s)' <=> Holds(w, s)
  BY DEF Holds
<1>2. \A w \in Validations, s \in Stores : writer[s] = w <=> Holds(w, s)
  BY DEF DomainsTypeOK, Holds
<1>3. \A w \in Validations, s \in Stores : writer'[s] = w <=> Holds(w, s)'
  BY <1>1, <1>2
<1>4. writer' \in [Stores -> Validations \cup {"nobody"}]
  BY DEF DomainsTypeOK
<1> QED
  BY <1>3, <1>4 DEF DomainsTypeOK, Holds

LEMMA ProgressIs ==
    ASSUME NEW v \in Validations, DomainsInv, NEW s, NEW step,
           validation[v].store = s, validation[v].step = step
    PROVE  ProgressAt(v, s, step)
BY DEF DomainsInv, Progress

\* With no fetch under way, what is fetched stays.
LEMMA SameDomains ==
    ASSUME DomainsTypeOK, UNCHANGED domains
    PROVE  \A o \in Stores : domains'[o].number >= domains[o].number
BY DEF DomainsTypeOK

LEMMA CheckURLKeeps == ASSUME NEW v \in Validations, DomainsInv, CheckURL(v) PROVE DomainsInv'
<1>0. DomainsTypeOK
  BY DEF DomainsInv
<1>1. PICK step \in {"match", "invalid"} : Goes(v, "new", step)
  BY DEF CheckURL
<1>2. UNCHANGED <<domains, recent, writer, urlHost, expired, used>>
  BY DEF CheckURL
<1>3. /\ validation[v].step = "new"
      /\ validation'[v].step = step /\ validation'[v].store = validation[v].store
      /\ \A w \in Validations \ {v} : validation'[w] = validation[w]
      /\ validation' \in [Validations -> [step : Steps, store : Stores]]
  BY <1>0, <1>1, GoesMoves, ZenonT(30) DEF Steps
<1>4. DomainsTypeOK'
  <2>1. \A o \in Stores : Holds(v, o)' <=> Holds(v, o)
    BY <1>1, <1>3 DEF Holds
  <2> QED
    BY <1>0, <1>2, <1>3, <2>1, TypesStay DEF DomainsTypeOK
<1>5. validation[v].store = "crm" /\ Untouched(v, "crm") /\ Untouched(v, "box")
  BY <1>3, ProgressIs DEF ProgressAt
<1>6. Untouched(v, "crm")' /\ Untouched(v, "box")'
  BY <1>2, <1>5 DEF Untouched
<1>7. ProgressAt(v, "crm", step)'
  BY <1>6 DEF ProgressAt, Before
<1>8. Progress(v)'
  BY <1>3, <1>5, <1>7 DEF Progress
<1>9. RecentIsFetched'
  BY <1>2 DEF DomainsInv, RecentIsFetched
<1> QED
  BY <1>0, <1>2, <1>3, <1>4, <1>8, <1>9, SameDomains, OneMoves

LEMMA MatchKeeps ==
    ASSUME NEW v \in Validations, NEW s \in Stores, DomainsInv, Match(v, s) PROVE DomainsInv'
<1> DEFINE step == IF recent[s] THEN "reads" ELSE "wants lock"
<1>0. DomainsTypeOK
  BY DEF DomainsInv
<1>1. /\ validation[v].step = "match" /\ validation[v].store = s
      /\ validation'[v].step = step /\ validation'[v].store = s
      /\ \A w \in Validations \ {v} : validation'[w] = validation[w]
      /\ validation' \in [Validations -> [step : Steps, store : Stores]]
  BY <1>0, GoesMoves DEF Match, Steps
<1>2. UNCHANGED <<domains, recent, writer, urlHost, used>>
  BY DEF Match
<1>3. domains[s].number \in Nat
  BY <1>0, Types
<1>4. /\ expired'[v][s] = domains[s].number - (IF recent[s] THEN 1 ELSE 0)
      /\ \A o \in Stores \ {s} : expired'[v][o] = expired[v][o]
      /\ \A w \in Validations \ {v} : expired'[w] = expired[w]
      /\ expired' \in [Validations -> [Stores -> Int]]
  <2> DEFINE n == domains[s].number - (IF recent[s] THEN 1 ELSE 0)
  <2>1. expired' = [expired EXCEPT ![v] = [expired[v] EXCEPT ![s] = n]]
    BY DEF Match
  <2>2. expired \in [Validations -> [Stores -> Int]] /\ n \in Int
    BY <1>0, <1>3 DEF DomainsTypeOK
  <2>3. expired'[v] = [expired[v] EXCEPT ![s] = n] /\ expired[v] \in [Stores -> Int]
    BY <2>1, <2>2
  <2>4. expired'[v] \in [Stores -> Int]
    BY <2>2, <2>3
  <2>5. expired'[v][s] = n /\ \A o \in Stores \ {s} : expired'[v][o] = expired[v][o]
    BY <2>3
  <2>6. /\ \A w \in Validations \ {v} : expired'[w] = expired[w]
        /\ expired' \in [Validations -> [Stores -> Int]]
    <3> HIDE DEF n
    <3> QED
      BY <2>1, <2>2, <2>3, <2>4
  <2> QED
    BY <2>5, <2>6
<1>5. DomainsTypeOK'
  <2>1. \A o \in Stores : Holds(v, o)' <=> Holds(v, o)
    BY <1>1 DEF Holds
  <2> QED
    BY <1>0, <1>1, <1>2, <1>4, <2>1, TypesStay DEF DomainsTypeOK
<1>6. recent[s] => domains[s].number > 0
  BY DEF DomainsInv, RecentIsFetched
<1>7. Untouched(v, s) /\ Before(v, s)
  BY <1>1, ProgressIs DEF ProgressAt
<1>8. Before(v, s)'
  BY <1>2, <1>4, <1>7, BeforeStays
<1>9. IF recent[s] THEN Fetched(v, s)' ELSE Waits(v, s)'
  BY <1>2, <1>3, <1>4, <1>6, <1>7 DEF Untouched, Fetched, Waits
<1>10. ProgressAt(v, s, step)'
  BY <1>2, <1>8, <1>9 DEF ProgressAt
<1>11. Progress(v)'
  BY <1>1, <1>2, <1>10 DEF Progress
<1>12. RecentIsFetched'
  BY <1>2 DEF DomainsInv, RecentIsFetched
<1> QED
  BY <1>0, <1>1, <1>2, <1>4, <1>5, <1>11, <1>12, SameDomains, OneMoves

LEMMA LockKeeps ==
    ASSUME NEW v \in Validations, NEW s \in Stores, DomainsInv, Lock(v, s) PROVE DomainsInv'
<1>0. DomainsTypeOK
  BY DEF DomainsInv
<1>1. /\ validation[v].step = "wants lock" /\ validation[v].store = s
      /\ validation'[v].step = "fetches" /\ validation'[v].store = s
      /\ \A w \in Validations \ {v} : validation'[w] = validation[w]
      /\ validation' \in [Validations -> [step : Steps, store : Stores]]
  BY <1>0, GoesMoves DEF Lock, Steps
<1>2. UNCHANGED <<domains, recent, urlHost, expired, used>> /\ writer[s] = "nobody"
  BY DEF Lock
<1>3. writer' = [writer EXCEPT ![s] = v]
  BY DEF Lock
<1>4. DomainsTypeOK'
  <2>1. writer' \in [Stores -> Validations \cup {"nobody"}] /\ writer'[s] = v
    BY <1>0, <1>3 DEF DomainsTypeOK
  <2>2. \A w \in Validations, o \in Stores : writer[o] = w <=> Holds(w, o)
    BY <1>0 DEF DomainsTypeOK, Holds
  <2>3. \A w \in Validations \ {v}, o \in Stores : Holds(w, o)' <=> Holds(w, o)
    BY <1>1 DEF Holds
  <2>4. \A o \in Stores : ~Holds(v, o) /\ (Holds(v, o)' <=> o = s)
    BY <1>1 DEF Holds
  <2>5. \A o \in Stores \ {s} : writer'[o] = writer[o]
    BY <1>0, <1>3 DEF DomainsTypeOK
  <2>6. \A w \in Validations : ~Holds(w, s)
    BY <1>2, <2>2, NobodyAssumption
  <2>7. \A w \in Validations, o \in Stores : writer'[o] = w <=> Holds(w, o)'
    BY <2>1, <2>2, <2>3, <2>4, <2>5, <2>6
  <2> QED
    BY <1>0, <1>1, <1>2, <2>1, <2>7 DEF DomainsTypeOK, Holds
<1>5. Waits(v, s) /\ Before(v, s)
  BY <1>1, ProgressIs DEF ProgressAt
<1>6. Waits(v, s)' /\ Before(v, s)'
  BY <1>2, <1>5, BeforeStays DEF Waits
<1>7. ProgressAt(v, s, "fetches")'
  BY <1>6 DEF ProgressAt
<1>8. Progress(v)'
  BY <1>1, <1>7 DEF Progress
<1>9. RecentIsFetched'
  BY <1>2 DEF DomainsInv, RecentIsFetched
<1> QED
  BY <1>0, <1>1, <1>2, <1>4, <1>8, <1>9, SameDomains, OneMoves

LEMMA UpdateKeeps ==
    ASSUME NEW v \in Validations, NEW s \in Stores, NEW fetch \in SUBSET DomainNames,
           DomainsInv, Update(v, s, fetch)
    PROVE  DomainsInv'
<1>0. DomainsTypeOK
  BY DEF DomainsInv
<1>1. /\ validation[v].step = "fetches" /\ validation[v].store = s
      /\ validation'[v].step = "stamps" /\ validation'[v].store = s
      /\ \A w \in Validations \ {v} : validation'[w] = validation[w]
      /\ validation' \in [Validations -> [step : Steps, store : Stores]]
  BY <1>0, GoesMoves DEF Update, Steps
<1>2. UNCHANGED <<recent, writer, urlHost, expired, used>>
  BY DEF Update
<1>3. /\ domains'[s].number = domains[s].number + 1
      /\ \A o \in Stores \ {s} : domains'[o] = domains[o]
      /\ domains' \in [Stores -> [number : Nat, names : SUBSET DomainNames]]
  BY <1>0 DEF Update, DomainsTypeOK
<1>4. DomainsTypeOK'
  <2>1. \A o \in Stores : Holds(v, o)' <=> Holds(v, o)
    BY <1>1 DEF Holds
  <2> QED
    BY <1>0, <1>1, <1>2, <1>3, <2>1, TypesStay DEF DomainsTypeOK
<1>5. domains[s].number \in Nat /\ expired[v][s] \in Int
  BY <1>0, Types
<1>6. Waits(v, s) /\ Before(v, s)
  BY <1>1, ProgressIs DEF ProgressAt
<1>7. Fetched(v, s)' /\ Before(v, s)'
  BY <1>2, <1>3, <1>5, <1>6, BeforeStays DEF Waits, Fetched
<1>8. ProgressAt(v, s, "stamps")'
  BY <1>7 DEF ProgressAt
<1>9. Progress(v)'
  BY <1>1, <1>8 DEF Progress
<1>10. \A o \in Stores : domains[o].number \in Nat
  BY <1>0 DEF DomainsTypeOK
<1>11. \A o \in Stores : domains'[o].number >= domains[o].number
  BY <1>3, <1>10
<1>12. RecentIsFetched'
  <2> SUFFICES ASSUME NEW o \in Stores, recent[o] PROVE domains'[o].number > 0
    BY <1>2 DEF RecentIsFetched
  <2>1. domains[o].number > 0
    BY DEF DomainsInv, RecentIsFetched
  <2> QED
    BY <1>3, <1>10, <2>1
<1> QED
  BY <1>0, <1>1, <1>2, <1>4, <1>9, <1>11, <1>12, OneMoves

LEMMA StampKeeps ==
    ASSUME NEW v \in Validations, NEW s \in Stores, DomainsInv, Stamp(v, s) PROVE DomainsInv'
<1>0. DomainsTypeOK
  BY DEF DomainsInv
<1>1. /\ validation[v].step = "stamps" /\ validation[v].store = s
      /\ validation'[v].step = "reads" /\ validation'[v].store = s
      /\ \A w \in Validations \ {v} : validation'[w] = validation[w]
      /\ validation' \in [Validations -> [step : Steps, store : Stores]]
  BY <1>0, GoesMoves DEF Stamp, Steps
<1>2. UNCHANGED <<domains, urlHost, expired, used>>
  BY DEF Stamp
<1>3. writer' = [writer EXCEPT ![s] = "nobody"] /\ recent' = [recent EXCEPT ![s] = TRUE]
  BY DEF Stamp
<1>4. writer[s] = v
  BY <1>0, <1>1 DEF DomainsTypeOK
<1>5. DomainsTypeOK'
  <2>1. /\ writer' \in [Stores -> Validations \cup {"nobody"}] /\ writer'[s] = "nobody"
        /\ recent' \in [Stores -> BOOLEAN]
    BY <1>0, <1>3 DEF DomainsTypeOK
  <2>2. \A w \in Validations, o \in Stores : writer[o] = w <=> Holds(w, o)
    BY <1>0 DEF DomainsTypeOK, Holds
  <2>3. \A w \in Validations \ {v}, o \in Stores : Holds(w, o)' <=> Holds(w, o)
    BY <1>1 DEF Holds
  <2>4. \A o \in Stores : (Holds(v, o) <=> o = s) /\ ~Holds(v, o)'
    BY <1>1 DEF Holds
  <2>5. \A o \in Stores \ {s} : writer'[o] = writer[o]
    BY <1>0, <1>3 DEF DomainsTypeOK
  <2>6. \A w \in Validations, o \in Stores : writer'[o] = w <=> Holds(w, o)'
    BY <1>4, <2>1, <2>2, <2>3, <2>4, <2>5, NobodyAssumption
  <2> QED
    BY <1>0, <1>1, <1>2, <2>1, <2>6 DEF DomainsTypeOK, Holds
<1>6. Fetched(v, s) /\ Before(v, s)
  BY <1>1, ProgressIs DEF ProgressAt
<1>7. Fetched(v, s)' /\ Before(v, s)'
  BY <1>2, <1>6, BeforeStays DEF Fetched
<1>8. ProgressAt(v, s, "reads")'
  BY <1>7 DEF ProgressAt
<1>9. Progress(v)'
  BY <1>1, <1>8 DEF Progress
<1>10. domains[s].number \in Nat /\ expired[v][s] \in Int
  BY <1>0, Types
<1>11. domains[s].number > 0
  BY <1>6, <1>10 DEF Fetched
<1>12. RecentIsFetched'
  BY <1>0, <1>2, <1>3, <1>11 DEF DomainsInv, RecentIsFetched, DomainsTypeOK
<1> QED
  BY <1>0, <1>1, <1>2, <1>5, <1>9, <1>12, SameDomains, OneMoves

LEMMA ReadKeeps ==
    ASSUME NEW v \in Validations, NEW s \in Stores, DomainsInv, Read(v, s) PROVE DomainsInv'
<1> DEFINE yes == Matcher(s, urlHost[v], domains[s].names)
<1>0. DomainsTypeOK
  BY DEF DomainsInv
<1>1. validation[v].step = "reads" /\ validation[v].store = s
  BY DEF Read
<1>2. validation' = [validation EXCEPT ![v] =
            IF yes THEN [@ EXCEPT !.step = "valid"]
            ELSE IF s = "crm" THEN [step |-> "match", store |-> "box"]
            ELSE [@ EXCEPT !.step = "invalid"]]
  BY DEF Read
<1>3. \E t \in Stores, step \in {"valid", "match", "invalid"} :
        /\ validation'[v].store = t /\ validation'[v].step = step
        /\ validation'[v] \in [step : Steps, store : Stores]
        /\ step = "valid" => t = s
        /\ step = "match" => s = "crm" /\ t = "box"
        /\ step = "invalid" => s = "box" /\ t = "box"
  <2>1. validation[v] \in [step : Steps, store : Stores] /\ (s = "crm" \/ s = "box")
    BY <1>0 DEF DomainsTypeOK, Stores
  <2>5. validation \in [Validations -> [step : Steps, store : Stores]]
    BY <1>0 DEF DomainsTypeOK
  <2> HIDE DEF yes
  <2> DEFINE next == IF yes THEN [validation[v] EXCEPT !.step = "valid"]
                     ELSE IF s = "crm" THEN [step |-> "match", store |-> "box"]
                     ELSE [validation[v] EXCEPT !.step = "invalid"]
  <2>6. validation'[v] = next
    <3>1. validation' = [validation EXCEPT ![v] = next]
      BY <1>2
    <3> HIDE DEF next
    <3> QED
      BY <2>5, <3>1
  <2>2. CASE yes
    <3>1. validation'[v] = [validation[v] EXCEPT !.step = "valid"]
      BY <2>2, <2>6
    <3>2. validation'[v] = [step |-> "valid", store |-> s]
      BY <1>1, <2>1, <3>1
    <3> QED
      BY <3>2 DEF Steps
  <2>3. CASE ~yes /\ s = "crm"
    <3>1. validation'[v] = [step |-> "match", store |-> "box"]
      BY <2>3, <2>6
    <3>2. "box" \in Stores
      BY DEF Stores
    <3> QED
      BY <2>3, <3>1, <3>2 DEF Steps
  <2>4. CASE ~yes /\ s = "box"
    <3>1. validation'[v] = [validation[v] EXCEPT !.step = "invalid"]
      BY <2>4, <2>6
    <3>2. validation'[v] = [step |-> "invalid", store |-> s]
      BY <1>1, <2>1, <3>1
    <3> QED
      BY <2>4, <3>2 DEF Steps
  <2> QED
    BY <2>1, <2>2, <2>3, <2>4
<1>4. PICK t \in Stores, step \in {"valid", "match", "invalid"} :
        /\ validation'[v].store = t /\ validation'[v].step = step
        /\ validation'[v] \in [step : Steps, store : Stores]
        /\ step = "valid" => t = s
        /\ step = "match" => s = "crm" /\ t = "box"
        /\ step = "invalid" => s = "box" /\ t = "box"
  BY <1>3
<1>5. /\ \A w \in Validations \ {v} : validation'[w] = validation[w]
      /\ validation' \in [Validations -> [step : Steps, store : Stores]]
  BY <1>0, <1>2, <1>4 DEF DomainsTypeOK
<1>6. UNCHANGED <<domains, recent, writer, urlHost, expired>> /\ writer[s] = "nobody"
  BY DEF Read
<1>7. domains[s].number \in Nat /\ expired[v][s] \in Int
  BY <1>0, Types
<1>8. /\ used'[v][s] = domains[s].number
      /\ \A o \in Stores \ {s} : used'[v][o] = used[v][o]
      /\ \A w \in Validations \ {v} : used'[w] = used[w]
      /\ used' \in [Validations -> [Stores -> Nat]]
  BY <1>0, <1>7 DEF Read, DomainsTypeOK
<1>9. DomainsTypeOK'
  <2>1. \A o \in Stores : Holds(v, o)' <=> Holds(v, o)
    BY <1>1, <1>4 DEF Holds
  <2> QED
    BY <1>0, <1>5, <1>6, <1>8, <2>1, TypesStay DEF DomainsTypeOK
<1>10. Fetched(v, s) /\ Before(v, s)
  BY <1>1, ProgressIs, ZenonT(30) DEF ProgressAt
<1>11. Judged(v, s)' /\ Before(v, s)'
  BY <1>6, <1>7, <1>8, <1>10, BeforeStays DEF Fetched, Judged
<1>12. ProgressAt(v, t, step)'
  BY <1>4, <1>11 DEF ProgressAt, Before
<1>13. Progress(v)'
  BY <1>4, <1>12 DEF Progress
<1>14. RecentIsFetched'
  BY <1>6 DEF DomainsInv, RecentIsFetched
<1> QED
  BY <1>0, <1>5, <1>6, <1>8, <1>9, <1>13, <1>14, SameDomains, OneMoves

LEMMA HourPassesKeeps == ASSUME NEW s \in Stores, DomainsInv, HourPasses(s) PROVE DomainsInv'
<1>0. DomainsTypeOK
  BY DEF DomainsInv
<1>1. UNCHANGED <<domains, writer, validation, urlHost, expired, used>>
  BY DEF HourPasses
<1>2. recent' = [recent EXCEPT ![s] = FALSE]
  BY DEF HourPasses
<1>3. DomainsTypeOK'
  BY <1>0, <1>1, <1>2 DEF DomainsTypeOK
<1>4. RecentIsFetched'
  BY <1>0, <1>1, <1>2 DEF DomainsInv, DomainsTypeOK, RecentIsFetched
<1>5. \A v \in Validations : Progress(v)'
  BY <1>0, <1>1, <1>3, SameDomains, OthersProgress DEF DomainsInv
<1> QED
  BY <1>3, <1>4, <1>5 DEF DomainsInv

LEMMA DomainsStep == DomainsInv /\ [DomainsNext]_domainVars => DomainsInv'
<1> SUFFICES ASSUME DomainsInv, [DomainsNext]_domainVars PROVE DomainsInv'
  OBVIOUS
<1>1. CASE UNCHANGED domainVars
  <2>1. DomainsTypeOK /\ DomainsTypeOK' /\ RecentIsFetched'
    BY <1>1 DEF domainVars, DomainsInv, DomainsTypeOK, RecentIsFetched
  <2>2. \A v \in Validations : Progress(v)'
    BY <1>1, <2>1, SameDomains, OthersProgress DEF domainVars, DomainsInv
  <2> QED
    BY <2>1, <2>2 DEF DomainsInv
<1> QED
  BY <1>1, CheckURLKeeps, MatchKeeps, LockKeeps, UpdateKeeps, StampKeeps, ReadKeeps, HourPassesKeeps
     DEF DomainsNext

LEMMA DomainsInvIsEnough == DomainsInv => JudgedByFreshDomains
<1> SUFFICES ASSUME DomainsInv, NEW v \in Validations
             PROVE  /\ \A s \in Stores : used[v][s] # 0 => used[v][s] > expired[v][s]
                    /\ \A s \in Stores : validation[v].step \in {"valid", "invalid"} /\ expired[v][s] # -1
                                            => used[v][s] # 0
                    /\ validation[v].step = "invalid" => (used[v]["crm"] = 0 <=> used[v]["box"] = 0)
  BY DEF JudgedByFreshDomains
<1>1. /\ expired[v]["crm"] \in Int /\ used[v]["crm"] \in Nat
      /\ expired[v]["box"] \in Int /\ used[v]["box"] \in Nat
      /\ validation[v].store \in Stores /\ validation[v].step \in Steps
  BY Types DEF DomainsInv, Stores
<1>2. ProgressAt(v, validation[v].store, validation[v].step)
  BY ProgressIs
<1>3. ASSUME NEW s \in Stores, NEW step \in Steps, ProgressAt(v, s, step)
      PROVE  /\ used[v]["crm"] # 0 => used[v]["crm"] > expired[v]["crm"]
             /\ used[v]["box"] # 0 => used[v]["box"] > expired[v]["box"]
             /\ step \in {"valid", "invalid"} => /\ expired[v]["crm"] # -1 => used[v]["crm"] # 0
                                                 /\ expired[v]["box"] # -1 => used[v]["box"] # 0
             /\ step = "invalid" => (used[v]["crm"] = 0 <=> used[v]["box"] = 0)
  <2>1. CASE s = "crm"
    <3>1. \/ step \notin {"valid", "invalid"} /\ used[v]["crm"] = 0 /\ used[v]["box"] = 0
          \/ step = "valid" /\ Judged(v, "crm") /\ Untouched(v, "box")
          \/ step = "invalid" /\ Untouched(v, "crm") /\ Untouched(v, "box")
      BY <1>3, <2>1 DEF ProgressAt, Before, Untouched, Waits, Fetched, Steps
    <3> QED
      BY <1>1, <3>1 DEF Untouched, Judged
  <2>2. CASE s = "box"
    <3>1. Judged(v, "crm") /\ (\/ step \notin {"valid", "invalid"} /\ used[v]["box"] = 0
                               \/ step \in {"valid", "invalid"} /\ Judged(v, "box"))
      BY <1>3, <2>2 DEF ProgressAt, Before, Untouched, Waits, Fetched, Steps
    <3> QED
      BY <1>1, <3>1 DEF Judged
  <2> QED
    BY <2>1, <2>2 DEF Stores
<1> QED
  BY <1>1, <1>2, <1>3 DEF Stores

-----------------------------------------------------------------------------
\* Type correctness, and that the mutex of a store is held by the call that fetches
\* (validator.go:68-73).
THEOREM DomainsTypes == DomainsSpec => []DomainsTypeOK
<1>1. DomainsInv => DomainsTypeOK
  BY DEF DomainsInv
<1> QED
  BY <1>1, DomainsInitially, DomainsStep, PTL DEF DomainsSpec

\* For any number of validations side by side, none judges by domains that it found
\* expired (validator.go:59-73, 91-103).
THEOREM DomainsAreFresh == DomainsSpec => []JudgedByFreshDomains
BY DomainsInitially, DomainsStep, DomainsInvIsEnough, PTL DEF DomainsSpec

-----------------------------------------------------------------------------
(* Greatest elements. *)

LEMMA GreatestIs == ASSUME NEW n \in Nat, NEW S, S \subseteq 1..n, n \in S PROVE Max(S) = n
<1>1. \A x \in S : (\A y \in S : x >= y) => x = n
  OBVIOUS
<1>2. \A y \in S : n >= y
  OBVIOUS
<1> QED
  BY <1>1, <1>2 DEF Max

LEMMA Initials ==
    ASSUME NEW n \in Nat, NEW i \in 1..n
    PROVE  /\ Max(1..i) = i /\ 1..i \in SUBSET (1..n) /\ 1..i # {}
           /\ (1..i) \ {i} = 1..(i - 1) /\ i - 1 \in 0..n
<1>1. i \in Nat /\ i \in 1..i /\ 1..i \subseteq 1..i
  OBVIOUS
<1>2. Max(1..i) = i
  BY <1>1, GreatestIs
<1>3. 1..i \in SUBSET (1..n) /\ (1..i) \ {i} = 1..(i - 1) /\ i - 1 \in 0..n
  OBVIOUS
<1> QED
  BY <1>1, <1>2, <1>3

LEMMA GreatestOf ==
    ASSUME NEW n \in Nat, NEW S \in SUBSET (1..n), S # {}
    PROVE  Max(S) \in 1..n /\ S \ {Max(S)} \in SUBSET (1..n)
<1>1. IsFiniteSet(1..n)
  BY FS_Interval
<1>2. IsFiniteSet(S)
  BY <1>1, FS_Subset
<1>3. S \subseteq Nat
  OBVIOUS
<1> QED
  BY <1>2, <1>3, MaxIs

-----------------------------------------------------------------------------
(* FoldLeft, by the states between its steps.  The library's definition     *)
(* takes the greatest index away from a set of indices, by recursion on      *)
(* subsets; F[i] is what the operator does with element i.                   *)

FoldsWith(g, n, base, F) ==
    \A S \in SUBSET (1..n) : g[S] = IF S = {} THEN base ELSE F[Max(S)][g[S \ {Max(S)}]]

LEMMA FoldExists ==
    ASSUME NEW n \in Nat, NEW B, NEW base \in B, NEW F \in [1..n -> [B -> B]]
    PROVE  \E g \in [SUBSET (1..n) -> B] : FoldsWith(g, n, base, F)
<1> DEFINE Value(g, S) == IF S = {} THEN base ELSE F[Max(S)][g[S \ {Max(S)}]]
           FoldedAt(m) == \E g \in [SUBSET (1..m) -> B] : \A S \in SUBSET (1..m) : g[S] = Value(g, S)
           Unknown == {m \in Nat : m <= n /\ ~FoldedAt(m)}
<1>1. FoldedAt(0)
  <2> DEFINE g == [S \in SUBSET (1..0) |-> base]
  <2>1. \A S \in SUBSET (1..0) : S = {}
    OBVIOUS
  <2>2. g \in [SUBSET (1..0) -> B] /\ \A S \in SUBSET (1..0) : g[S] = Value(g, S)
    BY <2>1
  <2> QED
    BY <2>2
<1>2. ASSUME NEW m \in Nat, m + 1 <= n, FoldedAt(m) PROVE FoldedAt(m + 1)
  <2>1. PICK g \in [SUBSET (1..m) -> B] : \A S \in SUBSET (1..m) : g[S] = Value(g, S)
    BY <1>2
  <2> DEFINE h == [S \in SUBSET (1..(m + 1)) |->
                    IF m + 1 \in S THEN F[m + 1][g[S \ {m + 1}]] ELSE g[S]]
  <2>2. ASSUME NEW S \in SUBSET (1..(m + 1)), m + 1 \in S
        PROVE  /\ Max(S) = m + 1 /\ S # {} /\ S \ {m + 1} \in SUBSET (1..m)
               /\ h[S \ {m + 1}] = g[S \ {m + 1}] /\ h[S] \in B
               /\ h[S] = F[m + 1][g[S \ {m + 1}]]
    <3>1. Max(S) = m + 1
      <4>1. m + 1 \in Nat
        OBVIOUS
      <4> QED
        BY <2>2, <4>1, GreatestIs
    <3>2. S \ {m + 1} \in SUBSET (1..m) /\ S \ {m + 1} \in SUBSET (1..(m + 1))
      OBVIOUS
    <3>3. g[S \ {m + 1}] \in B /\ m + 1 \in 1..n
      BY <1>2, <3>2
    <3> QED
      BY <2>2, <3>1, <3>2, <3>3
  <2>3. ASSUME NEW S \in SUBSET (1..(m + 1)), m + 1 \notin S
        PROVE  S \in SUBSET (1..m) /\ h[S] = g[S] /\ h[S] \in B
    <3>1. S \in SUBSET (1..m)
      BY <2>3
    <3> QED
      BY <2>3, <3>1
  <2>4. h \in [SUBSET (1..(m + 1)) -> B]
    BY <2>2, <2>3
  <2>5. ASSUME NEW S \in SUBSET (1..(m + 1)) PROVE h[S] = Value(h, S)
    <3>1. CASE m + 1 \in S
      BY <2>2, <3>1
    <3>2. CASE m + 1 \notin S
      <4>1. S \in SUBSET (1..m) /\ h[S] = g[S]
        BY <2>3, <3>2
      <4>2. CASE S = {}
        BY <2>1, <4>1, <4>2
      <4>3. CASE S # {}
        <5>1. S \ {Max(S)} \in SUBSET (1..m) /\ m + 1 \notin S \ {Max(S)}
          BY <3>2, <4>1
        <5>2. h[S \ {Max(S)}] = g[S \ {Max(S)}]
          BY <2>3, <5>1
        <5> QED
          BY <2>1, <4>1, <4>3, <5>2
      <4> QED
        BY <4>2, <4>3
    <3> QED
      BY <3>1, <3>2
  <2> HIDE DEF h
  <2> QED
    BY <2>4, <2>5
<1>3. FoldedAt(n)
  <2> HIDE DEF FoldedAt
  <2>1. SUFFICES ASSUME Unknown # {} PROVE FALSE
    OBVIOUS
  <2>2. PICK m \in Unknown : \A k \in Unknown : m <= k
    BY <2>1, LeastOf
  <2>3. m # 0
    BY <1>1, <2>2
  <2>4. m - 1 \in Nat /\ m - 1 <= n /\ m - 1 \notin Unknown /\ (m - 1) + 1 = m
    BY <2>2, <2>3
  <2>5. FoldedAt(m - 1)
    BY <2>4
  <2>6. FoldedAt((m - 1) + 1)
    BY <1>2, <2>2, <2>4, <2>5
  <2> QED
    BY <2>2, <2>4, <2>6
<1> QED
  BY <1>3 DEF FoldsWith

\* The states of a fold: one before the first element, one after each.
StatesOf(h, n, B, base, F) ==
    h \in [0..n -> B] /\ h[0] = base /\ \A i \in 1..n : h[i] = F[i][h[i - 1]]

\* The function takes a state to the next one, where its argument is a state.
Moves(g, n, B, F) == \A i \in 1..n : g[1..(i - 1)] \in B => g[1..i] = F[i][g[1..(i - 1)]]

LEMMA FoldStates ==
    ASSUME NEW n \in Nat, NEW B, NEW base \in B, NEW F \in [1..n -> [B -> B]],
           NEW g, g[{}] = base, Moves(g, n, B, F)
    PROVE  \E h : StatesOf(h, n, B, base, F) /\ h[n] = g[1..n]
<1> DEFINE h == [i \in 0..n |-> g[1..i]]
           Untyped == {i \in Nat : i <= n /\ g[1..i] \notin B}
<1>1. g[1..0] = base
  <2>1. 1..0 = {}
    OBVIOUS
  <2> QED
    BY <2>1
<1>2. Untyped = {}
  <2>1. SUFFICES ASSUME Untyped # {} PROVE FALSE
    OBVIOUS
  <2>2. PICK i \in Untyped : \A k \in Untyped : i <= k
    BY <2>1, LeastOf
  <2>3. i # 0
    BY <1>1, <2>2
  <2>4. i - 1 \in Nat /\ i - 1 \notin Untyped /\ i \in 1..n
    BY <2>2, <2>3
  <2>5. g[1..(i - 1)] \in B
    BY <2>4
  <2>6. g[1..i] \in B
    BY <2>4, <2>5 DEF Moves
  <2> QED
    BY <2>2, <2>6
<1>3. \A i \in 0..n : h[i] = g[1..i] /\ h[i] \in B
  BY <1>2
<1>4. h \in [0..n -> B]
  BY <1>2
<1> HIDE DEF h
<1>5. \A i \in 1..n : h[i] = F[i][h[i - 1]]
  <2>1. \A i \in 1..n : i \in 0..n /\ i - 1 \in 0..n
    OBVIOUS
  <2> QED
    BY <1>3, <2>1 DEF Moves
<1>6. h[0] = base /\ h[n] = g[1..n]
  BY <1>1, <1>3
<1> QED
  BY <1>4, <1>5, <1>6 DEF StatesOf

\* As far as two folds do the same they are in the same states.
LEMMA StatesAgree ==
    ASSUME NEW n \in Nat, NEW m \in Nat, n <= m, NEW B, NEW base, NEW F, NEW G, NEW h, NEW k,
           StatesOf(h, n, B, base, F), StatesOf(k, m, B, base, G),
           \A i \in 1..n, b \in B : F[i][b] = G[i][b]
    PROVE  h[n] = k[n]
<1> DEFINE Differ == {i \in Nat : i <= n /\ h[i] # k[i]}
<1>1. SUFFICES ASSUME Differ # {} PROVE FALSE
  OBVIOUS
<1>2. PICK i \in Differ : \A j \in Differ : i <= j
  BY <1>1, LeastOf
<1>3. i # 0
  BY <1>2 DEF StatesOf
<1>4. i - 1 \in Nat /\ i - 1 \notin Differ /\ i \in 1..n /\ i \in 1..m /\ i - 1 \in 0..n
  BY <1>2, <1>3
<1>5. h[i - 1] = k[i - 1] /\ h[i - 1] \in B
  BY <1>4 DEF StatesOf
<1>6. h[i] = F[i][h[i - 1]] /\ k[i] = G[i][k[i - 1]]
  BY <1>4 DEF StatesOf
<1> QED
  BY <1>2, <1>4, <1>5, <1>6

-----------------------------------------------------------------------------
(* DefaultLogger: the inductive invariant. *)

InRow(list) ==
    \A i \in DOMAIN list \ {Len(list)} : list[i].key \in Identities => list[i + 1].key # list[i].key

EndsWith(list, key) == list # <<>> /\ list[Len(list)].key = key

\* The logger of an identity has one field more than its parent, which does not end
\* with that identity; any other ends with a field of With, if it has fields.
ParentInv ==
    IF previous = "none" THEN zap = <<>> \/ EndsWith(zap, "other")
    ELSE /\ parent # NoLogger /\ InRow(parent) /\ ~EndsWith(parent, previous)
         /\ \E v \in FieldValues : zap = Append(parent, [key |-> previous, value |-> v])

LoggerInv == DefaultLoggerTypeOK /\ ParentInv /\ LastValueWins /\ WithIsKept /\ InRow(zap)

-----------------------------------------------------------------------------
LEMMA ValueOfIs ==
    ASSUME NEW list, NEW key, NEW At, At = {i \in 1..Len(list) : list[i].key = key}
    PROVE  /\ At = {} => ValueOf(list, key) = "none"
           /\ At # {} /\ Max(At) # 0 => ValueOf(list, key) = list[Max(At)].value
BY DEF ValueOf, SelectLastInSeq

\* A field that is added decides about its key, and about no other.
LEMMA ValueOfAppended ==
    ASSUME NEW list \in Seq(Fields), NEW f \in Fields, NEW key
    PROVE  ValueOf(Append(list, f), key) = IF f.key = key THEN f.value ELSE ValueOf(list, key)
<1> DEFINE n == Len(list)
           longer == Append(list, f)
           At == {i \in 1..n : list[i].key = key}
           AtLonger == {i \in 1..Len(longer) : longer[i].key = key}
<1>1. n \in Nat /\ Len(longer) = n + 1 /\ longer[n + 1] = f /\ \A i \in 1..n : longer[i] = list[i]
  OBVIOUS
<1>2. /\ AtLonger = {} => ValueOf(longer, key) = "none"
      /\ AtLonger # {} /\ Max(AtLonger) # 0 => ValueOf(longer, key) = longer[Max(AtLonger)].value
  BY ValueOfIs
<1>3. /\ At = {} => ValueOf(list, key) = "none"
      /\ At # {} /\ Max(At) # 0 => ValueOf(list, key) = list[Max(At)].value
  BY ValueOfIs
<1>4. CASE f.key = key
  <2>1. n + 1 \in AtLonger /\ AtLonger \subseteq 1..(n + 1) /\ n + 1 \in Nat
    BY <1>1, <1>4
  <2>2. Max(AtLonger) = n + 1 /\ n + 1 # 0
    BY <1>1, <2>1, GreatestIs
  <2>3. AtLonger # {}
    BY <2>1
  <2> HIDE DEF AtLonger
  <2> QED
    BY <1>1, <1>2, <1>4, <2>2, <2>3
<1>5. CASE f.key # key
  <2>1. AtLonger = At
    BY <1>1, <1>5
  <2>2. CASE At = {}
    BY <1>2, <1>3, <1>5, <2>1, <2>2
  <2>3. CASE At # {}
    <3>1. At \subseteq Nat /\ IsFiniteSet(At)
      <4>1. IsFiniteSet(1..n) /\ At \subseteq 1..n
        BY <1>1, FS_Interval
      <4> QED
        BY <1>1, <4>1, FS_Subset
    <3>2. Max(At) \in At
      BY <2>3, <3>1, MaxIs
    <3>3. Max(At) \in 1..n /\ Max(At) # 0 /\ longer[Max(At)] = list[Max(At)]
      BY <1>1, <3>2
    <3> HIDE DEF At, AtLonger
    <3> QED
      BY <1>2, <1>3, <1>5, <2>1, <2>3, <3>3
  <2> QED
    BY <2>2, <2>3
<1> QED
  BY <1>4, <1>5

LEMMA InRowAppended ==
    ASSUME NEW list \in Seq(Fields), NEW f \in Fields, InRow(list),
           f.key = "other" \/ ~EndsWith(list, f.key)
    PROVE  InRow(Append(list, f))
<1> DEFINE n == Len(list)
           longer == Append(list, f)
<1>1. /\ n \in Nat /\ Len(longer) = n + 1 /\ longer[n + 1] = f /\ DOMAIN list = 1..n
      /\ DOMAIN longer = 1..(n + 1) /\ \A i \in 1..n : longer[i] = list[i]
  OBVIOUS
<1>2. SUFFICES ASSUME NEW i \in 1..n, longer[i].key \in Identities
               PROVE  longer[i + 1].key # longer[i].key
  BY <1>1 DEF InRow
<1>3. CASE i = n
  <2>1. list # <<>> /\ longer[i] = list[n] /\ longer[i + 1] = f
    BY <1>1, <1>3
  <2>2. "other" \notin Identities
    BY DEF Identities
  <2> QED
    BY <1>2, <2>1, <2>2 DEF EndsWith
<1>4. CASE i # n
  <2>1. i \in 1..n /\ i + 1 \in 1..n /\ i \in DOMAIN list \ {n}
    <3>1. n \in Nat /\ i \in 1..n /\ DOMAIN list = 1..n
      BY <1>1
    <3> HIDE DEF n
    <3> QED
      BY <1>4, <3>1
  <2>2. longer[i] = list[i] /\ longer[i + 1] = list[i + 1]
    BY <1>1, <2>1
  <2> QED
    BY <1>2, <2>1, <2>2 DEF InRow
<1> QED
  BY <1>3, <1>4

\* The fields of With are a fold, so one more field is one more step of it.
LEMMA WithStates ==
    ASSUME NEW list \in Seq(Fields)
    PROVE  \E h, F : /\ StatesOf(h, Len(list), Seq(Fields), <<>>, F)
                     /\ \A i \in 1..Len(list), b \in Seq(Fields) : F[i][b] = KeepsWith(b, list[i])
                     /\ h[Len(list)] = WithFields(list)
<1> DEFINE n == Len(list)
           B == Seq(Fields)
           F == [i \in 1..n |-> [b \in B |-> KeepsWith(b, list[i])]]
           P(g) == g = [T \in SUBSET DOMAIN list |->
                        IF T = {} THEN <<>> ELSE KeepsWith(g[T \ {Max(T)}], list[Max(T)])]
           iter == CHOOSE g : P(g)
<1>1. n \in Nat /\ DOMAIN list = 1..n /\ \A i \in 1..n : list[i] \in Fields
  OBVIOUS
<1>2. WithFields(list) = iter[1..n]
  <2>1. WithFields(list) = iter[DOMAIN list]
    BY DEF WithFields, FoldLeft, MapThenFoldSet
  <2> QED
    BY <1>1, <2>1
<1>3. <<>> \in B /\ \A i \in 1..n, b \in B : KeepsWith(b, list[i]) \in B
  BY <1>1 DEF KeepsWith
<1>4. F \in [1..n -> [B -> B]] /\ \A i \in 1..n, b \in B : F[i][b] = KeepsWith(b, list[i])
  BY <1>3
<1> HIDE DEF n, B, F
<1>5. \E g : P(g)
  <2>1. PICK g \in [SUBSET (1..n) -> B] : FoldsWith(g, n, <<>>, F)
    BY <1>1, <1>3, <1>4, FoldExists
  <2>2. ASSUME NEW T \in SUBSET (1..n), T # {}
        PROVE  g[T] = KeepsWith(g[T \ {Max(T)}], list[Max(T)])
    <3>1. Max(T) \in 1..n /\ g[T \ {Max(T)}] \in B
      BY <1>1, <2>2, GreatestOf
    <3> QED
      BY <1>4, <2>1, <2>2, <3>1 DEF FoldsWith
  <2>3. g[{}] = <<>>
    BY <2>1 DEF FoldsWith
  <2>4. P(g)
    BY <1>1, <2>1, <2>2, <2>3
  <2> QED
    BY <2>4
<1>6. P(iter)
  BY <1>5
<1> HIDE DEF iter
<1>7. iter[{}] = <<>>
  BY <1>1, <1>6
<1>8. Moves(iter, n, B, F)
  <2>1. SUFFICES ASSUME NEW i \in 1..n, iter[1..(i - 1)] \in B PROVE iter[1..i] = F[i][iter[1..(i - 1)]]
    BY DEF Moves
  <2>2. Max(1..i) = i /\ 1..i \in SUBSET (1..n) /\ 1..i # {} /\ (1..i) \ {i} = 1..(i - 1)
    BY <1>1, Initials
  <2>3. iter[1..i] = KeepsWith(iter[1..(i - 1)], list[i])
    <3>1. 1..i \in SUBSET DOMAIN list
      BY <1>1, <2>2
    <3> QED
      BY <1>6, <2>2, <3>1, Zenon
  <2>4. F[i][iter[1..(i - 1)]] = KeepsWith(iter[1..(i - 1)], list[i])
    BY <1>4, <2>1
  <2> QED
    BY <2>3, <2>4
<1>9. PICK h : StatesOf(h, n, B, <<>>, F) /\ h[n] = iter[1..n]
  <2>1. n \in Nat /\ F \in [1..n -> [B -> B]] /\ <<>> \in B
    BY <1>1, <1>3, <1>4
  <2> QED
    BY <1>7, <1>8, <2>1, FoldStates
<1> QED
  BY <1>2, <1>4, <1>9 DEF n, B

LEMMA WithFieldsAppended ==
    ASSUME NEW list \in Seq(Fields), NEW f \in Fields
    PROVE  WithFields(Append(list, f)) = KeepsWith(WithFields(list), f)
<1> DEFINE n == Len(list)
           longer == Append(list, f)
           B == Seq(Fields)
<1>1. n \in Nat /\ longer \in Seq(Fields) /\ Len(longer) = n + 1 /\ longer[n + 1] = f
      /\ \A i \in 1..n : longer[i] = list[i]
  OBVIOUS
<1>2. PICK h, F : /\ StatesOf(h, n, B, <<>>, F) /\ h[n] = WithFields(list)
                  /\ \A i \in 1..n, b \in B : F[i][b] = KeepsWith(b, list[i])
  BY WithStates
<1>3. PICK k, G : /\ StatesOf(k, n + 1, B, <<>>, G) /\ k[n + 1] = WithFields(longer)
                  /\ \A i \in 1..(n + 1), b \in B : G[i][b] = KeepsWith(b, longer[i])
  <2> HIDE DEF longer
  <2>1. PICK k, G : /\ StatesOf(k, Len(longer), Seq(Fields), <<>>, G) /\ k[Len(longer)] = WithFields(longer)
                    /\ \A i \in 1..Len(longer), b \in Seq(Fields) : G[i][b] = KeepsWith(b, longer[i])
    BY <1>1, WithStates
  <2> QED
    BY <1>1, <2>1
<1> HIDE DEF n, longer, B
<1>4. n <= n + 1 /\ n + 1 \in Nat /\ n + 1 \in 1..(n + 1) /\ (n + 1) - 1 = n /\ n \in 0..n /\ 1..n \subseteq 1..(n + 1)
  BY <1>1
<1>5. h[n] = k[n]
  <2>1. \A i \in 1..n, b \in B : F[i][b] = G[i][b]
    BY <1>1, <1>2, <1>3, <1>4
  <2> QED
    BY <1>1, <1>2, <1>3, <1>4, <2>1, StatesAgree
<1>6. h[n] \in B
  BY <1>2, <1>4 DEF StatesOf
<1>7. k[n + 1] = G[n + 1][k[n]]
  BY <1>3, <1>4 DEF StatesOf
<1>8. G[n + 1][k[n]] = KeepsWith(k[n], f)
  BY <1>1, <1>3, <1>4, <1>5, <1>6
<1> QED
  BY <1>2, <1>3, <1>5, <1>7, <1>8 DEF longer

LEMMA LoggerInitially == DefaultLoggerInit => LoggerInv
<1> SUFFICES ASSUME DefaultLoggerInit PROVE LoggerInv
  OBVIOUS
<1>1. zap = <<>> /\ calls = <<>> /\ parent = NoLogger /\ previous = "none"
  BY DEF DefaultLoggerInit
<1>2. <<>> \in Seq(Fields) /\ DOMAIN <<>> = {}
  OBVIOUS
<1> QED
  BY <1>1, <1>2 DEF LoggerInv, DefaultLoggerTypeOK, ParentInv, LastValueWins, WithIsKept, InRow

LEMMA AppendedIs ==
    ASSUME NEW list \in Seq(Fields), NEW f \in Fields
    PROVE  /\ Append(list, f) \in Seq(Fields) /\ Append(list, f) # <<>>
           /\ Append(list, f)[Len(Append(list, f))] = f
OBVIOUS

LEMMA ParentIsLogger == ASSUME LoggerInv PROVE ParentOrCurrent \in Seq(Fields)
BY DEF LoggerInv, DefaultLoggerTypeOK, ParentOrCurrent

LEMMA WithFieldKeeps == ASSUME LoggerInv, NEW v \in FieldValues, WithField(v) PROVE LoggerInv'
<1> DEFINE f == [key |-> "other", value |-> v]
<1>1. /\ zap' = Append(zap, f) /\ calls' = Append(calls, f) /\ previous' = "none"
      /\ parent' = ParentOrCurrent
  BY DEF WithField, Records
<1>2. f \in Fields /\ f.key = "other" /\ zap \in Seq(Fields) /\ calls \in Seq(Fields)
  BY DEF LoggerInv, DefaultLoggerTypeOK, Fields, Keys
<1>3. DefaultLoggerTypeOK'
  BY <1>1, <1>2, AppendedIs, ParentIsLogger DEF DefaultLoggerTypeOK
<1>4. ParentInv'
  BY <1>1, <1>2, AppendedIs DEF ParentInv, EndsWith
<1>5. LastValueWins'
  <2>1. \A key \in Keys : ValueOf(zap, key) = ValueOf(calls, key)
    BY DEF LoggerInv, LastValueWins
  <2>2. \A key \in Keys : /\ ValueOf(Append(zap, f), key) = ValueOf(Append(calls, f), key)
    BY <1>2, <2>1, ValueOfAppended
  <2> QED
    BY <1>1, <2>2 DEF LastValueWins
<1>6. InRow(zap')
  BY <1>1, <1>2, InRowAppended DEF LoggerInv
<1>7. WithIsKept'
  <2>1. WithFields(zap) = WithFields(calls)
    BY DEF LoggerInv, WithIsKept
  <2>2. WithFields(Append(zap, f)) = WithFields(Append(calls, f))
    BY <1>2, <2>1, WithFieldsAppended
  <2> QED
    BY <1>1, <2>2 DEF WithIsKept
<1> QED
  BY <1>3, <1>4, <1>5, <1>6, <1>7 DEF LoggerInv

\* The logger that For adds its field to says of any other key what this one says, has
\* the same fields of With, and does not end with the identity.
LEMMA AddsTo ==
    ASSUME LoggerInv, NEW key \in Identities, NEW to,
           to = IF previous = key THEN ParentOrCurrent ELSE zap
    PROVE  /\ to \in Seq(Fields) /\ InRow(to) /\ ~EndsWith(to, key)
           /\ WithFields(to) = WithFields(zap)
           /\ \A k \in Keys \ {key} : ValueOf(to, k) = ValueOf(zap, k)
<1>1. zap \in Seq(Fields) /\ previous \in Identities \cup {"none"}
  BY DEF LoggerInv, DefaultLoggerTypeOK
<1>2. ParentInv /\ InRow(zap)
  BY DEF LoggerInv
<1>3. key # "none" /\ key # "other" /\ key \in Keys
  BY DEF Identities, Keys
<1>4. previous # "none" => parent \in Seq(Fields)
  BY <1>2 DEF LoggerInv, DefaultLoggerTypeOK, ParentInv
<1>5. ASSUME previous # "none"
      PROVE  \E f \in Fields : f.key = previous /\ zap = Append(parent, f)
  <2>1. PICK v \in FieldValues : zap = Append(parent, [key |-> previous, value |-> v])
    BY <1>2, <1>5 DEF ParentInv
  <2>2. [key |-> previous, value |-> v] \in Fields
    BY <1>1, <1>5 DEF Fields, Keys
  <2> QED
    BY <2>1, <2>2
<1>6. CASE previous = key
  <2>1. to = parent /\ to \in Seq(Fields) /\ InRow(parent) /\ ~EndsWith(parent, key)
    BY <1>2, <1>3, <1>4, <1>6 DEF ParentInv, ParentOrCurrent
  <2>2. PICK f \in Fields : f.key = key /\ zap = Append(parent, f)
    BY <1>3, <1>5, <1>6
  <2>3. WithFields(zap) = WithFields(parent)
    BY <1>3, <2>1, <2>2, WithFieldsAppended DEF KeepsWith
  <2> QED
    BY <2>1, <2>2, <2>3, ValueOfAppended
<1>7. CASE previous # key
  <2>1. to = zap
    BY <1>7
  <2>2. ~EndsWith(zap, key)
    <3>1. CASE previous = "none"
      BY <1>2, <1>3, <3>1 DEF ParentInv, EndsWith
    <3>2. CASE previous # "none"
      <4>1. PICK f \in Fields : f.key = previous /\ zap = Append(parent, f)
        BY <1>5, <3>2
      <4>2. zap[Len(zap)] = f
        BY <1>4, <3>2, <4>1, AppendedIs
      <4> QED
        BY <1>7, <4>1, <4>2 DEF EndsWith
    <3> QED
      BY <3>1, <3>2
  <2> QED
    BY <1>1, <1>2, <2>1, <2>2
<1> QED
  BY <1>6, <1>7

LEMMA ForKeeps ==
    ASSUME LoggerInv, NEW key \in Identities, NEW v \in FieldValues, For(key, v) PROVE LoggerInv'
<1> DEFINE f == [key |-> key, value |-> v]
           to == IF previous = key THEN ParentOrCurrent ELSE zap
<1>1. zap' = Append(to, f) /\ calls' = Append(calls, f) /\ previous' = key /\ parent' = to
  BY DEF For, Records
<1>2. /\ f \in Fields /\ f.key = key /\ f.value = v /\ zap \in Seq(Fields) /\ calls \in Seq(Fields)
      /\ key # "none" /\ NoLogger \notin Seq(Fields)
  <2>1. NoLogger[1].key \notin Keys
    BY DEF NoLogger, Keys, Identities
  <2>2. Len(NoLogger) = 1
    BY DEF NoLogger
  <2>3. \A list \in Seq(Fields) : Len(list) = 1 => list[1] \in Fields
    OBVIOUS
  <2>4. NoLogger[1] \notin Fields
    BY <2>1 DEF Fields
  <2>5. NoLogger \notin Seq(Fields)
    BY <2>2, <2>3, <2>4
  <2> QED
    BY <2>5 DEF LoggerInv, DefaultLoggerTypeOK, Fields, Keys, Identities
<1>3. /\ to \in Seq(Fields) /\ InRow(to) /\ ~EndsWith(to, key)
      /\ WithFields(to) = WithFields(zap)
      /\ \A k \in Keys \ {key} : ValueOf(to, k) = ValueOf(zap, k)
  BY AddsTo
<1> HIDE DEF to
<1>4. DefaultLoggerTypeOK'
  BY <1>1, <1>2, <1>3, AppendedIs DEF DefaultLoggerTypeOK
<1>5. ParentInv'
  BY <1>1, <1>2, <1>3 DEF ParentInv
<1>6. LastValueWins'
  <2>1. \A k \in Keys : ValueOf(zap, k) = ValueOf(calls, k)
    BY DEF LoggerInv, LastValueWins
  <2>2. ASSUME NEW k \in Keys PROVE ValueOf(Append(to, f), k) = ValueOf(Append(calls, f), k)
    <3>1. /\ ValueOf(Append(to, f), k) = IF f.key = k THEN f.value ELSE ValueOf(to, k)
          /\ ValueOf(Append(calls, f), k) = IF f.key = k THEN f.value ELSE ValueOf(calls, k)
      BY <1>2, <1>3, ValueOfAppended
    <3>2. k # key => ValueOf(to, k) = ValueOf(calls, k)
      BY <1>3, <2>1
    <3> QED
      BY <1>2, <3>1, <3>2
  <2> QED
    BY <1>1, <2>2 DEF LastValueWins
<1>7. InRow(zap')
  BY <1>1, <1>2, <1>3, InRowAppended
<1>8. WithIsKept'
  <2>1. WithFields(zap) = WithFields(calls) /\ key # "other"
    BY DEF LoggerInv, WithIsKept, Identities
  <2>2. WithFields(Append(to, f)) = WithFields(to)
    BY <1>2, <1>3, <2>1, WithFieldsAppended DEF KeepsWith
  <2>3. WithFields(Append(calls, f)) = WithFields(calls)
    BY <1>2, <2>1, WithFieldsAppended DEF KeepsWith
  <2> QED
    BY <1>1, <1>3, <2>1, <2>2, <2>3 DEF WithIsKept
<1> QED
  BY <1>4, <1>5, <1>6, <1>7, <1>8 DEF LoggerInv

LEMMA LoggerStep == LoggerInv /\ [DefaultLoggerNext]_loggerVars => LoggerInv'
<1> SUFFICES ASSUME LoggerInv, [DefaultLoggerNext]_loggerVars PROVE LoggerInv'
  OBVIOUS
<1>1. CASE UNCHANGED loggerVars
  BY <1>1 DEF loggerVars, LoggerInv, DefaultLoggerTypeOK, ParentInv, LastValueWins, WithIsKept
<1>2. CASE DefaultLoggerNext
  BY <1>2, WithFieldKeeps, ForKeeps DEF DefaultLoggerNext
<1> QED
  BY <1>1, <1>2

\* Whatever chain of calls made a logger, each key of its fields has the value it was
\* given last, and every field of With is there in its order: For replaces what a call
\* just before it gave, and nothing else (default.go:70-143, parent and previous).
THEOREM LoggerSaysTheLatest == DefaultLoggerSpec => []LatestFieldLast
<1>1. LoggerInv => LatestFieldLast
  BY DEF LoggerInv, InRow, LatestFieldLast, NoneTwiceInRow
<1> QED
  BY <1>1, LoggerInitially, LoggerStep, PTL DEF DefaultLoggerSpec

-----------------------------------------------------------------------------
(* HttpClient: its types and tunnels. *)

LEMMA TunnelListsAre == <<>> \in TunnelLists
<1>1. <<>> \in [1..0 -> Tunnels]
  OBVIOUS
<1>2. 0 \in 0..MaxTunnels
  BY HttpAssumption
<1> QED
  BY <1>1, <1>2 DEF TunnelLists

LEMMA HttpInitially == HttpInit => HttpTypeOK
<1> SUFFICES ASSUME HttpInit PROVE HttpTypeOK
  OBVIOUS
<1>1. /\ transportProxy \in [kind : {"unset", "plain", "tunnels"}, to : {"environment", "none", "url"}]
      /\ transportProxy.kind = "unset"
  BY DEF HttpInit
<1>2. proxyFunc = "environment" /\ tunnels = <<>> /\ insecure = FALSE /\ built = FALSE /\ defaultClient = "original"
  BY DEF HttpInit
<1> QED
  BY <1>1, <1>2, TunnelListsAre DEF HttpTypeOK

LEMMA HttpStep == HttpTypeOK /\ [HttpNext]_httpVars => HttpTypeOK'
<1> SUFFICES ASSUME HttpTypeOK, [HttpNext]_httpVars PROVE HttpTypeOK'
  OBVIOUS
<1> USE DEF HttpTypeOK
<1>1. CASE UNCHANGED httpVars
  BY <1>1 DEF httpVars
<1>2. ASSUME NEW b \in BOOLEAN, SetSSLVerification(b) PROVE HttpTypeOK'
  BY <1>2 DEF SetSSLVerification
<1>3. ASSUME NEW f \in {"environment", "none", "url"}, SetProxy(f) PROVE HttpTypeOK'
  BY <1>3 DEF SetProxy
<1>4. ASSUME NEW list \in TunnelLists, SetProxyHosts(list) PROVE HttpTypeOK'
  BY <1>4 DEF SetProxyHosts
<1>5. ASSUME NEW fromEnv \in BOOLEAN, NEW url \in BOOLEAN
      PROVE  Configured(fromEnv, url) \in {"environment", "none", "url"}
  BY DEF Configured
<1>6. ASSUME NEW fromEnv \in BOOLEAN, NEW url \in BOOLEAN, BuildRefused(fromEnv, url) PROVE HttpTypeOK'
  BY <1>5, <1>6 DEF BuildRefused
<1>7. ASSUME NEW f \in {"environment", "none", "url"}, NEW list \in TunnelLists,
             NEW unsafe \in BOOLEAN, NEW r \in BOOLEAN, Make(f, list, unsafe, r)
      PROVE  HttpTypeOK'
  BY <1>7 DEF Make, BuildTransportProxy
<1>8. ASSUME NEW fromEnv \in BOOLEAN, NEW url \in BOOLEAN, NEW split \in TunnelLists,
             NEW v \in BOOLEAN, NEW r \in BOOLEAN, Build(fromEnv, url, split, v, r)
      PROVE  HttpTypeOK'
  <2> DEFINE f == Configured(fromEnv, url)
             list == IF split = <<>> THEN tunnels ELSE split
  <2>1. f \in {"environment", "none", "url"} /\ list \in TunnelLists /\ (~v) \in BOOLEAN
    BY <1>5
  <2>2. Make(f, list, ~v, r)
    BY <1>8 DEF Build
  <2> HIDE DEF f, list
  <2>3. \A unsafe \in BOOLEAN : Make(f, list, unsafe, r) => HttpTypeOK'
    BY <1>7, <2>1
  <2> QED
    BY <2>1, <2>2, <2>3
<1>9. ASSUME NEW r \in BOOLEAN, BuildUnconfigured(r) PROVE HttpTypeOK'
  BY <1>7, <1>9 DEF BuildUnconfigured
<1>10. CASE ReplaceDefault \/ RestoreDefault
  BY <1>10 DEF ReplaceDefault, RestoreDefault
<1> QED
  BY <1>1, <1>2, <1>3, <1>4, <1>6, <1>8, <1>9, <1>10 DEF HttpNext

-----------------------------------------------------------------------------
(* What a proxy function does with its tunnels. *)

\* What Proxy does with one tunnel.
Tries(t, host, lookup) ==
    IF \E h \in t.hosts : Matches(host, h) THEN t.proxy
    ELSE IF t.ipset # {} /\ lookup = {"error"} THEN "error"
    ELSE IF t.ipset \cap lookup # {} THEN t.proxy ELSE "next"

\* What was found is kept.
LooksFor(h, n, T) ==
    h[0] = "next" /\ \A i \in 1..n : h[i] = IF h[i - 1] = "next" THEN T[i] ELSE h[i - 1]

TriesOf(list, host, lookup) == [i \in 1..Len(list) |-> Tries(list[i], host, lookup)]

LEMMA ProxyStates ==
    ASSUME NEW list \in Seq(Tunnels), NEW host, NEW lookup
    PROVE  \E h : /\ LooksFor(h, Len(list), TriesOf(list, host, lookup))
                  /\ h[Len(list)] = Proxy(host, lookup, list)
<1> DEFINE n == Len(list)
           T(i) == Tries(list[i], host, lookup)
           B == {T(i) : i \in 1..n} \cup {"next"}
           F == [i \in 1..n |-> [b \in B |-> IF b = "next" THEN T(i) ELSE b]]
           P(g) == g = [S \in SUBSET DOMAIN list |->
                        IF S = {} THEN "next"
                        ELSE IF g[S \ {Max(S)}] = "next" THEN T(Max(S)) ELSE g[S \ {Max(S)}]]
           iter == CHOOSE g : P(g)
<1>1. n \in Nat /\ DOMAIN list = 1..n
  OBVIOUS
<1>2. Proxy(host, lookup, list) = iter[1..n]
  <2>1. Proxy(host, lookup, list) = iter[DOMAIN list]
    BY DEF Proxy, FoldLeft, MapThenFoldSet, Tries
  <2> QED
    BY <1>1, <2>1
<1>3. "next" \in B /\ F \in [1..n -> [B -> B]] /\ \A i \in 1..n : T(i) \in B
  OBVIOUS
<1>4. \A i \in 1..n, b \in B : F[i][b] = IF b = "next" THEN T(i) ELSE b
  OBVIOUS
<1> HIDE DEF n, B, F, T
<1>5. \E g : P(g)
  <2>1. PICK g \in [SUBSET (1..n) -> B] : FoldsWith(g, n, "next", F)
    BY <1>1, <1>3, FoldExists
  <2>2. ASSUME NEW S \in SUBSET (1..n), S # {}
        PROVE  g[S] = IF g[S \ {Max(S)}] = "next" THEN T(Max(S)) ELSE g[S \ {Max(S)}]
    <3>1. Max(S) \in 1..n /\ g[S \ {Max(S)}] \in B
      BY <1>1, <2>2, GreatestOf
    <3> QED
      BY <1>4, <2>1, <2>2, <3>1 DEF FoldsWith
  <2>3. g[{}] = "next"
    BY <2>1 DEF FoldsWith
  <2>4. P(g)
    BY <1>1, <2>1, <2>2, <2>3
  <2> QED
    BY <2>4
<1>6. P(iter)
  BY <1>5
<1> HIDE DEF iter
<1>7. iter[{}] = "next"
  BY <1>1, <1>6
<1>8. ASSUME NEW i \in 1..n, iter[1..(i - 1)] \in B PROVE iter[1..i] = F[i][iter[1..(i - 1)]]
  <2>1. Max(1..i) = i /\ 1..i \in SUBSET (1..n) /\ 1..i # {} /\ (1..i) \ {i} = 1..(i - 1)
    BY <1>1, Initials
  <2>2. iter[1..i] = IF iter[(1..i) \ {i}] = "next" THEN T(i) ELSE iter[(1..i) \ {i}]
    BY <1>1, <1>6, <2>1
  <2> QED
    BY <1>4, <1>8, <2>1, <2>2
<1>9. PICK h : StatesOf(h, n, B, "next", F) /\ h[n] = iter[1..n]
  <2>1. Moves(iter, n, B, F)
    BY <1>8 DEF Moves
  <2> QED
    BY <1>1, <1>3, <1>7, <2>1, FoldStates
<1>10. h[0] = "next" /\ \A i \in 1..n : h[i] = IF h[i - 1] = "next" THEN T(i) ELSE h[i - 1]
  <2>1. \A i \in 1..n : i - 1 \in 0..n
    BY <1>1
  <2> QED
    BY <1>4, <1>9, <2>1 DEF StatesOf
<1>11. LooksFor(h, n, TriesOf(list, host, lookup))
  BY <1>10 DEF LooksFor, TriesOf, T, n
<1> QED
  BY <1>2, <1>9, <1>11 DEF n

\* The first element that is not "next" is the one that is found.
LEMMA FirstIsFound ==
    ASSUME NEW n \in Nat, NEW T, NEW h, LooksFor(h, n, T)
    PROVE  \/ h[n] = "next" /\ \A i \in 1..n : T[i] = "next"
           \/ \E i \in 1..n : h[n] = T[i] /\ T[i] # "next" /\ \A j \in 1..(i - 1) : T[j] = "next"
<1> DEFINE Found(m) ==
            \/ h[m] = "next" /\ \A i \in 1..m : T[i] = "next"
            \/ \E i \in 1..m : h[m] = T[i] /\ T[i] # "next" /\ \A j \in 1..(i - 1) : T[j] = "next"
           Wrong == {m \in Nat : m <= n /\ ~Found(m)}
<1>1. Found(0)
  BY DEF LooksFor
<1>2. ASSUME NEW m \in Nat, m + 1 <= n, Found(m) PROVE Found(m + 1)
  <2>1. h[m + 1] = IF h[m] = "next" THEN T[m + 1] ELSE h[m]
    <3>1. m + 1 \in 1..n /\ (m + 1) - 1 = m
      BY <1>2
    <3> QED
      BY <3>1 DEF LooksFor
  <2>2. CASE h[m] = "next" /\ \A i \in 1..m : T[i] = "next"
    <3>1. CASE T[m + 1] = "next"
      BY <2>1, <2>2, <3>1
    <3>2. CASE T[m + 1] # "next"
      BY <2>1, <2>2, <3>2
    <3> QED
      BY <3>1, <3>2
  <2>3. CASE \E i \in 1..m : h[m] = T[i] /\ T[i] # "next" /\ \A j \in 1..(i - 1) : T[j] = "next"
    <3>1. PICK i \in 1..m : h[m] = T[i] /\ T[i] # "next" /\ \A j \in 1..(i - 1) : T[j] = "next"
      BY <2>3
    <3>2. i \in 1..(m + 1) /\ h[m + 1] = T[i]
      BY <2>1, <3>1
    <3> QED
      BY <3>1, <3>2
  <2> QED
    BY <1>2, <2>2, <2>3
<1> HIDE DEF Found
<1>3. Wrong = {}
  <2>1. SUFFICES ASSUME Wrong # {} PROVE FALSE
    OBVIOUS
  <2>2. PICK m \in Wrong : \A k \in Wrong : m <= k
    BY <2>1, LeastOf
  <2>3. m # 0
    BY <1>1, <2>2
  <2>4. m - 1 \in Nat /\ m - 1 \notin Wrong /\ (m - 1) + 1 = m /\ m <= n
    BY <2>2, <2>3
  <2>5. Found(m - 1)
    BY <2>4
  <2>6. Found((m - 1) + 1)
    BY <1>2, <2>4, <2>5
  <2> QED
    BY <2>2, <2>4, <2>6
<1>4. Found(n)
  BY <1>3
<1> QED
  BY <1>4 DEF Found

LEMMA TunnelsAre == HttpTypeOK => tunnels \in Seq(Tunnels)
BY HttpAssumption DEF HttpTypeOK, TunnelLists

LEMMA FirstMatchIsTaken == HttpTypeOK => TunnelFirstMatch
<1> SUFFICES ASSUME HttpTypeOK PROVE TunnelFirstMatch
  OBVIOUS
<1> DEFINE named(t, host) == \E h \in t.hosts : Matches(host, h)
           takes(t, host, lookup) == named(t, host) \/ t.ipset \cap lookup # {}
           before(i, host, lookup) == \A j \in 1..(i - 1) : ~takes(tunnels[j], host, lookup)
           needsLookup(i, host) == tunnels[i].ipset # {} /\ ~named(tunnels[i], host)
           stops(host, lookup) ==
                {i \in DOMAIN tunnels : before(i, host, lookup) /\
                    (takes(tunnels[i], host, lookup) \/ (needsLookup(i, host) /\ lookup = {"error"}))}
<1>1. SUFFICES ASSUME transportProxy.kind = "tunnels", NEW host \in HostNames, NEW lookup \in Lookups
      PROVE  \/ stops(host, lookup) = {} /\ Route(host, lookup) = transportProxy.to
             \/ \E i \in stops(host, lookup) :
                    /\ \A j \in stops(host, lookup) : i <= j
                    /\ Route(host, lookup) =
                        IF takes(tunnels[i], host, lookup) THEN tunnels[i].proxy ELSE "error"
  BY DEF TunnelFirstMatch
<1> DEFINE n == Len(tunnels)
           T == TriesOf(tunnels, host, lookup)
<1>2. tunnels \in Seq(Tunnels) /\ n \in Nat /\ DOMAIN tunnels = 1..n
  BY TunnelsAre
<1>3. ASSUME NEW i \in 1..n
      PROVE  /\ T[i] = "next" <=> /\ ~takes(tunnels[i], host, lookup)
                                  /\ ~(needsLookup(i, host) /\ lookup = {"error"})
             /\ T[i] # "next" => T[i] = IF takes(tunnels[i], host, lookup) THEN tunnels[i].proxy ELSE "error"
  <2>1. tunnels[i].proxy # "next" /\ "error" \notin tunnels[i].ipset
    BY <1>2, HttpAssumption
  <2> QED
    BY <2>1 DEF Tries, TriesOf
<1>4. PICK h : h[n] = Proxy(host, lookup, tunnels) /\ LooksFor(h, n, T)
  BY <1>2, ProxyStates
<1>5. Route(host, lookup) = IF h[n] = "next" THEN transportProxy.to ELSE h[n]
  BY <1>1, <1>4 DEF Route
<1> HIDE DEF T, takes, needsLookup
<1>6. \/ h[n] = "next" /\ \A i \in 1..n : T[i] = "next"
      \/ \E i \in 1..n : h[n] = T[i] /\ T[i] # "next" /\ \A j \in 1..(i - 1) : T[j] = "next"
  BY <1>2, <1>4, FirstIsFound
<1>7. CASE h[n] = "next" /\ \A i \in 1..n : T[i] = "next"
  BY <1>2, <1>3, <1>5, <1>7
<1>8. ASSUME NEW i \in 1..n, h[n] = T[i], T[i] # "next", \A j \in 1..(i - 1) : T[j] = "next"
      PROVE  /\ i \in stops(host, lookup) /\ \A j \in stops(host, lookup) : i <= j
             /\ Route(host, lookup) = IF takes(tunnels[i], host, lookup) THEN tunnels[i].proxy ELSE "error"
  <2>1. \A j \in 1..(i - 1) : j \in 1..n
    BY <1>2
  <2>2. before(i, host, lookup)
    BY <1>3, <1>8, <2>1
  <2>3. i \in stops(host, lookup)
    BY <1>2, <1>3, <1>8, <2>2
  <2>4. ASSUME NEW j \in stops(host, lookup) PROVE i <= j
    <3>1. j \in 1..n /\ T[j] # "next"
      BY <1>2, <1>3, <2>4
    <3> QED
      BY <1>2, <1>8, <3>1
  <2> QED
    BY <1>3, <1>5, <1>8, <2>3, <2>4
<1> QED
  BY <1>6, <1>7, <1>8

\* For any list of tunnels, a host goes where the first tunnel that takes it sends it,
\* and no tunnel after that is asked (http_client_builder.go:222-262).
THEOREM TunnelTakesFirstMatch == HttpSpec => []TunnelFirstMatch
BY HttpInitially, HttpStep, FirstMatchIsTaken, PTL DEF HttpSpec

-----------------------------------------------------------------------------
(* Scopes: what is left of the required scopes. *)

ArrayStates(N, S) == [arr : [1..N -> S], len : {l \in Int : l <= N}, stop : BOOLEAN]

\* One iteration of the inner loop, and what it starts with.
RangeStep(t, k, scope) ==
    IF t.stop \/ t.arr[k] # scope THEN t
    ELSE IF t.len = 1 THEN [t EXCEPT !.len = 0, !.stop = TRUE] ELSE Delete(t, k)

AtStart(s) == [s EXCEPT !.stop = FALSE]

LEMMA UpdatedSlice ==
    ASSUME NEW A, NEW L, NEW B, NEW t \in [arr : A, len : L, stop : B], NEW a \in A, NEW l \in L
    PROVE  /\ [t EXCEPT !.arr = a, !.len = l] \in [arr : A, len : L, stop : B]
           /\ [t EXCEPT !.arr = a, !.len = l].arr = a /\ [t EXCEPT !.arr = a, !.len = l].len = l
           /\ [t EXCEPT !.arr = a, !.len = l].stop = t.stop
OBVIOUS

LEMMA Stopped ==
    ASSUME NEW A, NEW L, NEW B, NEW t \in [arr : A, len : L, stop : B], NEW l \in L, NEW b \in B
    PROVE  /\ [t EXCEPT !.len = l, !.stop = b] \in [arr : A, len : L, stop : B]
           /\ [t EXCEPT !.len = l, !.stop = b].len = l /\ [t EXCEPT !.len = l, !.stop = b].stop = b
           /\ [t EXCEPT !.len = l, !.stop = b].arr = t.arr
OBVIOUS

LEMMA Restarted ==
    ASSUME NEW A, NEW L, NEW B, NEW t \in [arr : A, len : L, stop : B], NEW b \in B
    PROVE  /\ [t EXCEPT !.stop = b] \in [arr : A, len : L, stop : B]
           /\ [t EXCEPT !.stop = b].arr = t.arr /\ [t EXCEPT !.stop = b].len = t.len
           /\ [t EXCEPT !.stop = b].stop = b
OBVIOUS

RestMovesDown(r, t, k, N) ==
    \A i \in 1..N : r.arr[i] = IF i \in k..(t.len - 1) THEN t.arr[i + 1] ELSE t.arr[i]

LEMMA DeleteIs ==
    ASSUME NEW N \in Nat, NEW S, NEW t \in ArrayStates(N, S), NEW k \in 1..N
    PROVE  /\ Delete(t, k) \in ArrayStates(N, S)
           /\ Delete(t, k).len = t.len - 1 /\ Delete(t, k).stop = t.stop
           /\ RestMovesDown(Delete(t, k), t, k, N)
<1> DEFINE arr == [i \in 1..N |-> IF i \in k..(t.len - 1) THEN t.arr[i + 1] ELSE t.arr[i]]
<1>1. t.arr \in [1..N -> S] /\ t.len \in Int /\ t.len <= N /\ t.stop \in BOOLEAN /\ DOMAIN t.arr = 1..N
  BY DEF ArrayStates
<1>2. arr \in [1..N -> S]
  <2>1. ASSUME NEW i \in 1..N, i \in k..(t.len - 1) PROVE i + 1 \in 1..N
    BY <1>1, <2>1
  <2> QED
    BY <1>1, <2>1
<1>3. Delete(t, k) = [t EXCEPT !.arr = arr, !.len = t.len - 1]
  BY <1>1 DEF Delete
<1>4. \A i \in 1..N : arr[i] = IF i \in k..(t.len - 1) THEN t.arr[i + 1] ELSE t.arr[i]
  OBVIOUS
<1> HIDE DEF arr
<1>5. t.len - 1 \in {l \in Int : l <= N}
  BY <1>1
<1>6. t \in [arr : [1..N -> S], len : {l \in Int : l <= N}, stop : BOOLEAN]
  BY DEF ArrayStates
<1>7. /\ [t EXCEPT !.arr = arr, !.len = t.len - 1] \in ArrayStates(N, S)
      /\ [t EXCEPT !.arr = arr, !.len = t.len - 1].arr = arr
      /\ [t EXCEPT !.arr = arr, !.len = t.len - 1].len = t.len - 1
      /\ [t EXCEPT !.arr = arr, !.len = t.len - 1].stop = t.stop
  BY <1>2, <1>5, <1>6, UpdatedSlice DEF ArrayStates
<1> QED
  BY <1>3, <1>4, <1>7 DEF RestMovesDown

LEMMA RangeStepTyped ==
    ASSUME NEW N \in Nat, NEW S, NEW t \in ArrayStates(N, S), NEW k \in 1..N, NEW scope
    PROVE  RangeStep(t, k, scope) \in ArrayStates(N, S)
<1>1. [t EXCEPT !.len = 0, !.stop = TRUE] \in ArrayStates(N, S)
  <2>1. 0 \in {l \in Int : l <= N} /\ t.arr \in [1..N -> S]
    BY DEF ArrayStates
  <2> QED
    BY <2>1, Stopped DEF ArrayStates
<1> QED
  BY <1>1, DeleteIs DEF RangeStep

\* The states of the inner loop.
RangesOver(h, n, s, scope, B) ==
    h \in [0..n -> B] /\ h[0] = AtStart(s) /\ \A k \in 1..n : h[k] = RangeStep(h[k - 1], k, scope)

LEMMA RemoveStates ==
    ASSUME NEW N \in Nat, NEW S, NEW s \in ArrayStates(N, S), NEW scope, NEW n \in 0..N, 1..s.len = 1..n
    PROVE  \E h : RangesOver(h, n, s, scope, ArrayStates(N, S)) /\ h[n] = RemoveScope(s, scope)
<1> DEFINE list == [k \in 1..s.len |-> k]
           B == ArrayStates(N, S)
           F == [k \in 1..n |-> [b \in B |-> RangeStep(b, k, scope)]]
           P(g) == g = [T \in SUBSET DOMAIN list |->
                        IF T = {} THEN AtStart(s)
                        ELSE RangeStep(g[T \ {Max(T)}], list[Max(T)], scope)]
           iter == CHOOSE g : P(g)
<1>1. /\ n \in Nat /\ DOMAIN list = 1..n
      /\ \A i \in 1..n : list[i] = i
      /\ \A i \in 1..n : i \in 1..N
  <2>1. n \in Nat /\ \A i \in 1..n : i \in 1..N
    OBVIOUS
  <2>2. DOMAIN list = 1..n
    OBVIOUS
  <2>3. \A i \in 1..s.len : list[i] = i
    OBVIOUS
  <2> QED
    BY <2>1, <2>2, <2>3
<1>2. RemoveScope(s, scope) = iter[1..n]
  <2>1. RemoveScope(s, scope) = iter[DOMAIN list]
    BY DEF RemoveScope, FoldLeft, MapThenFoldSet, RangeStep, AtStart
  <2> QED
    BY <1>1, <2>1
<1> HIDE DEF list
<1>3. AtStart(s) \in B
  BY Restarted DEF ArrayStates, AtStart
<1>4. \A k \in 1..n, b \in B : RangeStep(b, k, scope) \in B
  BY <1>1, RangeStepTyped
<1>5. F \in [1..n -> [B -> B]] /\ \A k \in 1..n, b \in B : F[k][b] = RangeStep(b, k, scope)
  BY <1>4
<1> HIDE DEF B, F
<1>6. \E g : P(g)
  <2>1. PICK g \in [SUBSET (1..n) -> B] : FoldsWith(g, n, AtStart(s), F)
    BY <1>1, <1>3, <1>5, FoldExists
  <2>2. ASSUME NEW T \in SUBSET (1..n), T # {}
        PROVE  g[T] = RangeStep(g[T \ {Max(T)}], list[Max(T)], scope)
    <3>1. Max(T) \in 1..n /\ g[T \ {Max(T)}] \in B /\ list[Max(T)] = Max(T)
      BY <1>1, <2>2, GreatestOf
    <3> QED
      BY <1>5, <2>1, <2>2, <3>1 DEF FoldsWith
  <2>3. g[{}] = AtStart(s)
    BY <2>1 DEF FoldsWith
  <2>4. P(g)
    BY <1>1, <2>1, <2>2, <2>3
  <2> QED
    BY <2>4
<1>7. P(iter)
  BY <1>6
<1> HIDE DEF iter
<1>8. iter[{}] = AtStart(s)
  BY <1>1, <1>7
<1>9. Moves(iter, n, B, F)
  <2>1. SUFFICES ASSUME NEW i \in 1..n, iter[1..(i - 1)] \in B PROVE iter[1..i] = F[i][iter[1..(i - 1)]]
    BY DEF Moves
  <2>2. Max(1..i) = i /\ 1..i \in SUBSET (1..n) /\ 1..i # {} /\ (1..i) \ {i} = 1..(i - 1)
    BY <1>1, Initials
  <2>3. iter[1..i] = RangeStep(iter[1..(i - 1)], list[i], scope)
    <3>1. 1..i \in SUBSET DOMAIN list
      BY <1>1, <2>2
    <3> QED
      BY <1>7, <2>2, <3>1, Zenon
  <2>4. list[i] = i
    BY <1>1
  <2>5. F[i][iter[1..(i - 1)]] = RangeStep(iter[1..(i - 1)], i, scope)
    BY <1>5, <2>1
  <2> QED
    BY <2>3, <2>4, <2>5
<1>10. PICK h : StatesOf(h, n, B, AtStart(s), F) /\ h[n] = iter[1..n]
  BY <1>1, <1>3, <1>5, <1>8, <1>9, FoldStates
<1>11. \A k \in 1..n : h[k] = RangeStep(h[k - 1], k, scope)
  <2>1. \A k \in 1..n : k - 1 \in 0..n
    BY <1>1
  <2> QED
    BY <1>5, <1>10, <2>1 DEF StatesOf
<1> QED
  BY <1>2, <1>10, <1>11 DEF StatesOf, RangesOver, B

\* What a slice says: the elements of wanted that are not in had, in their order.
LeavesOf(s, wanted, had) ==
    /\ \A i \in 1..s.len : s.arr[i] \notin had
    /\ \A a \in DOMAIN wanted : wanted[a] \notin had => \E i \in 1..s.len : s.arr[i] = wanted[a]
    /\ \A i \in 1..s.len : \E a \in DOMAIN wanted : wanted[a] = s.arr[i]
    /\ \A i, j \in 1..s.len : i < j =>
            \E a, b \in DOMAIN wanted : a < b /\ wanted[a] = s.arr[i] /\ wanted[b] = s.arr[j]

\* No element of a slice is there twice.
Distinct(s) == \A i, j \in 1..s.len : s.arr[i] = s.arr[j] => i = j

\* One element gone, the rest moved down.
Without(r, s, j) ==
    r.len = s.len - 1 /\ \A i \in 1..r.len : r.arr[i] = IF i < j THEN s.arr[i] ELSE s.arr[i + 1]

LEMMA RemoveIs ==
    ASSUME NEW N \in Nat, NEW S, NEW s \in ArrayStates(N, S), NEW scope, Distinct(s)
    PROVE  /\ RemoveScope(s, scope) \in ArrayStates(N, S)
           /\ \/ /\ \A i \in 1..s.len : s.arr[i] # scope
                 /\ RemoveScope(s, scope).arr = s.arr /\ RemoveScope(s, scope).len = s.len
              \/ \E j \in 1..s.len : s.arr[j] = scope /\ Without(RemoveScope(s, scope), s, j)
<1> DEFINE n == IF s.len > 0 THEN s.len ELSE 0
           b == AtStart(s)
<1>1. /\ s.arr \in [1..N -> S] /\ s.len \in Int /\ s.len <= N /\ DOMAIN s.arr = 1..N
      /\ n \in 0..N /\ n \in Nat /\ 1..s.len = 1..n
  BY DEF ArrayStates
<1>2. b \in ArrayStates(N, S) /\ b.arr = s.arr /\ b.len = s.len /\ b.stop = FALSE
  BY Restarted DEF ArrayStates, AtStart
<1> HIDE DEF n
<1>3. PICK h : RangesOver(h, n, s, scope, ArrayStates(N, S)) /\ h[n] = RemoveScope(s, scope)
  BY <1>1, RemoveStates
<1>0. /\ h \in [0..n -> ArrayStates(N, S)] /\ h[0] = b
      /\ \A k \in 1..n : h[k] = RangeStep(h[k - 1], k, scope)
  BY <1>3 DEF RangesOver
<1> HIDE DEF b
<1> DEFINE Gone(t, j) == \/ s.len = 1 /\ t.len = 0 /\ t.stop
                         \/ s.len # 1 /\ t = Delete(b, j)
           Reached(k) == \/ h[k] = b /\ \A i \in 1..k : s.arr[i] # scope
                         \/ \E j \in 1..k : s.arr[j] = scope /\ Gone(h[k], j)
           Wrong == {k \in Nat : k <= n /\ ~Reached(k)}
<1>4. Reached(0)
  BY <1>0
<1>5. ASSUME NEW k \in Nat, k + 1 <= n, Reached(k) PROVE Reached(k + 1)
  <2>1. k + 1 \in 1..n /\ (k + 1) - 1 = k /\ k + 1 \in 1..N /\ k + 1 <= s.len
    BY <1>1, <1>5
  <2>2. h[k + 1] = RangeStep(h[k], k + 1, scope)
    BY <1>0, <2>1
  <2>3. CASE h[k] = b /\ \A i \in 1..k : s.arr[i] # scope
    <3>1. CASE s.arr[k + 1] # scope
      <4>1. h[k + 1] = b
        BY <1>2, <2>2, <2>3, <3>1 DEF RangeStep
      <4> QED
        BY <2>3, <3>1, <4>1
    <3>2. CASE s.arr[k + 1] = scope /\ s.len = 1
      <4>1. h[k + 1] = [b EXCEPT !.len = 0, !.stop = TRUE]
        BY <1>2, <2>2, <2>3, <3>2 DEF RangeStep
      <4>2. h[k + 1].len = 0 /\ h[k + 1].stop
        BY <1>2, <4>1 DEF ArrayStates
      <4> QED
        BY <3>2, <4>2
    <3>3. CASE s.arr[k + 1] = scope /\ s.len # 1
      <4>1. h[k + 1] = Delete(b, k + 1)
        BY <1>2, <2>2, <2>3, <3>3 DEF RangeStep
      <4> QED
        BY <3>3, <4>1
    <3> QED
      BY <3>1, <3>2, <3>3
  <2>4. ASSUME NEW j \in 1..k, s.arr[j] = scope, Gone(h[k], j) PROVE Reached(k + 1)
    <3>1. j \in 1..(k + 1)
      OBVIOUS
    <3>2. CASE s.len = 1
      BY <2>1, <2>4, <3>2
    <3>3. CASE s.len # 1
      <4>1. h[k] = Delete(b, j) /\ j \in 1..N
        BY <2>1, <2>4, <3>3
      <4>2. /\ h[k].stop = FALSE
            /\ h[k].arr[k + 1] = IF k + 1 \in j..(s.len - 1) THEN s.arr[(k + 1) + 1] ELSE s.arr[k + 1]
        BY <1>2, <2>1, <4>1, DeleteIs DEF RestMovesDown
      <4>3. h[k].arr[k + 1] # scope
        <5>1. CASE k + 1 \in j..(s.len - 1)
          <6>1. (k + 1) + 1 \in 1..s.len /\ (k + 1) + 1 # j /\ j \in 1..s.len
            BY <1>1, <2>1, <5>1
          <6> QED
            BY <2>4, <4>2, <5>1, <6>1 DEF Distinct
        <5>2. CASE k + 1 \notin j..(s.len - 1)
          <6>1. k + 1 \in 1..s.len /\ k + 1 # j /\ j \in 1..s.len
            BY <1>1, <2>1
          <6> QED
            BY <2>4, <4>2, <5>2, <6>1 DEF Distinct
        <5> QED
          BY <5>1, <5>2
      <4>4. h[k + 1] = h[k]
        BY <2>2, <4>3 DEF RangeStep
      <4> QED
        BY <2>4, <3>1, <4>4
    <3> QED
      BY <3>2, <3>3
  <2> QED
    BY <1>5, <2>3, <2>4
<1> HIDE DEF Reached
<1>6. Wrong = {}
  <2>1. SUFFICES ASSUME Wrong # {} PROVE FALSE
    OBVIOUS
  <2>2. PICK k \in Wrong : \A m \in Wrong : k <= m
    BY <2>1, LeastOf
  <2>3. k # 0
    BY <1>4, <2>2
  <2>4. k - 1 \in Nat /\ k - 1 \notin Wrong /\ k - 1 <= n /\ (k - 1) + 1 = k /\ k <= n
    BY <1>1, <2>2, <2>3
  <2>5. Reached(k - 1)
    BY <2>4
  <2>6. Reached((k - 1) + 1)
    BY <1>5, <2>4, <2>5
  <2> QED
    BY <2>2, <2>4, <2>6
<1>7. Reached(n)
  BY <1>1, <1>6
<1>8. h[n] \in ArrayStates(N, S)
  BY <1>0, <1>1
<1> DEFINE r == RemoveScope(s, scope)
<1>9. CASE h[n] = b /\ \A i \in 1..n : s.arr[i] # scope
  BY <1>1, <1>2, <1>3, <1>8, <1>9
<1>10. ASSUME NEW j \in 1..n, s.arr[j] = scope, Gone(h[n], j) PROVE j \in 1..s.len /\ Without(r, s, j)
  <2>1. j \in 1..s.len /\ j \in 1..N
    BY <1>1
  <2>2. CASE s.len = 1
    BY <1>3, <1>10, <2>1, <2>2 DEF Without
  <2>3. CASE s.len # 1
    <3>1. r = Delete(b, j)
      BY <1>3, <1>10, <2>3
    <3> HIDE DEF r
    <3>4. Delete(b, j).len = b.len - 1 /\ RestMovesDown(Delete(b, j), b, j, N)
      BY <1>2, <2>1, DeleteIs
    <3>2. /\ r.len = s.len - 1
          /\ \A i \in 1..N : r.arr[i] = IF i \in j..(s.len - 1) THEN s.arr[i + 1] ELSE s.arr[i]
      BY <1>2, <3>1, <3>4 DEF RestMovesDown
    <3>3. \A i \in 1..r.len : i \in 1..N /\ (i < j <=> i \notin j..(s.len - 1))
      BY <1>1, <2>1, <3>2
    <3> QED
      BY <2>1, <3>2, <3>3 DEF Without
  <2> QED
    BY <2>1, <2>2, <2>3
<1> QED
  BY <1>3, <1>7, <1>8, <1>9, <1>10 DEF Reached

LEMMA RemovedIs ==
    ASSUME NEW N \in Nat, NEW S, NEW s \in ArrayStates(N, S), NEW scope, NEW had,
           NEW wanted, DOMAIN wanted \subseteq Int,
           \A a, b \in DOMAIN wanted : wanted[a] = wanted[b] => a = b,
           LeavesOf(s, wanted, had)
    PROVE  /\ RemoveScope(s, scope) \in ArrayStates(N, S)
           /\ LeavesOf(RemoveScope(s, scope), wanted, had \cup {scope})
<1> DEFINE r == RemoveScope(s, scope)
<1>1. s.len \in Int
  BY DEF ArrayStates
<1>2. Distinct(s)
  <2>1. SUFFICES ASSUME NEW i \in 1..s.len, NEW j \in 1..s.len, s.arr[i] = s.arr[j], i < j PROVE FALSE
    BY <1>1 DEF Distinct
  <2>2. PICK a, b \in DOMAIN wanted : a < b /\ wanted[a] = s.arr[i] /\ wanted[b] = s.arr[j]
    BY <2>1 DEF LeavesOf
  <2>3. a = b
    BY <2>1, <2>2
  <2> QED
    BY <2>2, <2>3
<1>3. /\ r \in ArrayStates(N, S)
      /\ \/ (\A i \in 1..s.len : s.arr[i] # scope) /\ r.arr = s.arr /\ r.len = s.len
         \/ \E j \in 1..s.len : s.arr[j] = scope /\ Without(r, s, j)
  BY <1>2, RemoveIs
<1> HIDE DEF r
<1>4. ASSUME \A i \in 1..s.len : s.arr[i] # scope, r.arr = s.arr, r.len = s.len
      PROVE  LeavesOf(r, wanted, had \cup {scope})
  <2>1. \A a \in DOMAIN wanted : wanted[a] \notin had \cup {scope} => wanted[a] \notin had
    OBVIOUS
  <2> QED
    BY <1>4, <2>1 DEF LeavesOf
<1>5. ASSUME NEW j \in 1..s.len, s.arr[j] = scope, Without(r, s, j)
      PROVE  LeavesOf(r, wanted, had \cup {scope})
  <2> DEFINE at(i) == IF i < j THEN i ELSE i + 1
  <2>1. r.len = s.len - 1 /\ \A i \in 1..r.len : r.arr[i] = s.arr[at(i)]
    BY <1>5 DEF Without
  <2>2. \A i \in 1..r.len : at(i) \in 1..s.len /\ at(i) # j
    BY <1>1, <2>1
  <2>3. \A i, k \in 1..r.len : i < k => at(i) < at(k)
    BY <1>1, <2>1
  <2>4. \A i \in 1..s.len : i # j => \E k \in 1..r.len : at(k) = i
    <3>1. ASSUME NEW i \in 1..s.len, i # j PROVE \E k \in 1..r.len : at(k) = i
      <4>1. CASE i < j
        BY <1>1, <2>1, <4>1
      <4>2. CASE i > j
        <5>1. i - 1 \in 1..r.len /\ at(i - 1) = i
          BY <1>1, <2>1, <4>2
        <5> QED
          BY <5>1
      <4> QED
        BY <1>1, <3>1, <4>1, <4>2
    <3> QED
      BY <3>1
  <2> HIDE DEF at
  <2>5. \A i \in 1..r.len : r.arr[i] \notin had \cup {scope}
    BY <1>2, <1>5, <2>1, <2>2 DEF LeavesOf, Distinct
  <2>6. ASSUME NEW a \in DOMAIN wanted, wanted[a] \notin had \cup {scope}
        PROVE  \E i \in 1..r.len : r.arr[i] = wanted[a]
    <3>1. PICK i \in 1..s.len : s.arr[i] = wanted[a]
      BY <2>6 DEF LeavesOf
    <3>2. i # j
      BY <1>5, <2>6, <3>1
    <3> QED
      BY <2>1, <2>4, <3>1, <3>2
  <2>7. \A i \in 1..r.len : \E a \in DOMAIN wanted : wanted[a] = r.arr[i]
    BY <2>1, <2>2 DEF LeavesOf
  <2>8. ASSUME NEW i \in 1..r.len, NEW k \in 1..r.len, i < k
        PROVE  \E a, b \in DOMAIN wanted : a < b /\ wanted[a] = r.arr[i] /\ wanted[b] = r.arr[k]
    <3>1. at(i) \in 1..s.len /\ at(k) \in 1..s.len /\ at(i) < at(k)
      BY <2>2, <2>3, <2>8
    <3> QED
      BY <2>1, <3>1 DEF LeavesOf
  <2> QED
    BY <2>5, <2>6, <2>7, <2>8 DEF LeavesOf
<1> QED
  BY <1>3, <1>4, <1>5 DEF r

\* The states of the outer loop, over the scopes of the key.
Removes(h, scopes, base, B) ==
    /\ h \in [0..Len(scopes) -> B] /\ h[0] = base
    /\ \A m \in 1..Len(scopes) : h[m] = RemoveScope(h[m - 1], scopes[m])

Slices(required) == ArrayStates(Len(required), ScopeNames)

LEMMA RemoveTyped ==
    ASSUME NEW N \in Nat, NEW S, NEW s \in ArrayStates(N, S), NEW scope
    PROVE  RemoveScope(s, scope) \in ArrayStates(N, S)
<1> DEFINE n == IF s.len > 0 THEN s.len ELSE 0
<1>1. n \in 0..N /\ 1..s.len = 1..n
  BY DEF ArrayStates
<1> HIDE DEF n
<1>2. PICK h : RangesOver(h, n, s, scope, ArrayStates(N, S)) /\ h[n] = RemoveScope(s, scope)
  BY <1>1, RemoveStates
<1>3. h \in [0..n -> ArrayStates(N, S)] /\ n \in 0..n
  BY <1>1, <1>2 DEF RangesOver
<1> QED
  BY <1>2, <1>3

LEMMA CheckStates ==
    ASSUME NEW S, NEW scopes \in Seq(S), NEW required \in Seq(ScopeNames)
    PROVE  \E h : /\ Removes(h, scopes, [arr |-> required, len |-> Len(required), stop |-> FALSE], Slices(required))
                  /\ CheckScopes(scopes, required) = Slice(h[Len(scopes)])
<1> DEFINE n == Len(scopes)
           base == [arr |-> required, len |-> Len(required), stop |-> FALSE]
           B == Slices(required)
           F == [m \in 1..n |-> [b \in B |-> RemoveScope(b, scopes[m])]]
           P(g) == g = [T \in SUBSET DOMAIN scopes |->
                        IF T = {} THEN base ELSE RemoveScope(g[T \ {Max(T)}], scopes[Max(T)])]
           iter == CHOOSE g : P(g)
<1>1. n \in Nat /\ DOMAIN scopes = 1..n
  OBVIOUS
<1>2. CheckScopes(scopes, required) = Slice(iter[1..n])
  <2>1. CheckScopes(scopes, required) = Slice(iter[DOMAIN scopes])
    BY DEF CheckScopes, FoldLeft, MapThenFoldSet
  <2> QED
    BY <1>1, <2>1
<1>3. base \in B
  <2>1. required \in [1..Len(required) -> ScopeNames] /\ Len(required) \in {l \in Int : l <= Len(required)}
    OBVIOUS
  <2> QED
    BY <2>1 DEF Slices, ArrayStates
<1>4. \A m \in 1..n, b \in B : RemoveScope(b, scopes[m]) \in B
  <2>1. Len(required) \in Nat
    OBVIOUS
  <2> QED
    BY <2>1, RemoveTyped DEF Slices
<1>5. F \in [1..n -> [B -> B]] /\ \A m \in 1..n, b \in B : F[m][b] = RemoveScope(b, scopes[m])
  BY <1>4
<1> HIDE DEF n, B, F, base
<1>6. \E g : P(g)
  <2>1. PICK g \in [SUBSET (1..n) -> B] : FoldsWith(g, n, base, F)
    BY <1>1, <1>3, <1>5, FoldExists
  <2>2. ASSUME NEW T \in SUBSET (1..n), T # {}
        PROVE  g[T] = RemoveScope(g[T \ {Max(T)}], scopes[Max(T)])
    <3>1. Max(T) \in 1..n /\ g[T \ {Max(T)}] \in B
      BY <1>1, <2>2, GreatestOf
    <3> QED
      BY <1>5, <2>1, <2>2, <3>1 DEF FoldsWith
  <2>3. g[{}] = base
    BY <2>1 DEF FoldsWith
  <2>4. P(g)
    BY <1>1, <2>1, <2>2, <2>3
  <2> QED
    BY <2>4
<1>7. P(iter)
  BY <1>6
<1> HIDE DEF iter
<1>8. iter[{}] = base
  BY <1>1, <1>7
<1>9. Moves(iter, n, B, F)
  <2>1. SUFFICES ASSUME NEW i \in 1..n, iter[1..(i - 1)] \in B PROVE iter[1..i] = F[i][iter[1..(i - 1)]]
    BY DEF Moves
  <2>2. Max(1..i) = i /\ 1..i \in SUBSET (1..n) /\ 1..i # {} /\ (1..i) \ {i} = 1..(i - 1)
    BY <1>1, Initials
  <2>3. iter[1..i] = RemoveScope(iter[1..(i - 1)], scopes[i])
    <3>1. 1..i \in SUBSET DOMAIN scopes
      BY <1>1, <2>2
    <3> QED
      BY <1>7, <2>2, <3>1, Zenon
  <2>4. F[i][iter[1..(i - 1)]] = RemoveScope(iter[1..(i - 1)], scopes[i])
    BY <1>5, <2>1
  <2> QED
    BY <2>3, <2>4
<1>10. PICK h : StatesOf(h, n, B, base, F) /\ h[n] = iter[1..n]
  <2>1. n \in Nat
    BY <1>1
  <2>2. F \in [1..n -> [B -> B]]
    BY <1>5
  <2> QED
    BY <1>3, <1>8, <1>9, <2>1, <2>2, FoldStates
<1>11. \A m \in 1..n : h[m] = RemoveScope(h[m - 1], scopes[m])
  <2>1. \A m \in 1..n : m - 1 \in 0..n
    BY <1>1
  <2> QED
    BY <1>5, <1>10, <2>1 DEF StatesOf
<1>12. h \in [0..n -> B] /\ h[0] = base
  BY <1>10 DEF StatesOf
<1>13. Removes(h, scopes, base, B)
  BY <1>11, <1>12 DEF Removes, n
<1>14. CheckScopes(scopes, required) = Slice(h[n])
  BY <1>2, <1>10
<1> QED
  BY <1>13, <1>14 DEF n, base, B

LEMMA CheckIs ==
    ASSUME NEW S, NEW scopes \in Seq(S), NEW required \in Seq(ScopeNames),
           \A a, b \in DOMAIN required : required[a] = required[b] => a = b
    PROVE  \E s \in Slices(required) :
               /\ LeavesOf(s, required, {scopes[m] : m \in 1..Len(scopes)})
               /\ CheckScopes(scopes, required) = Slice(s)
<1> DEFINE n == Len(scopes)
           base == [arr |-> required, len |-> Len(required), stop |-> FALSE]
           had(m) == {scopes[i] : i \in 1..m}
<1>1. PICK h : /\ Removes(h, scopes, base, Slices(required))
               /\ CheckScopes(scopes, required) = Slice(h[n])
  BY CheckStates
<1>2. /\ n \in Nat /\ h \in [0..n -> Slices(required)] /\ h[0] = base
      /\ \A m \in 1..n : h[m] = RemoveScope(h[m - 1], scopes[m])
  BY <1>1 DEF Removes
<1> HIDE DEF n
<1> DEFINE Wrong == {m \in Nat : m <= n /\ ~LeavesOf(h[m], required, had(m))}
<1>3. LeavesOf(h[0], required, had(0))
  <2>1. h[0].arr = required /\ h[0].len = Len(required)
    BY <1>2
  <2>2. had(0) = {} /\ DOMAIN required = 1..Len(required)
    OBVIOUS
  <2> QED
    BY <2>1, <2>2 DEF LeavesOf
<1>4. ASSUME NEW m \in Nat, m + 1 <= n, LeavesOf(h[m], required, had(m))
      PROVE  LeavesOf(h[m + 1], required, had(m + 1))
  <2>1. h[m] \in ArrayStates(Len(required), ScopeNames) /\ Len(required) \in Nat /\ DOMAIN required \subseteq Int
    BY <1>2, <1>4 DEF Slices
  <2>2. LeavesOf(RemoveScope(h[m], scopes[m + 1]), required, had(m) \cup {scopes[m + 1]})
    <3> HIDE DEF had
    <3> QED
      BY <1>4, <2>1, RemovedIs
  <2>3. had(m + 1) = had(m) \cup {scopes[m + 1]}
    <3>1. 1..(m + 1) = (1..m) \cup {m + 1}
      OBVIOUS
    <3> QED
      BY <3>1
  <2>4. h[m + 1] = RemoveScope(h[m], scopes[m + 1])
    <3>1. m + 1 \in 1..n /\ (m + 1) - 1 = m
      BY <1>4
    <3> QED
      BY <1>2, <3>1
  <2> QED
    BY <2>2, <2>3, <2>4
<1> HIDE DEF had
<1>5. Wrong = {}
  <2>1. SUFFICES ASSUME Wrong # {} PROVE FALSE
    OBVIOUS
  <2>2. PICK m \in Wrong : \A k \in Wrong : m <= k
    BY <2>1, LeastOf
  <2>3. m # 0
    BY <1>3, <2>2
  <2>4. m - 1 \in Nat /\ m - 1 \notin Wrong /\ m - 1 <= n /\ (m - 1) + 1 = m /\ m <= n
    BY <1>2, <2>2, <2>3
  <2>5. LeavesOf(h[m - 1], required, had(m - 1))
    BY <2>4
  <2>6. LeavesOf(h[(m - 1) + 1], required, had((m - 1) + 1))
    BY <1>4, <2>4, <2>5
  <2> QED
    BY <2>2, <2>4, <2>6
<1>6. LeavesOf(h[n], required, had(n)) /\ h[n] \in Slices(required)
  BY <1>2, <1>5
<1> QED
  BY <1>1, <1>6 DEF had, n

LEMMA SliceIs ==
    ASSUME NEW N \in Nat, NEW S, NEW s \in ArrayStates(N, S)
    PROVE  DOMAIN Slice(s) = 1..s.len /\ \A i \in 1..s.len : Slice(s)[i] = s.arr[i]
<1>1. s.arr \in Seq(S) /\ s.len \in Int /\ s.len <= N /\ Len(s.arr) = N
  BY DEF ArrayStates
<1>2. CASE s.len > 0
  BY <1>1, <1>2, SubSeqProperties DEF Slice
<1>3. CASE s.len <= 0
  <2>1. Slice(s) = <<>> /\ 1..s.len = {}
    BY <1>1, <1>3, SubSeqProperties DEF Slice
  <2> QED
    BY <2>1
<1> QED
  BY <1>1, <1>2, <1>3

\* What CheckScopes leaves of the required scopes.
LEMMA CheckScopesIs ==
    ASSUME NEW S, NEW scopes \in Seq(S), NEW required \in Seq(ScopeNames), IsInjective(required)
    PROVE  /\ Range(CheckScopes(scopes, required)) = Range(required) \ Range(scopes)
           /\ \A i, j \in DOMAIN CheckScopes(scopes, required) : i < j =>
                \E a, b \in DOMAIN required : a < b /\ required[a] = CheckScopes(scopes, required)[i]
                                                   /\ required[b] = CheckScopes(scopes, required)[j]
           /\ CheckScopes(scopes, required) = <<>> => Range(required) \subseteq Range(scopes)
<1> DEFINE c == CheckScopes(scopes, required)
<1>1. \A a, b \in DOMAIN required : required[a] = required[b] => a = b
  BY DEF IsInjective
<1>2. PICK s \in Slices(required) :
        LeavesOf(s, required, {scopes[m] : m \in 1..Len(scopes)}) /\ c = Slice(s)
  BY <1>1, CheckIs
<1>3. {scopes[m] : m \in 1..Len(scopes)} = Range(scopes)
  BY DEF Range
<1>4. DOMAIN c = 1..s.len /\ \A i \in 1..s.len : c[i] = s.arr[i]
  <2>1. s \in ArrayStates(Len(required), ScopeNames) /\ Len(required) \in Nat
    BY DEF Slices
  <2> QED
    BY <1>2, <2>1, SliceIs
<1>5. LeavesOf(s, required, Range(scopes))
  BY <1>2, <1>3
<1> HIDE DEF c
<1>6. \A i, j \in DOMAIN c : i < j =>
        \E a, b \in DOMAIN required : a < b /\ required[a] = c[i] /\ required[b] = c[j]
  <2>1. ASSUME NEW i \in DOMAIN c, NEW j \in DOMAIN c, i < j
        PROVE  \E a, b \in DOMAIN required : a < b /\ required[a] = c[i] /\ required[b] = c[j]
    <3>1. i \in 1..s.len /\ j \in 1..s.len /\ c[i] = s.arr[i] /\ c[j] = s.arr[j]
      BY <1>4
    <3>2. PICK a, b \in DOMAIN required : a < b /\ required[a] = s.arr[i] /\ required[b] = s.arr[j]
      BY <1>5, <2>1, <3>1 DEF LeavesOf
    <3> QED
      BY <3>1, <3>2
  <2> QED
    BY <2>1
<1>7. Range(c) = Range(required) \ Range(scopes)
  <2>1. ASSUME NEW x \in Range(c) PROVE x \in Range(required) /\ x \notin Range(scopes)
    <3>1. PICK i \in 1..s.len : x = s.arr[i]
      BY <1>4, <2>1 DEF Range
    <3>2. \E a \in DOMAIN required : required[a] = x
      BY <1>5, <3>1 DEF LeavesOf
    <3> QED
      BY <1>5, <3>1, <3>2 DEF LeavesOf, Range
  <2>2. ASSUME NEW x \in Range(required), x \notin Range(scopes) PROVE x \in Range(c)
    <3>1. PICK a \in DOMAIN required : required[a] = x
      BY <2>2 DEF Range
    <3>2. PICK i \in 1..s.len : s.arr[i] = x
      BY <1>5, <2>2, <3>1 DEF LeavesOf
    <3>3. i \in DOMAIN c /\ c[i] = x
      BY <1>4, <3>2
    <3> QED
      BY <3>3 DEF Range
  <2> QED
    BY <2>1, <2>2
<1>8. c = <<>> => Range(required) \subseteq Range(scopes)
  <2>1. c = <<>> => Range(c) = {}
    BY DEF Range
  <2> QED
    BY <1>7, <2>1
<1> QED
  BY <1>6, <1>7, <1>8 DEF c

ScopesInv ==
    /\ given \in [scopes : Lists, required : {l \in Lists : IsInjective(l)}]
    /\ MissingScopes

LEMMA ScopesInitially == ScopesInit => ScopesInv
BY DEF ScopesInit, ScopesInv, MissingScopes

LEMMA ScopesStep == ASSUME ScopesInv, [ScopesNext]_scopeVars PROVE ScopesInv'
<1>1. UNCHANGED given
  BY DEF ScopesNext, Credentials, APIFails, scopeVars
<1>2. given' \in [scopes : Lists, required : {l \in Lists : IsInjective(l)}]
  BY <1>1 DEF ScopesInv
<1>3. ASSUME NEW credentials \in Lists,
             NEW requiredCredentials \in {<<>>, <<<<>>>>} \cup {<<<<n>>>> : n \in ScopeNames},
             Credentials(credentials, requiredCredentials)
      PROVE  MissingScopes'
  <2>1. SUFFICES ASSUME given.scopes # <<>>
        PROVE  /\ client'.got = "insufficient" => IsLacking(client.missing)'
               /\ client'.got = "client" => Range(given.required) \subseteq Range(given.scopes)
    BY <1>1 DEF MissingScopes
  <2> DEFINE c == CheckScopes(given.scopes, given.required)
  <2>2. given.scopes \in Seq(ScopeNames) /\ given.required \in Seq(ScopeNames) /\ IsInjective(given.required)
    BY ScopesAssumption DEF ScopesInv, Lists
  <2>3. /\ Range(c) = Range(given.required) \ Range(given.scopes)
        /\ \A i, j \in DOMAIN c : i < j =>
             \E a, b \in DOMAIN given.required : a < b /\ given.required[a] = c[i] /\ given.required[b] = c[j]
        /\ c = <<>> => Range(given.required) \subseteq Range(given.scopes)
    BY <2>2, CheckScopesIs
  <2> HIDE DEF c
  <2>4. IF c = <<>> THEN client' = [got |-> "client", missing |-> <<>>]
                    ELSE client' = [got |-> "insufficient", missing |-> c]
    BY <1>3, <2>1 DEF Credentials, GetAPIClient, c
  <2>5. CASE c = <<>>
    BY <2>3, <2>4, <2>5
  <2>6. CASE c # <<>>
    <3>1. client'.got = "insufficient" /\ client'.missing = c
      BY <2>4, <2>6
    <3>2. IsLacking(client.missing)'
      BY <1>1, <2>3, <3>1 DEF IsLacking
    <3> QED
      BY <3>1, <3>2
  <2> QED
    BY <2>5, <2>6
<1>4. ASSUME APIFails PROVE MissingScopes'
  BY <1>4 DEF APIFails, MissingScopes
<1>5. ASSUME UNCHANGED scopeVars PROVE MissingScopes'
  BY <1>5 DEF scopeVars, ScopesInv, MissingScopes, IsLacking
<1> QED
  BY <1>2, <1>3, <1>4, <1>5 DEF ScopesInv, ScopesNext

\* For scope lists of any length, what an API key is said to lack is what it lacks
\* (utils.go:168-185).
THEOREM ScopesAreMissing == ScopesSpec => []MissingScopes
<1>1. ScopesInv => MissingScopes
  BY DEF ScopesInv
<1> QED
  BY <1>1, ScopesInitially, ScopesStep, PTL DEF ScopesSpec

-----------------------------------------------------------------------------
(* LogText: what a reader makes of a written string is a fold, so one byte  *)
(* more is one more step of it; the writer's loop keeps that a reader of    *)
(* what is copied so far has the bytes before the current one.              *)

Written == Bytes \cup {"backslash", "invalid"}
Marks == {"plain", "escaped"} \X Written
ReaderStates == [escaped : BOOLEAN, out : Seq(Marks)]
Start == [escaped |-> FALSE, out |-> <<>>]
ReadBack(w) == FoldLeft(Unescape, Start, w)

LEMMA UnescapeIs ==
    ASSUME NEW r \in ReaderStates, NEW b \in Written
    PROVE  /\ Unescape(r, b) \in ReaderStates
           /\ ~r.escaped /\ b # "backslash" =>
                Unescape(r, b) = [escaped |-> FALSE, out |-> Append(r.out, <<"plain", b>>)]
           /\ ~r.escaped /\ b = "backslash" => Unescape(r, b) = [escaped |-> TRUE, out |-> r.out]
           /\ r.escaped =>
                Unescape(r, b) = [escaped |-> FALSE, out |-> Append(r.out, <<"escaped", b>>)]
<1>1. r.escaped \in BOOLEAN /\ r.out \in Seq(Marks) /\ r = [escaped |-> r.escaped, out |-> r.out]
  BY DEF ReaderStates
<1>2. /\ <<"plain", b>> \in Marks /\ <<"escaped", b>> \in Marks
      /\ Append(r.out, <<"plain", b>>) \in Seq(Marks) /\ Append(r.out, <<"escaped", b>>) \in Seq(Marks)
  <2>1. <<"plain", b>> \in Marks /\ <<"escaped", b>> \in Marks
    BY DEF Marks
  <2> QED
    BY <1>1, <2>1
<1>3. CASE r.escaped
  BY <1>1, <1>2, <1>3 DEF Unescape, ReaderStates
<1>4. CASE ~r.escaped /\ b = "backslash"
  <2>1. Unescape(r, b) = [escaped |-> TRUE, out |-> r.out]
    BY <1>1, <1>4 DEF Unescape
  <2>2. [escaped |-> TRUE, out |-> r.out] \in ReaderStates
    BY <1>1 DEF ReaderStates
  <2>3. ~r.escaped /\ b = "backslash"
    BY <1>4
  <2> QED
    BY <2>1, <2>2, <2>3
<1>5. CASE ~r.escaped /\ b # "backslash"
  <2>1. Unescape(r, b) = [escaped |-> FALSE, out |-> Append(r.out, <<"plain", b>>)]
    BY <1>1, <1>2, <1>5 DEF Unescape
  <2> QED
    BY <1>1, <1>2, <1>5, <2>1 DEF ReaderStates
<1> QED
  BY <1>3, <1>4, <1>5

LEMMA ReadStates ==
    ASSUME NEW w \in Seq(Written)
    PROVE  \E h, F : /\ StatesOf(h, Len(w), ReaderStates, Start, F)
                     /\ \A i \in 1..Len(w), b \in ReaderStates : F[i][b] = Unescape(b, w[i])
                     /\ h[Len(w)] = ReadBack(w)
<1> DEFINE n == Len(w)
           B == ReaderStates
           F == [i \in 1..n |-> [b \in B |-> Unescape(b, w[i])]]
           P(g) == g = [T \in SUBSET DOMAIN w |->
                        IF T = {} THEN Start ELSE Unescape(g[T \ {Max(T)}], w[Max(T)])]
           iter == CHOOSE g : P(g)
<1>1. n \in Nat /\ DOMAIN w = 1..n /\ \A i \in 1..n : w[i] \in Written
  OBVIOUS
<1>2. ReadBack(w) = iter[1..n]
  <2>1. ReadBack(w) = iter[DOMAIN w]
    BY DEF ReadBack, FoldLeft, MapThenFoldSet
  <2> QED
    BY <1>1, <2>1
<1>3. Start \in B /\ \A i \in 1..n, b \in B : Unescape(b, w[i]) \in B
  <2>1. Start \in B
    BY DEF Start, ReaderStates
  <2> QED
    BY <1>1, <2>1, UnescapeIs
<1>4. F \in [1..n -> [B -> B]] /\ \A i \in 1..n, b \in B : F[i][b] = Unescape(b, w[i])
  BY <1>3
<1> HIDE DEF n, B, F
<1>5. \E g : P(g)
  <2>1. PICK g \in [SUBSET (1..n) -> B] : FoldsWith(g, n, Start, F)
    BY <1>1, <1>3, <1>4, FoldExists
  <2>2. ASSUME NEW T \in SUBSET (1..n), T # {}
        PROVE  g[T] = Unescape(g[T \ {Max(T)}], w[Max(T)])
    <3>1. Max(T) \in 1..n /\ g[T \ {Max(T)}] \in B
      BY <1>1, <2>2, GreatestOf
    <3> QED
      BY <1>4, <2>1, <2>2, <3>1 DEF FoldsWith
  <2>3. g[{}] = Start
    BY <2>1 DEF FoldsWith
  <2>4. P(g)
    BY <1>1, <2>1, <2>2, <2>3
  <2> QED
    BY <2>4
<1>6. P(iter)
  BY <1>5
<1> HIDE DEF iter
<1>7. iter[{}] = Start
  BY <1>1, <1>6
<1>8. Moves(iter, n, B, F)
  <2>1. SUFFICES ASSUME NEW i \in 1..n, iter[1..(i - 1)] \in B PROVE iter[1..i] = F[i][iter[1..(i - 1)]]
    BY DEF Moves
  <2>2. Max(1..i) = i /\ 1..i \in SUBSET (1..n) /\ 1..i # {} /\ (1..i) \ {i} = 1..(i - 1)
    BY <1>1, Initials
  <2>3. iter[1..i] = Unescape(iter[1..(i - 1)], w[i])
    <3>1. 1..i \in SUBSET DOMAIN w
      BY <1>1, <2>2
    <3> QED
      BY <1>6, <2>2, <3>1, Zenon
  <2>4. F[i][iter[1..(i - 1)]] = Unescape(iter[1..(i - 1)], w[i])
    BY <1>4, <2>1
  <2> QED
    BY <2>3, <2>4
<1>9. PICK h : StatesOf(h, n, B, Start, F) /\ h[n] = iter[1..n]
  <2>1. n \in Nat /\ F \in [1..n -> [B -> B]] /\ Start \in B
    BY <1>1, <1>3, <1>4
  <2> QED
    BY <1>7, <1>8, <2>1, FoldStates
<1> QED
  BY <1>2, <1>4, <1>9 DEF n, B

LEMMA ReadIs ==
    /\ ReadBack(<<>>) = Start
    /\ \A w \in Seq(Written) : ReadBack(w) \in ReaderStates
    /\ \A w \in Seq(Written), b \in Written : ReadBack(Append(w, b)) = Unescape(ReadBack(w), b)
<1>1. ASSUME NEW w \in Seq(Written), Len(w) = 0 PROVE ReadBack(w) = Start
  <2>1. PICK h, F : StatesOf(h, Len(w), ReaderStates, Start, F) /\ h[Len(w)] = ReadBack(w)
    BY ReadStates
  <2> QED
    BY <1>1, <2>1 DEF StatesOf
<1>2. <<>> \in Seq(Written) /\ Len(<<>>) = 0
  OBVIOUS
<1>3. ASSUME NEW w \in Seq(Written) PROVE ReadBack(w) \in ReaderStates
  <2>1. PICK h, F : StatesOf(h, Len(w), ReaderStates, Start, F) /\ h[Len(w)] = ReadBack(w)
    BY ReadStates
  <2>2. Len(w) \in 0..Len(w)
    OBVIOUS
  <2> QED
    BY <2>1, <2>2 DEF StatesOf
<1>4. ASSUME NEW w \in Seq(Written), NEW b \in Written PROVE ReadBack(Append(w, b)) = Unescape(ReadBack(w), b)
  <2> DEFINE n == Len(w)
             longer == Append(w, b)
             B == ReaderStates
  <2>1. n \in Nat /\ longer \in Seq(Written) /\ Len(longer) = n + 1 /\ longer[n + 1] = b
        /\ \A i \in 1..n : longer[i] = w[i]
    OBVIOUS
  <2>2. PICK h, F : /\ StatesOf(h, n, B, Start, F) /\ h[n] = ReadBack(w)
                    /\ \A i \in 1..n, r \in B : F[i][r] = Unescape(r, w[i])
    BY ReadStates
  <2>3. PICK k, G : /\ StatesOf(k, n + 1, B, Start, G) /\ k[n + 1] = ReadBack(longer)
                    /\ \A i \in 1..(n + 1), r \in B : G[i][r] = Unescape(r, longer[i])
    <3> HIDE DEF longer
    <3>1. PICK k, G : /\ StatesOf(k, Len(longer), ReaderStates, Start, G) /\ k[Len(longer)] = ReadBack(longer)
                      /\ \A i \in 1..Len(longer), r \in ReaderStates : G[i][r] = Unescape(r, longer[i])
      BY <2>1, ReadStates
    <3> QED
      BY <2>1, <3>1
  <2> HIDE DEF n, longer, B
  <2>4. n <= n + 1 /\ n + 1 \in Nat /\ n + 1 \in 1..(n + 1) /\ (n + 1) - 1 = n /\ n \in 0..n /\ 1..n \subseteq 1..(n + 1)
    BY <2>1
  <2>5. h[n] = k[n]
    <3>1. \A i \in 1..n, r \in B : F[i][r] = G[i][r]
      BY <2>1, <2>2, <2>3, <2>4
    <3> QED
      BY <2>1, <2>2, <2>3, <2>4, <3>1, StatesAgree
  <2>6. h[n] \in B
    BY <2>2, <2>4 DEF StatesOf
  <2>7. k[n + 1] = G[n + 1][k[n]]
    BY <2>3, <2>4 DEF StatesOf
  <2>8. G[n + 1][k[n]] = Unescape(k[n], b)
    BY <2>1, <2>3, <2>4, <2>5, <2>6
  <2> QED
    BY <2>2, <2>3, <2>5, <2>7, <2>8 DEF longer
<1> QED
  BY <1>1, <1>2, <1>3, <1>4

-----------------------------------------------------------------------------
\* The loop of safeAppendStringLike: what was written, with what is still to be copied,
\* is what a reader expects for the bytes before position i, which is not inside a rune.
LoopStates == [i : Nat, last : Nat, out : Seq(Written)]
Begin == [i |-> 1, last |-> 1, out |-> <<>>]
Copied(s, l) == l.out \o SubSeq(s, l.last, l.i - 1)
Marked(s, n) == [escaped |-> FALSE, out |-> [j \in 1..n |-> Expected(s, j)]]

Good(s, l) ==
    /\ 1 <= l.last /\ l.last <= l.i /\ l.i <= Len(s) + 1
    /\ ReadBack(Copied(s, l)) = Marked(s, l.i - 1)
    /\ l.i > 1 /\ l.i <= Len(s) => ~(s[l.i - 1] = "lead" /\ s[l.i] = "tail")

GoodStates(s) == {l \in LoopStates : Good(s, l)}

Iterates(s, l) ==
    IF l.i > Len(s) THEN l
    ELSE LET rune == Rune(s, l.i)
         IN  IF rune.kind \in {"a", "rune"} THEN [l EXCEPT !.i = @ + rune.size]
             ELSE EscapeAt(s, l, rune)

LEMMA ExpectedIs ==
    ASSUME NEW s \in Seq(Bytes), NEW i \in 1..Len(s)
    PROVE  /\ Expected(s, i) \in Marks
           /\ Alone(s, i) => Expected(s, i) = <<"escaped", "invalid">>
           /\ ~Alone(s, i) /\ s[i] \in {"quote", "control"} => Expected(s, i) = <<"escaped", s[i]>>
           /\ ~Alone(s, i) /\ s[i] \notin {"quote", "control"} => Expected(s, i) = <<"plain", s[i]>>
<1>1. s[i] \in Bytes /\ "escaped" \in {"plain", "escaped"} /\ "plain" \in {"plain", "escaped"}
  OBVIOUS
<1>2. s[i] \in Written /\ "invalid" \in Written
  BY <1>1 DEF Written
<1>3. <<"escaped", "invalid">> \in Marks /\ <<"escaped", s[i]>> \in Marks /\ <<"plain", s[i]>> \in Marks
  BY <1>1, <1>2 DEF Marks
<1>4. Alone(s, i) => Expected(s, i) = <<"escaped", "invalid">>
  <2>1. Alone(s, i) => s[i] \notin {"quote", "control"}
    BY DEF Alone
  <2> QED
    BY <2>1 DEF Expected
<1>5. ~Alone(s, i) /\ s[i] \in {"quote", "control"} => Expected(s, i) = <<"escaped", s[i]>>
  BY DEF Expected
<1>6. ~Alone(s, i) /\ s[i] \notin {"quote", "control"} => Expected(s, i) = <<"plain", s[i]>>
  BY DEF Expected
<1> QED
  BY <1>3, <1>4, <1>5, <1>6

LEMMA ConcatAppended ==
    ASSUME NEW S, NEW x \in Seq(S), NEW y \in Seq(S), NEW e \in S
    PROVE  x \o Append(y, e) = Append(x \o y, e)
<1> DEFINE z == <<e>>
<1>1. z \in Seq(S) /\ Append(y, e) = y \o z
  BY AppendIsConcat
<1>2. x \o y \in Seq(S)
  BY ConcatProperties
<1>3. Append(x \o y, e) = (x \o y) \o z
  BY <1>2, AppendIsConcat
<1> HIDE DEF z
<1>4. (x \o y) \o z = x \o (y \o z)
  BY <1>1, ConcatAssociative
<1> QED
  BY <1>1, <1>3, <1>4

\* One more position, read.
LEMMA OneMore ==
    ASSUME NEW s \in Seq(Bytes), NEW i \in 1..Len(s)
    PROVE  /\ Marked(s, i - 1) \in ReaderStates
           /\ [escaped |-> FALSE, out |-> Append(Marked(s, i - 1).out, Expected(s, i))] = Marked(s, i)
<1> DEFINE x == [j \in 1..(i - 1) |-> Expected(s, j)]
           y == [j \in 1..i |-> Expected(s, j)]
<1>1. \A j \in 1..i : j \in 1..Len(s) /\ Expected(s, j) \in Marks
  BY ExpectedIs
<1>2. i \in Nat /\ i - 1 \in Nat /\ i \in 1..i
  OBVIOUS
<1>3. x \in Seq(Marks) /\ Len(x) = i - 1 /\ \A j \in 1..(i - 1) : x[j] = Expected(s, j)
  BY <1>1, <1>2
<1>4. y \in Seq(Marks) /\ Len(y) = i /\ \A j \in 1..i : y[j] = Expected(s, j)
  BY <1>1, <1>2
<1>5. Expected(s, i) \in Marks
  BY <1>1, <1>2
<1> HIDE DEF x, y
<1>6. Append(x, Expected(s, i)) = y
  <2>1. /\ Append(x, Expected(s, i)) \in Seq(Marks) /\ Len(Append(x, Expected(s, i))) = i
        /\ \A j \in 1..(i - 1) : Append(x, Expected(s, i))[j] = x[j]
        /\ Append(x, Expected(s, i))[i] = Expected(s, i)
    BY <1>2, <1>3, <1>5, AppendProperties
  <2>2. \A j \in 1..i : Append(x, Expected(s, i))[j] = y[j]
    BY <1>2, <1>3, <1>4, <2>1
  <2> QED
    BY <1>4, <2>1, <2>2, SeqEqual
<1>7. [escaped |-> FALSE, out |-> x] \in ReaderStates
  BY <1>3 DEF ReaderStates
<1> QED
  BY <1>6, <1>7 DEF Marked, x, y

\* What is copied with one byte more.
LEMMA CopyOne ==
    ASSUME NEW s \in Seq(Bytes), NEW l \in LoopStates, 1 <= l.last, l.last <= l.i, l.i <= Len(s)
    PROVE  /\ Copied(s, l) \in Seq(Written)
           /\ Copied(s, [l EXCEPT !.i = l.i + 1]) = Append(Copied(s, l), s[l.i])
<1>1. l.i \in Nat /\ l.last \in Nat /\ l.out \in Seq(Written) /\ l.i \in l.last..Len(s) /\ l.last \in 1..Len(s) /\ l.i \in 1..Len(s)
  BY DEF LoopStates
<1>2. s \in Seq(Written) /\ s[l.i] \in Written
  <2>1. Bytes \subseteq Written
    BY DEF Written
  <2>2. s \in Seq(Written)
    BY <2>1, SeqMonotonic
  <2> QED
    BY <1>1, <2>2
<1> DEFINE c == SubSeq(s, l.last, l.i - 1)
<1>3. c \in Seq(Written)
  <2>1. \A j \in l.last..(l.i - 1) : s[j] \in Written
    BY <1>1, <1>2
  <2> QED
    BY <1>1, <2>1, SubSeqProperties
<1>4. SubSeq(s, l.last, l.i) = Append(c, s[l.i])
  <2>1. SubSeq(s, l.last, l.i) = c \o <<s[l.i]>>
    BY <1>1, <1>2, SubSeqRecursiveSecond
  <2> HIDE DEF c
  <2>2. Append(c, s[l.i]) = c \o <<s[l.i]>>
    BY <1>2, <1>3, AppendIsConcat
  <2> QED
    BY <2>1, <2>2
<1> HIDE DEF c
<1>5. l.out \o c \in Seq(Written)
  BY <1>1, <1>3, ConcatProperties
<1>6. l.out \o Append(c, s[l.i]) = Append(l.out \o c, s[l.i])
  <2> DEFINE o == l.out
             e == s[l.i]
  <2>1. o \in Seq(Written) /\ e \in Written
    BY <1>1, <1>2
  <2> HIDE DEF o, e
  <2>2. o \o Append(c, e) = Append(o \o c, e)
    BY <1>3, <2>1, ConcatAppended
  <2> QED
    BY <2>2 DEF o, e
<1>9. Copied(s, [l EXCEPT !.i = l.i + 1]) = l.out \o SubSeq(s, l.last, l.i)
  <2>1. [l EXCEPT !.i = l.i + 1].i = l.i + 1 /\ [l EXCEPT !.i = l.i + 1].last = l.last /\ [l EXCEPT !.i = l.i + 1].out = l.out
    BY DEF LoopStates
  <2>2. (l.i + 1) - 1 = l.i
    BY <1>1
  <2> QED
    BY <2>1, <2>2 DEF Copied
<1> QED
  BY <1>4, <1>5, <1>6, <1>9 DEF Copied, c

LEMMA MovesOn ==
    ASSUME NEW l \in LoopStates, NEW i \in Nat
    PROVE  /\ [l EXCEPT !.i = i] \in LoopStates
           /\ [l EXCEPT !.i = i].i = i /\ [l EXCEPT !.i = i].last = l.last /\ [l EXCEPT !.i = i].out = l.out
BY DEF LoopStates

\* One byte that is copied.
LEMMA CopyKeeps ==
    ASSUME NEW s \in Seq(Bytes), NEW l \in LoopStates, 1 <= l.last, l.last <= l.i, l.i <= Len(s),
           ReadBack(Copied(s, l)) = Marked(s, l.i - 1), Expected(s, l.i) = <<"plain", s[l.i]>>
    PROVE  LET next == [l EXCEPT !.i = l.i + 1]
           IN  /\ next \in LoopStates /\ next.i = l.i + 1 /\ next.last = l.last /\ next.out = l.out
               /\ ReadBack(Copied(s, next)) = Marked(s, l.i)
<1> DEFINE next == [l EXCEPT !.i = l.i + 1]
           i == l.i
           c == Copied(s, l)
<1>1. i \in Nat /\ i + 1 \in Nat /\ i \in 1..Len(s)
  BY DEF LoopStates
<1>2. next \in LoopStates /\ next.i = i + 1 /\ next.last = l.last /\ next.out = l.out
  BY <1>1, MovesOn
<1>3. c \in Seq(Written) /\ Copied(s, next) = Append(c, s[i])
  BY CopyOne
<1>4. s[i] \in Written /\ s[i] # "backslash"
  <2>1. s[i] \in Bytes
    BY <1>1
  <2> QED
    BY <2>1 DEF Bytes, Written
<1>5. ReadBack(c) = Marked(s, i - 1) /\ Marked(s, i - 1) \in ReaderStates /\ ~Marked(s, i - 1).escaped
  <2>1. Marked(s, i - 1) \in ReaderStates
    BY <1>1, OneMore
  <2> QED
    BY <2>1 DEF Marked
<1> HIDE DEF c, next, i
<1>6. ReadBack(Append(c, s[i])) = Unescape(Marked(s, i - 1), s[i])
  BY <1>3, <1>4, <1>5, ReadIs
<1>7. Unescape(Marked(s, i - 1), s[i]) = [escaped |-> FALSE, out |-> Append(Marked(s, i - 1).out, <<"plain", s[i]>>)]
  BY <1>4, <1>5, UnescapeIs
<1>8. [escaped |-> FALSE, out |-> Append(Marked(s, i - 1).out, <<"plain", s[i]>>)] = Marked(s, i)
  <2>1. Expected(s, i) = <<"plain", s[i]>>
    BY DEF i
  <2> QED
    BY <1>1, <2>1, OneMore
<1>9. ReadBack(Copied(s, next)) = Marked(s, i)
  BY <1>3, <1>6, <1>7, <1>8
<1> QED
  BY <1>2, <1>9 DEF next, i

\* One byte that is escaped.
LEMMA EscapeKeeps ==
    ASSUME NEW s \in Seq(Bytes), NEW l \in LoopStates, 1 <= l.last, l.last <= l.i, l.i <= Len(s),
           ReadBack(Copied(s, l)) = Marked(s, l.i - 1),
           NEW rune, rune.kind \in Written, Expected(s, l.i) = <<"escaped", rune.kind>>
    PROVE  LET next == EscapeAt(s, l, rune)
           IN  /\ next \in LoopStates /\ next.i = l.i + 1 /\ next.last = l.i + 1
               /\ ReadBack(Copied(s, next)) = Marked(s, l.i)
<1> DEFINE next == EscapeAt(s, l, rune)
           i == l.i
           c == Copied(s, l)
           kind == rune.kind
           out == (c \o <<"backslash", kind>>)
<1>1. i \in Nat /\ i + 1 \in Nat /\ i \in 1..Len(s) /\ (i + 1) - 1 < i + 1 /\ kind \in Written
  BY DEF LoopStates
<1>2. c \in Seq(Written) /\ "backslash" \in Written
  BY CopyOne DEF Written
<1>3. next = [i |-> i + 1, last |-> i + 1, out |-> out]
  BY DEF EscapeAt, Escapes, Copied
<1> HIDE DEF c, next, i, kind
<1>4. out = Append(Append(c, "backslash"), kind) /\ out \in Seq(Written)
  BY <1>1, <1>2
<1> HIDE DEF out
<1>5. next \in LoopStates /\ next.i = i + 1 /\ next.last = i + 1 /\ next.out = out
  BY <1>1, <1>3, <1>4 DEF LoopStates
<1>6. Copied(s, next) = out
  <2>1. SubSeq(s, i + 1, (i + 1) - 1) = <<>>
    BY <1>1, SubSeqEmpty
  <2>2. out \o <<>> = out
    BY <1>4
  <2> QED
    BY <1>5, <2>1, <2>2 DEF Copied
<1>7. ReadBack(c) = Marked(s, i - 1) /\ Marked(s, i - 1) \in ReaderStates /\ ~Marked(s, i - 1).escaped
  <2>1. Marked(s, i - 1) \in ReaderStates
    BY <1>1, OneMore
  <2> QED
    BY <2>1 DEF Marked, c, i
<1> DEFINE r == Unescape(Marked(s, i - 1), "backslash")
<1>8. ReadBack(Append(c, "backslash")) = r
  BY <1>2, <1>7, ReadIs
<1>9. r \in ReaderStates /\ r.escaped /\ r.out = Marked(s, i - 1).out
  <2>1. r = [escaped |-> TRUE, out |-> Marked(s, i - 1).out]
    BY <1>2, <1>7, UnescapeIs
  <2>2. r \in ReaderStates
    BY <1>2, <1>7, UnescapeIs
  <2> HIDE DEF r
  <2> QED
    BY <2>1, <2>2
<1> HIDE DEF r
<1>10. ReadBack(out) = Unescape(r, kind)
  <2>1. Append(c, "backslash") \in Seq(Written)
    BY <1>2
  <2> QED
    BY <1>1, <1>4, <1>8, <2>1, ReadIs
<1>11. Unescape(r, kind) = [escaped |-> FALSE, out |-> Append(Marked(s, i - 1).out, <<"escaped", kind>>)]
  BY <1>1, <1>9, UnescapeIs
<1>12. [escaped |-> FALSE, out |-> Append(Marked(s, i - 1).out, <<"escaped", kind>>)] = Marked(s, i)
  <2>1. Expected(s, i) = <<"escaped", kind>>
    BY DEF i, kind
  <2> QED
    BY <1>1, <2>1, OneMore
<1>13. ReadBack(Copied(s, next)) = Marked(s, i)
  BY <1>6, <1>10, <1>11, <1>12
<1> QED
  BY <1>5, <1>13 DEF next, i

LEMMA IterateKeeps ==
    ASSUME NEW s \in Seq(Bytes), NEW l \in GoodStates(s)
    PROVE  /\ Iterates(s, l) \in GoodStates(s)
           /\ l.i <= Len(s) => Iterates(s, l).i > l.i
           /\ l.i > Len(s) => Iterates(s, l) = l
<1> DEFINE i == l.i
           rune == Rune(s, i)
           next == Iterates(s, l)
<1>1. /\ l \in LoopStates /\ i \in Nat /\ l.last \in Nat /\ Len(s) \in Nat
      /\ 1 <= l.last /\ l.last <= i /\ 1 <= i /\ i <= Len(s) + 1
      /\ ReadBack(Copied(s, l)) = Marked(s, i - 1)
      /\ i > 1 /\ i <= Len(s) => ~(s[i - 1] = "lead" /\ s[i] = "tail")
  BY DEF GoodStates, LoopStates, Good
<1>2. CASE i > Len(s)
  BY <1>1, <1>2 DEF Iterates
<1>3. CASE i <= Len(s)
  <2>0. i \in 1..Len(s) /\ s[i] \in Bytes /\ s[i] \in {"a", "quote", "control", "lead", "tail"} /\ s[i] \in Written
    <3>1. i \in 1..Len(s)
      BY <1>1, <1>3
    <3>2. s[i] \in Bytes
      BY <3>1
    <3> QED
      BY <3>1, <3>2 DEF Bytes, Written
  <2>1. next = IF rune.kind \in {"a", "rune"} THEN [l EXCEPT !.i = i + rune.size] ELSE EscapeAt(s, l, rune)
    BY <1>1, <1>3 DEF Iterates
  <2>2. ASSUME s[i] = "a" PROVE next \in GoodStates(s) /\ next.i > i
    <3>1. rune.kind = "a" /\ rune.size = 1
      BY <2>2 DEF Rune
    <3>2. next = [l EXCEPT !.i = i + 1]
      BY <2>1, <3>1
    <3>3. Expected(s, i) = <<"plain", s[i]>>
      BY <2>0, <2>2, ExpectedIs DEF Alone
    <3>4. /\ next \in LoopStates /\ next.i = i + 1 /\ next.last = l.last
          /\ ReadBack(Copied(s, next)) = Marked(s, i)
      BY <1>1, <1>3, <3>2, <3>3, CopyKeeps
    <3> HIDE DEF next
    <3> QED
      BY <1>1, <1>3, <2>2, <3>4 DEF GoodStates, Good
  <2>3. ASSUME s[i] = "lead", i < Len(s), s[i + 1] = "tail" PROVE next \in GoodStates(s) /\ next.i > i
    <3> DEFINE mid == [l EXCEPT !.i = i + 1]
    <3>1. rune.kind = "rune" /\ rune.size = 2
      BY <2>3 DEF Rune
    <3>2. next = [l EXCEPT !.i = i + 2]
      BY <2>1, <3>1
    <3>3. Expected(s, i) = <<"plain", s[i]>>
      <4>1. ~Alone(s, i) /\ s[i] \notin {"quote", "control"}
        BY <2>0, <2>3 DEF Alone
      <4> QED
        BY <2>0, <4>1, ExpectedIs
    <3>4. /\ mid \in LoopStates /\ mid.i = i + 1 /\ mid.last = l.last /\ mid.out = l.out
          /\ ReadBack(Copied(s, mid)) = Marked(s, i)
      BY <1>1, <1>3, <3>3, CopyKeeps
    <3>5. i + 1 \in 1..Len(s) /\ (i + 1) - 1 = i /\ (i + 1) + 1 = i + 2
      BY <1>1, <2>3
    <3>6. Expected(s, i + 1) = <<"plain", s[i + 1]>>
      <4>1. ~Alone(s, i + 1) /\ s[i + 1] \notin {"quote", "control"}
        BY <1>1, <2>3, <3>5 DEF Alone
      <4> QED
        BY <3>5, <4>1, ExpectedIs
    <3>7. next = [mid EXCEPT !.i = mid.i + 1]
      BY <1>1, <3>2, <3>4, <3>5 DEF LoopStates
    <3> HIDE DEF mid, next
    <3>8. /\ next \in LoopStates /\ next.i = mid.i + 1 /\ next.last = mid.last
          /\ ReadBack(Copied(s, next)) = Marked(s, mid.i)
      <4>1. 1 <= mid.last /\ mid.last <= mid.i /\ mid.i <= Len(s)
        BY <1>1, <3>4, <3>5
      <4>2. ReadBack(Copied(s, mid)) = Marked(s, mid.i - 1) /\ Expected(s, mid.i) = <<"plain", s[mid.i]>>
        BY <3>4, <3>5, <3>6
      <4> QED
        BY <3>4, <3>7, <4>1, <4>2, CopyKeeps
    <3>9. next.i = i + 2 /\ next.last = l.last /\ ReadBack(Copied(s, next)) = Marked(s, next.i - 1)
          /\ s[next.i - 1] = "tail"
      BY <1>1, <2>3, <3>4, <3>5, <3>8
    <3> QED
      BY <1>1, <2>3, <3>8, <3>9, SMTT(30) DEF GoodStates, Good
  <2>4. ASSUME s[i] # "a", ~(s[i] = "lead" /\ i < Len(s) /\ s[i + 1] = "tail")
        PROVE  next \in GoodStates(s) /\ next.i > i
    <3>1. rune.kind = IF s[i] \in {"lead", "tail"} THEN "invalid" ELSE s[i]
      BY <2>4 DEF Rune
    <3>2. rune.kind \in {"invalid", "quote", "control"} /\ rune.kind \in Written
      BY <2>0, <2>4, <3>1 DEF Written
    <3>3. next = EscapeAt(s, l, rune)
      BY <2>1, <3>2
    <3>4. Expected(s, i) = <<"escaped", rune.kind>>
      <4>1. CASE s[i] \in {"lead", "tail"}
        <5>1. Alone(s, i)
          BY <1>1, <1>3, <2>4, <4>1 DEF Alone
        <5> QED
          BY <2>0, <3>1, <4>1, <5>1, ExpectedIs
      <4>2. CASE s[i] \notin {"lead", "tail"}
        <5>1. ~Alone(s, i) /\ s[i] \in {"quote", "control"}
          BY <2>0, <2>4, <4>2 DEF Alone
        <5> QED
          BY <2>0, <3>1, <4>2, <5>1, ExpectedIs
      <4> QED
        BY <4>1, <4>2
    <3> HIDE DEF rune
    <3>5. /\ next \in LoopStates /\ next.i = i + 1 /\ next.last = i + 1
          /\ ReadBack(Copied(s, next)) = Marked(s, i)
      BY <1>1, <1>3, <3>2, <3>3, <3>4, EscapeKeeps
    <3> HIDE DEF next
    <3>6. next.i - 1 = i /\ next.i = next.last /\ 1 <= next.last /\ next.i <= Len(s) + 1 /\ next.i > i
      BY <1>1, <1>3, <3>5
    <3>7. ReadBack(Copied(s, next)) = Marked(s, next.i - 1)
      BY <3>5, <3>6
    <3>8. next.i <= Len(s) => ~(s[next.i - 1] = "lead" /\ s[next.i] = "tail")
      <4>1. next.i <= Len(s) => i < Len(s)
        BY <1>1, <3>5
      <4>2. s[next.i - 1] = s[i] /\ s[next.i] = s[i + 1]
        BY <3>5, <3>6
      <4> QED
        BY <2>4, <4>1, <4>2
    <3>9. Good(s, next)
      <4>1. 1 <= next.last /\ next.last <= next.i /\ next.i <= Len(s) + 1
        BY <1>1, <1>3, <3>5
      <4>2. next.i > 1 /\ next.i <= Len(s) => ~(s[next.i - 1] = "lead" /\ s[next.i] = "tail")
        BY <3>8
      <4> QED
        BY <3>7, <4>1, <4>2 DEF Good
    <3> QED
      BY <3>5, <3>6, <3>9 DEF GoodStates
  <2> QED
    BY <1>1, <1>3, <2>2, <2>3, <2>4
<1> QED
  BY <1>1, <1>2, <1>3

LEMMA LoopRuns ==
    ASSUME NEW s \in Seq(Bytes)
    PROVE  \E h, F : /\ StatesOf(h, Len(s), GoodStates(s), Begin, F)
                     /\ \A k \in 1..Len(s), l \in GoodStates(s) : F[k][l] = Iterates(s, l)
                     /\ SafeAppend(s) = h[Len(s)].out \o SubSeq(s, h[Len(s)].last, Len(s))
<1> DEFINE list == [k \in 1..Len(s) |-> k]
           n == Len(s)
           B == GoodStates(s)
           F == [k \in 1..n |-> [l \in B |-> Iterates(s, l)]]
           P(g) == g = [T \in SUBSET DOMAIN list |->
                        IF T = {} THEN Begin ELSE Iterates(s, g[T \ {Max(T)}])]
           iter == CHOOSE g : P(g)
<1>1. n \in Nat /\ DOMAIN list = 1..n
  OBVIOUS
<1>2. SafeAppend(s) = iter[1..n].out \o SubSeq(s, iter[1..n].last, Len(s))
  <2>1. SafeAppend(s) = iter[DOMAIN list].out \o SubSeq(s, iter[DOMAIN list].last, Len(s))
    BY DEF SafeAppend, FoldLeft, MapThenFoldSet, Iterates, Begin
  <2> QED
    BY <1>1, <2>1
<1>3. Begin \in B
  <2>1. Begin \in LoopStates /\ Begin.i = 1 /\ Begin.last = 1 /\ Begin.out = <<>>
    BY DEF Begin, LoopStates
  <2>2. Copied(s, Begin) = <<>>
    <3>1. SubSeq(s, 1, 1 - 1) = <<>>
      BY SubSeqEmpty
    <3>2. <<>> \o <<>> = <<>>
      OBVIOUS
    <3> QED
      BY <2>1, <3>1, <3>2 DEF Copied
  <2>3. Marked(s, 0) = Start
    <3>1. [j \in 1..0 |-> Expected(s, j)] = <<>>
      OBVIOUS
    <3> QED
      BY <3>1 DEF Marked, Start
  <2> QED
    BY <1>1, <2>1, <2>2, <2>3, ReadIs DEF GoodStates, Good
<1>4. F \in [1..n -> [B -> B]] /\ \A k \in 1..n, l \in B : F[k][l] = Iterates(s, l)
  BY IterateKeeps
<1> HIDE DEF n, B, F, list
<1>5. \E g : P(g)
  <2>1. PICK g \in [SUBSET (1..n) -> B] : FoldsWith(g, n, Begin, F)
    BY <1>1, <1>3, <1>4, FoldExists
  <2>2. ASSUME NEW T \in SUBSET (1..n), T # {} PROVE g[T] = Iterates(s, g[T \ {Max(T)}])
    <3>1. Max(T) \in 1..n /\ g[T \ {Max(T)}] \in B
      BY <1>1, <2>2, GreatestOf
    <3> QED
      BY <1>4, <2>1, <2>2, <3>1 DEF FoldsWith
  <2>3. g[{}] = Begin
    BY <2>1 DEF FoldsWith
  <2>4. P(g)
    BY <1>1, <2>1, <2>2, <2>3
  <2> QED
    BY <2>4
<1>6. P(iter)
  BY <1>5
<1> HIDE DEF iter
<1>7. iter[{}] = Begin
  BY <1>1, <1>6
<1>8. Moves(iter, n, B, F)
  <2>1. SUFFICES ASSUME NEW i \in 1..n, iter[1..(i - 1)] \in B PROVE iter[1..i] = F[i][iter[1..(i - 1)]]
    BY DEF Moves
  <2>2. Max(1..i) = i /\ 1..i \in SUBSET (1..n) /\ 1..i # {} /\ (1..i) \ {i} = 1..(i - 1)
    BY <1>1, Initials
  <2>3. iter[1..i] = Iterates(s, iter[1..(i - 1)])
    <3>1. 1..i \in SUBSET DOMAIN list
      BY <1>1, <2>2
    <3> QED
      BY <1>6, <2>2, <3>1, Zenon
  <2>4. F[i][iter[1..(i - 1)]] = Iterates(s, iter[1..(i - 1)])
    BY <1>4, <2>1
  <2> QED
    BY <2>3, <2>4
<1>9. PICK h : StatesOf(h, n, B, Begin, F) /\ h[n] = iter[1..n]
  <2>1. n \in Nat /\ F \in [1..n -> [B -> B]] /\ Begin \in B
    BY <1>1, <1>3, <1>4
  <2> QED
    BY <1>7, <1>8, <2>1, FoldStates
<1> QED
  BY <1>2, <1>4, <1>9 DEF n, B

LEMMA TextIsRead ==
    ASSUME NEW s \in Seq(Bytes)
    PROVE  ReadBack(SafeAppend(s)) = Marked(s, Len(s))
<1> DEFINE n == Len(s)
           B == GoodStates(s)
<1>1. PICK h, F : /\ StatesOf(h, n, B, Begin, F)
                  /\ \A k \in 1..n, l \in B : F[k][l] = Iterates(s, l)
                  /\ SafeAppend(s) = h[n].out \o SubSeq(s, h[n].last, n)
  BY LoopRuns
<1>2. /\ n \in Nat /\ h[0] = Begin
      /\ \A k \in 0..n : h[k] \in B /\ h[k].i \in Nat /\ h[k].i <= n + 1
      /\ \A k \in 1..n : h[k] = Iterates(s, h[k - 1])
  <2>1. n \in Nat /\ \A k \in 1..n : k - 1 \in 0..n
    OBVIOUS
  <2>2. h[0] = Begin /\ \A k \in 0..n : h[k] \in B
    BY <1>1 DEF StatesOf
  <2>3. \A k \in 1..n : h[k] = F[k][h[k - 1]]
    BY <1>1 DEF StatesOf
  <2>4. \A k \in 1..n : h[k] = Iterates(s, h[k - 1])
    BY <1>1, <2>1, <2>2, <2>3
  <2>5. \A k \in 0..n : h[k].i \in Nat /\ h[k].i <= n + 1
    BY <2>2 DEF GoodStates, LoopStates, Good
  <2> QED
    BY <2>1, <2>2, <2>4, <2>5
<1> HIDE DEF n
<1> DEFINE Behind == {k \in Nat : k <= n /\ ~(h[k].i > k)}
<1>3. Behind = {}
  <2>1. SUFFICES ASSUME Behind # {} PROVE FALSE
    OBVIOUS
  <2>2. PICK k \in Behind : \A j \in Behind : k <= j
    BY <2>1, LeastOf
  <2>3. k # 0
    BY <1>2, <2>2 DEF Begin
  <2>4. k - 1 \in Nat /\ k - 1 \notin Behind /\ k - 1 <= n /\ k - 1 \in 0..n /\ k \in 1..n /\ k \in 0..n
    BY <1>2, <2>2, <2>3
  <2>5. h[k - 1].i > k - 1 /\ h[k - 1] \in B /\ h[k] = Iterates(s, h[k - 1])
    BY <1>2, <2>4
  <2>6. h[k - 1].i <= n => h[k].i > h[k - 1].i
    BY <2>5, IterateKeeps DEF n
  <2>7. h[k - 1].i > n => h[k] = h[k - 1]
    BY <2>5, IterateKeeps DEF n
  <2>8. h[k - 1].i \in Nat /\ h[k].i \in Nat /\ ~(h[k].i > k)
    BY <1>2, <2>2, <2>4
  <2> QED
    BY <1>2, <2>4, <2>5, <2>6, <2>7, <2>8
<1>4. h[n].i = n + 1 /\ h[n] \in B
  BY <1>2, <1>3
<1>5. ReadBack(Copied(s, h[n])) = Marked(s, h[n].i - 1)
  BY <1>4 DEF GoodStates, Good
<1>6. (n + 1) - 1 = n
  BY <1>2
<1> QED
  BY <1>1, <1>4, <1>5, <1>6 DEF Copied, n

\* Nothing is written yet, or all of the string.
TextInv ==
    /\ text.plain \in Texts
    /\ text.written = <<>> \/ text.written = SafeAppend(text.plain)
    /\ DOMAIN text = {"plain", "written"}

LEMMA TextInvIsEnough == TextInv => TextSurvives
<1> SUFFICES ASSUME TextInv, text.written # <<>>
             PROVE  FoldLeft(Unescape, [escaped |-> FALSE, out |-> <<>>], text.written)
                        = [escaped |-> FALSE, out |-> [i \in DOMAIN text.plain |-> Expected(text.plain, i)]]
  BY DEF TextSurvives
<1>1. text.plain \in Seq(Bytes) /\ text.written = SafeAppend(text.plain)
  BY TextsAssumption DEF TextInv
<1>2. ReadBack(SafeAppend(text.plain)) = Marked(text.plain, Len(text.plain))
  BY <1>1, TextIsRead
<1>3. DOMAIN text.plain = 1..Len(text.plain)
  BY <1>1
<1> QED
  BY <1>1, <1>2, <1>3 DEF ReadBack, Marked, Start

\* A reader of an escaped string gets back its bytes, for strings of any length: none is
\* lost where the loop stops copying to escape one, none is copied twice, no quote ends
\* the string early, and a byte of no rune is read as the replacement character
\* (safeAppendStringLike, json_with_context_encoder.go).
THEOREM TextIsWhatWasWritten == TextSpec => []TextSurvives
<1>1. TextInit => TextInv
  BY DEF TextInit, TextInv
<1>2. TextInv /\ [WriteText]_text => TextInv'
  BY DEF TextInv, WriteText
<1> QED
  BY <1>1, <1>2, TextInvIsEnough, PTL DEF TextSpec

-----------------------------------------------------------------------------
(* LogLine: a reader of the tokens. *)

Tokens == {"{", "}", "[", "]", ":", ",", "text", "value"}
Brackets == {"{", "["}
Expectations == {"key or end", "key", "colon", "element", "element or end", "more", "nothing"}
Places == [where : Seq(Brackets), expects : Expectations]
Place(w, x) == [where |-> w, expects |-> x]
Reading(p, w) == FoldLeft(Reads, p, w)

LEMMA PlaceIs ==
    ASSUME NEW w \in Seq(Brackets), NEW x \in Expectations
    PROVE  Place(w, x) \in Places /\ Place(w, x).where = w /\ Place(w, x).expects = x
           /\ \A y : [Place(w, x) EXCEPT !.expects = y] = Place(w, y)
BY DEF Place, Places

LEMMA StackIs ==
    ASSUME NEW w \in Seq(Brackets), NEW b \in Brackets
    PROVE  /\ Append(w, b) \in Seq(Brackets) /\ Append(w, b) # <<>>
           /\ Last(Append(w, b)) = b /\ Front(Append(w, b)) = w
<1>1. /\ Append(w, b) \in Seq(Brackets) /\ Append(w, b) # <<>>
      /\ Len(Append(w, b)) = Len(w) + 1 /\ Append(w, b)[Len(w) + 1] = b /\ (Len(w) + 1) - 1 = Len(w)
  OBVIOUS
<1>2. SubSeq(Append(w, b), 1, Len(w)) = w
  OBVIOUS
<1> QED
  BY <1>1, <1>2 DEF Last, Front

\* What a token does where it is legal.
LEMMA ReadsInPlace ==
    ASSUME NEW p \in Places
    PROVE  /\ p.expects \in {"element", "element or end"} =>
                /\ Reads(p, "{") = Place(Append(p.where, "{"), "key or end")
                /\ Reads(p, "[") = Place(Append(p.where, "["), "element or end")
                /\ \A t \in {"text", "value"} : Reads(p, t) = Place(p.where, "more")
           /\ p.expects \in {"key", "key or end"} => Reads(p, "text") = Place(p.where, "colon")
           /\ p.expects = "colon" => Reads(p, ":") = Place(p.where, "element")
           /\ p.where # <<>> /\ p.expects = "more" =>
                Reads(p, ",") = Place(p.where, IF Last(p.where) = "{" THEN "key" ELSE "element")
           /\ p.where # <<>> /\ Last(p.where) = "{" /\ p.expects \in {"more", "key or end"} =>
                Reads(p, "}") = Place(Front(p.where), "more")
           /\ p.where # <<>> /\ Last(p.where) = "[" /\ p.expects \in {"more", "element or end"} =>
                Reads(p, "]") = Place(Front(p.where), "more")
<1>1. /\ p.expects \in Expectations
      /\ \A y : [p EXCEPT !.expects = y] = Place(p.where, y)
      /\ p.where # <<>> => Last(p.where) \in Brackets
  <2>1. p.where \in Seq(Brackets)
    BY DEF Places
  <2>2. p.where # <<>> => Last(p.where) \in Brackets
    BY <2>1 DEF Last
  <2> QED
    BY <2>2 DEF Places, Place
<1>2. ASSUME p.expects \in {"element", "element or end"}
      PROVE  /\ Reads(p, "{") = Place(Append(p.where, "{"), "key or end")
             /\ Reads(p, "[") = Place(Append(p.where, "["), "element or end")
             /\ \A t \in {"text", "value"} : Reads(p, t) = Place(p.where, "more")
  <2>1. Reads(p, "{") = Place(Append(p.where, "{"), "key or end")
    BY <1>2 DEF Reads, Place
  <2>2. Reads(p, "[") = Place(Append(p.where, "["), "element or end")
    BY <1>2 DEF Reads, Place
  <2>3. ASSUME NEW t \in {"text", "value"} PROVE Reads(p, t) = Place(p.where, "more")
    BY <1>1, <1>2 DEF Reads
  <2> QED
    BY <2>1, <2>2, <2>3
<1>3. ASSUME p.expects \in {"key", "key or end"} PROVE Reads(p, "text") = Place(p.where, "colon")
  BY <1>1, <1>3 DEF Reads
<1>4. ASSUME p.expects = "colon" PROVE Reads(p, ":") = Place(p.where, "element")
  BY <1>1, <1>4 DEF Reads
<1>5. ASSUME p.where # <<>>, p.expects = "more"
      PROVE  Reads(p, ",") = Place(p.where, IF Last(p.where) = "{" THEN "key" ELSE "element")
  BY <1>1, <1>5 DEF Reads, Brackets
<1>6. ASSUME p.where # <<>>, Last(p.where) = "{", p.expects \in {"more", "key or end"}
      PROVE  Reads(p, "}") = Place(Front(p.where), "more")
  BY <1>6 DEF Reads, Place
<1>7. ASSUME p.where # <<>>, Last(p.where) = "[", p.expects \in {"more", "element or end"}
      PROVE  Reads(p, "]") = Place(Front(p.where), "more")
  BY <1>7 DEF Reads, Place
<1> QED
  BY <1>2, <1>3, <1>4, <1>5, <1>6, <1>7

\* A reader stays among the places.
LEMMA ReadsTyped == ASSUME NEW p \in Places, NEW t \in Tokens PROVE Reads(p, t) \in Places
<1>1. /\ p.where \in Seq(Brackets) /\ p.expects \in Expectations
      /\ p = [where |-> p.where, expects |-> p.expects]
      /\ <<>> \in Seq(Brackets)
  BY DEF Places
<1>2. p.where # <<>> => Front(p.where) \in Seq(Brackets)
  BY <1>1 DEF Front
<1>3. \A b \in Brackets : Append(p.where, b) \in Seq(Brackets)
  BY <1>1
<1>4. \A v \in Seq(Brackets), y \in Expectations : [where |-> v, expects |-> y] \in Places
  BY DEF Places
<1>5. \A y : [p EXCEPT !.expects = y] = [where |-> p.where, expects |-> y]
  BY <1>1
<1> QED
  BY <1>1, <1>2, <1>3, <1>4, <1>5 DEF Reads, Tokens, Brackets, Expectations

LEMMA ReadingStates ==
    ASSUME NEW p \in Places, NEW w \in Seq(Tokens)
    PROVE  \E h, F : /\ StatesOf(h, Len(w), Places, p, F)
                     /\ \A i \in 1..Len(w), b \in Places : F[i][b] = Reads(b, w[i])
                     /\ h[Len(w)] = Reading(p, w)
<1> DEFINE n == Len(w)
           B == Places
           F == [i \in 1..n |-> [b \in B |-> Reads(b, w[i])]]
           P(g) == g = [T \in SUBSET DOMAIN w |->
                        IF T = {} THEN p ELSE Reads(g[T \ {Max(T)}], w[Max(T)])]
           iter == CHOOSE g : P(g)
<1>1. n \in Nat /\ DOMAIN w = 1..n /\ \A i \in 1..n : w[i] \in Tokens
  OBVIOUS
<1>2. Reading(p, w) = iter[1..n]
  <2>1. Reading(p, w) = iter[DOMAIN w]
    BY DEF Reading, FoldLeft, MapThenFoldSet
  <2> QED
    BY <1>1, <2>1
<1>3. p \in B /\ \A i \in 1..n, b \in B : Reads(b, w[i]) \in B
  <2>1. p \in B
    OBVIOUS
  <2> QED
    BY <1>1, <2>1, ReadsTyped
<1>4. F \in [1..n -> [B -> B]] /\ \A i \in 1..n, b \in B : F[i][b] = Reads(b, w[i])
  BY <1>3
<1> HIDE DEF n, B, F
<1>5. \E g : P(g)
  <2>1. PICK g \in [SUBSET (1..n) -> B] : FoldsWith(g, n, p, F)
    BY <1>1, <1>3, <1>4, FoldExists
  <2>2. ASSUME NEW T \in SUBSET (1..n), T # {}
        PROVE  g[T] = Reads(g[T \ {Max(T)}], w[Max(T)])
    <3>1. Max(T) \in 1..n /\ g[T \ {Max(T)}] \in B
      BY <1>1, <2>2, GreatestOf
    <3> QED
      BY <1>4, <2>1, <2>2, <3>1 DEF FoldsWith
  <2>3. g[{}] = p
    BY <2>1 DEF FoldsWith
  <2>4. P(g)
    BY <1>1, <2>1, <2>2, <2>3
  <2> QED
    BY <2>4
<1>6. P(iter)
  BY <1>5
<1> HIDE DEF iter
<1>7. iter[{}] = p
  BY <1>1, <1>6
<1>8. Moves(iter, n, B, F)
  <2>1. SUFFICES ASSUME NEW i \in 1..n, iter[1..(i - 1)] \in B PROVE iter[1..i] = F[i][iter[1..(i - 1)]]
    BY DEF Moves
  <2>2. Max(1..i) = i /\ 1..i \in SUBSET (1..n) /\ 1..i # {} /\ (1..i) \ {i} = 1..(i - 1)
    BY <1>1, Initials
  <2>3. iter[1..i] = Reads(iter[1..(i - 1)], w[i])
    <3>1. 1..i \in SUBSET DOMAIN w
      BY <1>1, <2>2
    <3> QED
      BY <1>6, <2>2, <3>1, Zenon
  <2>4. F[i][iter[1..(i - 1)]] = Reads(iter[1..(i - 1)], w[i])
    BY <1>4, <2>1
  <2> QED
    BY <2>3, <2>4
<1>9. PICK h : StatesOf(h, n, B, p, F) /\ h[n] = iter[1..n]
  <2>1. n \in Nat /\ F \in [1..n -> [B -> B]] /\ p \in B
    BY <1>1, <1>3, <1>4
  <2> QED
    BY <1>7, <1>8, <2>1, FoldStates
<1> QED
  BY <1>2, <1>4, <1>9 DEF n, B

LEMMA ReadingIs ==
    ASSUME NEW p \in Places
    PROVE  /\ Reading(p, <<>>) = p
           /\ \A w \in Seq(Tokens) : Reading(p, w) \in Places
           /\ \A w \in Seq(Tokens), b \in Tokens : Reading(p, Append(w, b)) = Reads(Reading(p, w), b)
<1>1. ASSUME NEW w \in Seq(Tokens), Len(w) = 0 PROVE Reading(p, w) = p
  <2>1. PICK h, F : StatesOf(h, Len(w), Places, p, F) /\ h[Len(w)] = Reading(p, w)
    BY ReadingStates
  <2> QED
    BY <1>1, <2>1 DEF StatesOf
<1>2. <<>> \in Seq(Tokens) /\ Len(<<>>) = 0
  OBVIOUS
<1>3. ASSUME NEW w \in Seq(Tokens) PROVE Reading(p, w) \in Places
  <2>1. PICK h, F : StatesOf(h, Len(w), Places, p, F) /\ h[Len(w)] = Reading(p, w)
    BY ReadingStates
  <2>2. Len(w) \in 0..Len(w)
    OBVIOUS
  <2> QED
    BY <2>1, <2>2 DEF StatesOf
<1>4. ASSUME NEW w \in Seq(Tokens), NEW b \in Tokens PROVE Reading(p, Append(w, b)) = Reads(Reading(p, w), b)
  <2> DEFINE n == Len(w)
             longer == Append(w, b)
             B == Places
  <2>1. n \in Nat /\ longer \in Seq(Tokens) /\ Len(longer) = n + 1 /\ longer[n + 1] = b
        /\ \A i \in 1..n : longer[i] = w[i]
    OBVIOUS
  <2>2. PICK h, F : /\ StatesOf(h, n, B, p, F) /\ h[n] = Reading(p, w)
                    /\ \A i \in 1..n, r \in B : F[i][r] = Reads(r, w[i])
    BY ReadingStates
  <2>3. PICK k, G : /\ StatesOf(k, n + 1, B, p, G) /\ k[n + 1] = Reading(p, longer)
                    /\ \A i \in 1..(n + 1), r \in B : G[i][r] = Reads(r, longer[i])
    <3> HIDE DEF longer
    <3>1. PICK k, G : /\ StatesOf(k, Len(longer), Places, p, G) /\ k[Len(longer)] = Reading(p, longer)
                      /\ \A i \in 1..Len(longer), r \in Places : G[i][r] = Reads(r, longer[i])
      BY <2>1, ReadingStates
    <3> QED
      BY <2>1, <3>1
  <2> HIDE DEF n, longer, B
  <2>4. n <= n + 1 /\ n + 1 \in Nat /\ n + 1 \in 1..(n + 1) /\ (n + 1) - 1 = n /\ n \in 0..n /\ 1..n \subseteq 1..(n + 1)
    BY <2>1
  <2>5. h[n] = k[n]
    <3>1. \A i \in 1..n, r \in B : F[i][r] = G[i][r]
      BY <2>1, <2>2, <2>3, <2>4
    <3> QED
      BY <2>1, <2>2, <2>3, <2>4, <3>1, StatesAgree
  <2>6. h[n] \in B
    BY <2>2, <2>4 DEF StatesOf
  <2>7. k[n + 1] = G[n + 1][k[n]]
    BY <2>3, <2>4 DEF StatesOf
  <2>8. G[n + 1][k[n]] = Reads(k[n], b)
    BY <2>1, <2>3, <2>4, <2>5, <2>6
  <2> QED
    BY <2>2, <2>3, <2>5, <2>7, <2>8 DEF longer
<1> QED
  BY <1>1, <1>2, <1>3, <1>4

\* What is read after a part of the tokens is what the rest is read from.
LEMMA ReadingOn ==
    ASSUME NEW p \in Places, NEW w \in Seq(Tokens), NEW v \in Seq(Tokens)
    PROVE  Reading(p, w \o v) = Reading(Reading(p, w), v)
<1> DEFINE q == Reading(p, w)
           Differ == {k \in Nat : k <= Len(v) /\ Reading(p, w \o SubSeq(v, 1, k)) # Reading(q, SubSeq(v, 1, k))}
<1>1. q \in Places /\ Len(v) \in Nat /\ SubSeq(v, 1, Len(v)) = v
  BY ReadingIs
<1>2. SUFFICES ASSUME Differ # {} PROVE FALSE
  <2> HIDE DEF q
  <2>1. Len(v) \in Nat /\ Len(v) <= Len(v)
    BY <1>1
  <2>2. Len(v) \notin Differ => Reading(p, w \o SubSeq(v, 1, Len(v))) = Reading(q, SubSeq(v, 1, Len(v)))
    BY <2>1
  <2> QED
    BY <1>1, <2>2 DEF q
<1> HIDE DEF q
<1>3. PICK k \in Differ : \A j \in Differ : k <= j
  BY <1>2, LeastOf
<1>4. k # 0
  <2>1. SubSeq(v, 1, 0) = <<>> /\ w \o <<>> = w
    BY SubSeqEmpty
  <2>2. Reading(q, <<>>) = q /\ Reading(p, w) = q
    BY <1>1, ReadingIs DEF q
  <2> QED
    BY <1>3, <2>1, <2>2
<1>5. k - 1 \in Nat /\ k - 1 \notin Differ /\ k \in 1..Len(v)
  BY <1>1, <1>3, <1>4
<1> DEFINE a == SubSeq(v, 1, k - 1)
<1>6. a \in Seq(Tokens) /\ v[k] \in Tokens /\ SubSeq(v, 1, k) = Append(a, v[k])
  BY <1>1, <1>5
<1>7. w \o Append(a, v[k]) = Append(w \o a, v[k]) /\ w \o a \in Seq(Tokens)
  BY <1>6
<1> HIDE DEF a
<1>8. Reading(p, w \o a) = Reading(q, a)
  BY <1>1, <1>5 DEF a
<1>9. Reading(p, w \o SubSeq(v, 1, k)) = Reads(Reading(p, w \o a), v[k])
  <2>1. \A u \in Seq(Tokens), t \in Tokens : Reading(p, Append(u, t)) = Reads(Reading(p, u), t)
    BY ReadingIs
  <2>2. Reading(p, Append(w \o a, v[k])) = Reads(Reading(p, w \o a), v[k])
    BY <1>6, <1>7, <2>1
  <2> QED
    BY <1>6, <1>7, <2>2
<1>10. Reading(q, SubSeq(v, 1, k)) = Reads(Reading(q, a), v[k])
  <2>1. \A u \in Seq(Tokens), t \in Tokens : Reading(q, Append(u, t)) = Reads(Reading(q, u), t)
    BY <1>1, ReadingIs
  <2> QED
    BY <1>6, <2>1
<1> QED
  BY <1>3, <1>8, <1>9, <1>10

LEMMA OneToken ==
    ASSUME NEW s \in Seq(Tokens), NEW t \in Tokens
    PROVE  /\ <<t>> \in Seq(Tokens) /\ s \o <<t>> = Append(s, t)
           /\ Append(s, t) \in Seq(Tokens) /\ Append(s, t) # <<>> /\ Last(Append(s, t)) = t
           /\ s # <<>> => Append(s, t)[1] = s[1]
<1>1. <<t>> \in Seq(Tokens)
  OBVIOUS
<1>2. s \o <<t>> = Append(s, t)
  BY AppendIsConcat
<1>3. /\ Append(s, t) \in Seq(Tokens) /\ Append(s, t) # <<>> /\ Len(Append(s, t)) = Len(s) + 1
      /\ Append(s, t)[Len(s) + 1] = t /\ \A i \in 1..Len(s) : Append(s, t)[i] = s[i]
  BY AppendProperties
<1>4. s # <<>> => 1 \in 1..Len(s)
  <2>1. Len(s) \in Nat /\ (Len(s) = 0 => s = <<>>)
    OBVIOUS
  <2> QED
    BY <2>1
<1> QED
  BY <1>1, <1>2, <1>3, <1>4 DEF Last

LEMMA TwoTokens ==
    ASSUME NEW s \in Seq(Tokens), NEW t \in Tokens, NEW u \in Tokens
    PROVE  /\ <<t, u>> \in Seq(Tokens) /\ s \o <<t, u>> = Append(Append(s, t), u)
           /\ Append(s, t) \in Seq(Tokens) /\ s \o <<t, u>> # <<>> /\ Last(s \o <<t, u>>) = u
           /\ s # <<>> => (s \o <<t, u>>)[1] = s[1]
<1> DEFINE one == <<t>>
           two == <<u>>
<1>1. one \in Seq(Tokens) /\ two \in Seq(Tokens) /\ one \o two = <<t, u>>
  <2>1. one \in Seq(Tokens) /\ two \in Seq(Tokens)
    OBVIOUS
  <2>2. one \o two = Append(one, u)
    BY <2>1, AppendIsConcat
  <2>3. Append(one, u) = <<t, u>>
    <3>1. Append(one, u) \in Seq(Tokens) /\ <<t, u>> \in Seq(Tokens)
      OBVIOUS
    <3>2. Len(Append(one, u)) = 2 /\ Append(one, u)[1] = t /\ Append(one, u)[2] = u
      OBVIOUS
    <3>3. Len(<<t, u>>) = 2 /\ <<t, u>>[1] = t /\ <<t, u>>[2] = u
      OBVIOUS
    <3>4. \A x, y \in Seq(Tokens) : Len(x) = 2 /\ Len(y) = 2 /\ x[1] = y[1] /\ x[2] = y[2] => x = y
      OBVIOUS
    <3> QED
      BY <3>1, <3>2, <3>3, <3>4
  <2> HIDE DEF one, two
  <2> QED
    BY <2>1, <2>2, <2>3
<1>2. s \o one = Append(s, t) /\ Append(s, t) \in Seq(Tokens)
  BY OneToken
<1>3. Append(s, t) \o two = Append(Append(s, t), u)
  BY <1>2, OneToken
<1>4. <<t, u>> \in Seq(Tokens)
  OBVIOUS
<1> HIDE DEF one, two
<1>5. s \o (one \o two) = (s \o one) \o two
  <2>1. \A x, y, z \in Seq(Tokens) : (x \o y) \o z = x \o (y \o z)
    BY ConcatAssociative, SMTT(30)
  <2> QED
    BY <1>1, <2>1
<1>6. s \o <<t, u>> = Append(Append(s, t), u)
  BY <1>1, <1>2, <1>3, <1>5
<1> DEFINE long == Append(s, t)
<1>7. /\ Append(long, u) # <<>> /\ Last(Append(long, u)) = u /\ long # <<>>
      /\ Append(long, u)[1] = long[1] /\ (s # <<>> => long[1] = s[1])
  BY <1>2, OneToken
<1> QED
  BY <1>2, <1>4, <1>6, <1>7

-----------------------------------------------------------------------------
(* LogLine: an encoder whose buffer is read from place b as far as place   *)
(* p, where the last token shows whether a comma is needed.  A line of its *)
(* own begins with a brace.                                                *)

LogEncoders == [buf : Seq(Tokens), openNamespaces : Nat]
Bare(buf) == buf = <<>> \/ Last(buf) \in {"{", "[", ":", ","}

At(b, e, p) ==
    /\ e \in LogEncoders /\ p \in Places /\ Reading(b, e.buf) = p
    /\ Bare(e.buf) <=> p.expects # "more"
    /\ b.where = <<>> => e.buf # <<>> /\ e.buf[1] = "{"

LEMMA WriteIs ==
    ASSUME NEW e \in LogEncoders, NEW w \in Seq(Tokens)
    PROVE  /\ Write(e, w) \in LogEncoders /\ Write(e, w).buf = e.buf \o w
           /\ Write(e, w).openNamespaces = e.openNamespaces
<1>1. e.buf \in Seq(Tokens) /\ e = [buf |-> e.buf, openNamespaces |-> e.openNamespaces]
      /\ e.openNamespaces \in Nat
  BY DEF LogEncoders
<1>2. e.buf \o w \in Seq(Tokens)
  BY <1>1
<1> QED
  BY <1>1, <1>2 DEF Write, LogEncoders

\* One token more.
LEMMA WritesToken ==
    ASSUME NEW b \in Places, NEW e, NEW p, At(b, e, p), NEW t \in Tokens,
           t \in {"{", "[", ":", ","} <=> Reads(p, t).expects # "more"
    PROVE  /\ At(b, Write(e, <<t>>), Reads(p, t))
           /\ Write(e, <<t>>).openNamespaces = e.openNamespaces
<1> DEFINE buf == e.buf
<1>1. e \in LogEncoders /\ buf \in Seq(Tokens) /\ p \in Places /\ Reading(b, buf) = p
  BY DEF At, LogEncoders
<1>2. Write(e, <<t>>) \in LogEncoders /\ Write(e, <<t>>).buf = buf \o <<t>>
      /\ Write(e, <<t>>).openNamespaces = e.openNamespaces
  <2>1. <<t>> \in Seq(Tokens)
    BY <1>1, OneToken
  <2> QED
    BY <1>1, <2>1, WriteIs
<1> HIDE DEF buf
<1>3. /\ buf \o <<t>> = Append(buf, t) /\ Append(buf, t) # <<>> /\ Last(Append(buf, t)) = t
      /\ buf # <<>> => Append(buf, t)[1] = buf[1]
  BY <1>1, OneToken
<1>4. Last(buf \o <<t>>) = t
  BY <1>3
<1>5. Reading(b, buf \o <<t>>) = Reads(p, t)
  <2>1. \A u \in Seq(Tokens), k \in Tokens : Reading(b, Append(u, k)) = Reads(Reading(b, u), k)
    BY ReadingIs
  <2> QED
    BY <1>1, <1>3, <2>1
<1>6. Reads(p, t) \in Places
  BY <1>1, ReadsTyped
<1>7. b.where = <<>> => buf # <<>> /\ buf[1] = "{"
  BY DEF At, buf
<1> QED
  BY <1>2, <1>3, <1>4, <1>5, <1>6, <1>7 DEF At, Bare

\* A key is a string and a colon.
LEMMA WritesKey ==
    ASSUME NEW b \in Places, NEW e, NEW p, At(b, e, p), p.expects \in {"key", "key or end"}
    PROVE  /\ At(b, Write(e, <<"text", ":">>), Place(p.where, "element"))
           /\ Write(e, <<"text", ":">>).openNamespaces = e.openNamespaces
<1> DEFINE buf == e.buf
           key == <<"text", ":">>
<1>1. e \in LogEncoders /\ buf \in Seq(Tokens) /\ p \in Places /\ Reading(b, buf) = p
      /\ p.where \in Seq(Brackets)
  BY DEF At, LogEncoders, Places
<1>2. "text" \in Tokens /\ ":" \in Tokens
  BY DEF Tokens
<1>3. /\ key \in Seq(Tokens) /\ buf \o key = Append(Append(buf, "text"), ":")
      /\ Append(buf, "text") \in Seq(Tokens) /\ buf \o key # <<>> /\ Last(buf \o key) = ":"
      /\ buf # <<>> => (buf \o key)[1] = buf[1]
  BY <1>1, <1>2, TwoTokens
<1>4. Write(e, key) \in LogEncoders /\ Write(e, key).buf = buf \o key
      /\ Write(e, key).openNamespaces = e.openNamespaces
  BY <1>1, <1>3, WriteIs
<1> HIDE DEF buf, key
<1>7. Reading(b, buf \o key) = Reads(Reads(p, "text"), ":")
  <2>1. \A u \in Seq(Tokens), k \in Tokens : Reading(b, Append(u, k)) = Reads(Reading(b, u), k)
    BY ReadingIs
  <2> QED
    BY <1>1, <1>2, <1>3, <2>1
<1>8. Reads(p, "text") = Place(p.where, "colon")
  BY <1>1, ReadsInPlace
<1>9. Place(p.where, "colon") \in Places /\ Place(p.where, "colon").expects = "colon"
      /\ Place(p.where, "colon").where = p.where
      /\ Place(p.where, "element") \in Places /\ Place(p.where, "element").expects = "element"
  BY <1>1, PlaceIs DEF Expectations
<1>10. Reads(Place(p.where, "colon"), ":") = Place(p.where, "element")
  BY <1>9, ReadsInPlace
<1>11. b.where = <<>> => buf # <<>> /\ buf[1] = "{"
  BY DEF At, buf
<1> QED
  BY <1>3, <1>4, <1>7, <1>8, <1>9, <1>10, <1>11 DEF At, Bare, key

\* A comma is written where one is needed, and nowhere else.
LEMMA Separates ==
    ASSUME NEW b \in Places, NEW e, NEW p, At(b, e, p), p.where # <<>>
    PROVE  /\ At(b, AddElementSeparator(e),
                 IF p.expects = "more" THEN Place(p.where, IF Last(p.where) = "{" THEN "key" ELSE "element") ELSE p)
           /\ AddElementSeparator(e).openNamespaces = e.openNamespaces
<1>1. p \in Places /\ p.where \in Seq(Brackets) /\ (Bare(e.buf) <=> p.expects # "more")
  BY DEF At, Places
<1>2. CASE p.expects # "more"
  BY <1>1, <1>2 DEF AddElementSeparator, Bare
<1>3. CASE p.expects = "more"
  <2>1. AddElementSeparator(e) = Write(e, <<",">>)
    BY <1>1, <1>3 DEF AddElementSeparator, Bare
  <2> DEFINE x == IF Last(p.where) = "{" THEN "key" ELSE "element"
  <2>2. Reads(p, ",") = Place(p.where, x)
    BY <1>1, <1>3, ReadsInPlace
  <2>3. Place(p.where, x).expects = x /\ x # "more"
    BY <1>1, PlaceIs, ZenonT(30) DEF Expectations
  <2>4. "," \in Tokens
    BY DEF Tokens
  <2> HIDE DEF x
  <2>6. "," \in {"{", "[", ":", ","} <=> Reads(p, ",").expects # "more"
    BY <2>2, <2>3
  <2>5. At(b, Write(e, <<",">>), Reads(p, ",")) /\ Write(e, <<",">>).openNamespaces = e.openNamespaces
    BY <2>4, <2>6, WritesToken
  <2> QED
    BY <1>3, <2>1, <2>2, <2>5 DEF x
<1> QED
  BY <1>2, <1>3

\* Inside an object opened in w, where a key may come; where a value may come in v.
InObject(b, e, w) == \E x \in {"key", "key or end", "more"} : At(b, e, Place(Append(w, "{"), x))

TakesValue(b, e, v) ==
    \/ \E x \in {"element", "element or end"} : At(b, e, Place(v, x))
    \/ At(b, e, Place(v, "more")) /\ Last(v) = "["

LEMMA KeyIs ==
    ASSUME NEW b \in Places, NEW e, NEW w \in Seq(Brackets), InObject(b, e, w)
    PROVE  /\ At(b, AddKey(e), Place(Append(w, "{"), "element"))
           /\ AddKey(e).openNamespaces = e.openNamespaces
<1> DEFINE v == Append(w, "{")
<1>1. v \in Seq(Brackets) /\ v # <<>> /\ Last(v) = "{"
  <2>1. "{" \in Brackets
    BY DEF Brackets
  <2> QED
    BY <2>1, StackIs
<1>2. PICK x \in {"key", "key or end", "more"} : At(b, e, Place(v, x))
  BY DEF InObject
<1> HIDE DEF v
<1> DEFINE y == IF x = "more" THEN "key" ELSE x
           s == AddElementSeparator(e)
<1>3. /\ Place(v, x).where = v /\ Place(v, x).expects = x
      /\ Place(v, y).where = v /\ Place(v, y).expects = y
  BY <1>1 DEF Place, Places, Expectations
<1>4. At(b, s, Place(v, y)) /\ s.openNamespaces = e.openNamespaces
  <2>1. Place(v, x).where # <<>>
    BY <1>1, <1>3
  <2>2. /\ At(b, s, IF Place(v, x).expects = "more"
                    THEN Place(Place(v, x).where, IF Last(Place(v, x).where) = "{" THEN "key" ELSE "element")
                    ELSE Place(v, x))
        /\ s.openNamespaces = e.openNamespaces
    BY <1>2, <2>1, Separates
  <2> QED
    BY <1>1, <1>3, <2>2
<1> HIDE DEF s
<1>5. Place(v, y).expects \in {"key", "key or end"}
  BY <1>2, <1>3
<1>6. /\ At(b, Write(s, <<"text", ":">>), Place(Place(v, y).where, "element"))
      /\ Write(s, <<"text", ":">>).openNamespaces = s.openNamespaces
  BY <1>4, <1>5, WritesKey
<1> QED
  BY <1>3, <1>4, <1>6 DEF AddKey, s, v

LEMMA ReadyForValue ==
    ASSUME NEW b \in Places, NEW e, NEW v \in Seq(Brackets), v # <<>>, TakesValue(b, e, v)
    PROVE  /\ \E x \in {"element", "element or end"} : At(b, AddElementSeparator(e), Place(v, x))
           /\ AddElementSeparator(e).openNamespaces = e.openNamespaces
<1>1. \A x \in {"element", "element or end", "more"} : Place(v, x).where = v /\ Place(v, x).expects = x
  BY DEF Place, Places, Expectations
<1>2. PICK x \in {"element", "element or end", "more"} : At(b, e, Place(v, x)) /\ (x = "more" => Last(v) = "[")
  BY DEF TakesValue
<1>3. /\ At(b, AddElementSeparator(e),
              IF Place(v, x).expects = "more"
              THEN Place(Place(v, x).where, IF Last(Place(v, x).where) = "{" THEN "key" ELSE "element")
              ELSE Place(v, x))
      /\ AddElementSeparator(e).openNamespaces = e.openNamespaces
  BY <1>1, <1>2, Separates
<1> QED
  BY <1>1, <1>2, <1>3

\* A scalar.
LEMMA ScalarIs ==
    ASSUME NEW b \in Places, NEW e, NEW v \in Seq(Brackets), v # <<>>, TakesValue(b, e, v)
    PROVE  /\ At(b, AppendScalar(e), Place(v, "more")) /\ AppendScalar(e).openNamespaces = e.openNamespaces
           /\ At(b, AppendString(e), Place(v, "more")) /\ AppendString(e).openNamespaces = e.openNamespaces
<1> DEFINE s == AddElementSeparator(e)
<1>1. PICK x \in {"element", "element or end"} : At(b, s, Place(v, x))
  BY ReadyForValue
<1>2. s.openNamespaces = e.openNamespaces
  BY ReadyForValue
<1> HIDE DEF s
<1>3. ASSUME NEW t \in {"text", "value"}
      PROVE  At(b, Write(s, <<t>>), Place(v, "more")) /\ Write(s, <<t>>).openNamespaces = s.openNamespaces
  <2> DEFINE p == Place(v, x)
  <2>1. p \in Places /\ p.where = v /\ p.expects = x
    BY DEF Place, Places, Expectations
  <2> HIDE DEF p
  <2>2. Reads(p, t) = Place(v, "more")
    BY <2>1, ReadsInPlace
  <2>3. Place(v, "more").expects = "more" /\ t \in Tokens
    BY DEF Place, Tokens
  <2>4. t \in {"{", "[", ":", ","} <=> Reads(p, t).expects # "more"
    BY <2>2, <2>3
  <2>5. At(b, s, p)
    BY <1>1 DEF p
  <2>6. At(b, Write(s, <<t>>), Reads(p, t)) /\ Write(s, <<t>>).openNamespaces = s.openNamespaces
    BY <2>3, <2>4, <2>5, WritesToken
  <2> QED
    BY <2>2, <2>6
<1> QED
  BY <1>2, <1>3 DEF AppendScalar, AppendString, s

\* An opening bracket where a value may come.
LEMMA OpensIs ==
    ASSUME NEW b \in Places, NEW e, NEW v \in Seq(Brackets), NEW x \in {"element", "element or end"},
           At(b, e, Place(v, x)), NEW t \in Brackets
    PROVE  /\ At(b, Write(e, <<t>>), Place(Append(v, t), IF t = "{" THEN "key or end" ELSE "element or end"))
           /\ Write(e, <<t>>).openNamespaces = e.openNamespaces
<1> DEFINE p == Place(v, x)
           y == IF t = "{" THEN "key or end" ELSE "element or end"
<1>1. p \in Places /\ p.where = v /\ p.expects = x
  BY DEF Place, Places, Expectations
<1>2. At(b, e, p)
  OBVIOUS
<1> HIDE DEF p
<1>3. Reads(p, t) = Place(Append(v, t), y)
  BY <1>1, ReadsInPlace DEF Brackets
<1>4. Place(Append(v, t), y).expects = y /\ t \in Tokens
  BY DEF Place, Tokens, Brackets
<1>5. t \in {"{", "[", ":", ","} <=> Reads(p, t).expects # "more"
  BY <1>3, <1>4 DEF Brackets
<1>6. At(b, Write(e, <<t>>), Reads(p, t)) /\ Write(e, <<t>>).openNamespaces = e.openNamespaces
  BY <1>2, <1>4, <1>5, WritesToken
<1> QED
  BY <1>3, <1>6

\* A closing bracket, after a member or none.
LEMMA ClosesIs ==
    ASSUME NEW b \in Places, NEW e, NEW v \in Seq(Brackets), NEW t \in {"}", "]"}, NEW x,
           x \in {"more", IF t = "}" THEN "key or end" ELSE "element or end"},
           At(b, e, Place(Append(v, IF t = "}" THEN "{" ELSE "["), x))
    PROVE  /\ At(b, Write(e, <<t>>), Place(v, "more"))
           /\ Write(e, <<t>>).openNamespaces = e.openNamespaces
<1> DEFINE o == IF t = "}" THEN "{" ELSE "["
           w == Append(v, o)
           p == Place(w, x)
<1>1. w \in Seq(Brackets) /\ w # <<>> /\ Last(w) = o /\ Front(w) = v
  <2>1. o \in Brackets
    BY DEF Brackets
  <2> HIDE DEF o
  <2> QED
    BY <2>1, StackIs
<1> HIDE DEF w
<1>2. p \in Places /\ p.where = w /\ p.expects = x
  BY <1>1 DEF Place, Places, Expectations
<1>3. At(b, e, p)
  BY DEF w
<1> HIDE DEF p
<1>4. Reads(p, t) = Place(v, "more")
  BY <1>1, <1>2, ReadsInPlace
<1>5. Place(v, "more").expects = "more" /\ t \in Tokens
  BY DEF Place, Tokens
<1>6. t \in {"{", "[", ":", ","} <=> Reads(p, t).expects # "more"
  BY <1>4, <1>5
<1>7. At(b, Write(e, <<t>>), Reads(p, t)) /\ Write(e, <<t>>).openNamespaces = e.openNamespaces
  BY <1>3, <1>5, <1>6, WritesToken
<1> QED
  BY <1>4, <1>7

-----------------------------------------------------------------------------
(* LogLine: what each step of a loop over members, elements, fields or     *)
(* parts of an entry keeps, holds after the loop.                          *)

LEMMA MembersStay ==
    ASSUME NEW B, NEW base \in B, NEW list \in Seq(Members),
           \A s \in B, m \in Members : AddMember(s, m) \in B
    PROVE  FoldLeft(AddMember, base, list) \in B
<1> DEFINE n == Len(list)
           F == [i \in 1..n |-> [s \in B |-> AddMember(s, list[i])]]
           P(g) == g = [T \in SUBSET DOMAIN list |->
                        IF T = {} THEN base ELSE AddMember(g[T \ {Max(T)}], list[Max(T)])]
           iter == CHOOSE g : P(g)
<1>1. n \in Nat /\ DOMAIN list = 1..n /\ \A i \in 1..n : list[i] \in Members
  OBVIOUS
<1>2. FoldLeft(AddMember, base, list) = iter[1..n]
  <2>1. FoldLeft(AddMember, base, list) = iter[DOMAIN list]
    BY DEF FoldLeft, MapThenFoldSet
  <2> QED
    BY <1>1, <2>1
<1>3. F \in [1..n -> [B -> B]] /\ \A i \in 1..n, s \in B : F[i][s] = AddMember(s, list[i])
  BY <1>1
<1> HIDE DEF n, F
<1>4. \E g : P(g)
  <2>1. PICK g \in [SUBSET (1..n) -> B] : FoldsWith(g, n, base, F)
    BY <1>1, <1>3, FoldExists
  <2>2. ASSUME NEW T \in SUBSET (1..n), T # {}
        PROVE  g[T] = AddMember(g[T \ {Max(T)}], list[Max(T)])
    <3>1. Max(T) \in 1..n /\ g[T \ {Max(T)}] \in B
      BY <1>1, <2>2, GreatestOf
    <3> QED
      BY <1>3, <2>1, <2>2, <3>1 DEF FoldsWith
  <2>3. g[{}] = base
    BY <2>1 DEF FoldsWith
  <2>4. P(g)
    BY <1>1, <2>1, <2>2, <2>3
  <2> QED
    BY <2>4
<1>5. P(iter)
  BY <1>4
<1> HIDE DEF iter
<1>6. iter[{}] = base
  BY <1>1, <1>5
<1>7. Moves(iter, n, B, F)
  <2>1. SUFFICES ASSUME NEW i \in 1..n, iter[1..(i - 1)] \in B PROVE iter[1..i] = F[i][iter[1..(i - 1)]]
    BY DEF Moves
  <2>2. Max(1..i) = i /\ 1..i \in SUBSET (1..n) /\ 1..i # {} /\ (1..i) \ {i} = 1..(i - 1)
    BY <1>1, Initials
  <2>3. iter[1..i] = AddMember(iter[1..(i - 1)], list[i])
    <3>1. 1..i \in SUBSET DOMAIN list
      BY <1>1, <2>2
    <3> QED
      BY <1>5, <2>2, <3>1, Zenon
  <2> QED
    BY <1>3, <2>1, <2>3
<1>8. PICK h : StatesOf(h, n, B, base, F) /\ h[n] = iter[1..n]
  <2>1. n \in Nat /\ F \in [1..n -> [B -> B]] /\ base \in B
    BY <1>1, <1>3
  <2> QED
    BY <1>6, <1>7, <2>1, FoldStates, SMTT(30)
<1>9. n \in 0..n
  BY <1>1
<1> QED
  BY <1>2, <1>8, <1>9 DEF StatesOf

LEMMA ElementsStay ==
    ASSUME NEW B, NEW base \in B, NEW list \in Seq(Members),
           \A s \in B, m \in Members : AppendElement(s, m) \in B
    PROVE  FoldLeft(AppendElement, base, list) \in B
<1> DEFINE n == Len(list)
           F == [i \in 1..n |-> [s \in B |-> AppendElement(s, list[i])]]
           P(g) == g = [T \in SUBSET DOMAIN list |->
                        IF T = {} THEN base ELSE AppendElement(g[T \ {Max(T)}], list[Max(T)])]
           iter == CHOOSE g : P(g)
<1>1. n \in Nat /\ DOMAIN list = 1..n /\ \A i \in 1..n : list[i] \in Members
  OBVIOUS
<1>2. FoldLeft(AppendElement, base, list) = iter[1..n]
  <2>1. FoldLeft(AppendElement, base, list) = iter[DOMAIN list]
    BY DEF FoldLeft, MapThenFoldSet
  <2> QED
    BY <1>1, <2>1
<1>3. F \in [1..n -> [B -> B]] /\ \A i \in 1..n, s \in B : F[i][s] = AppendElement(s, list[i])
  BY <1>1
<1> HIDE DEF n, F
<1>4. \E g : P(g)
  <2>1. PICK g \in [SUBSET (1..n) -> B] : FoldsWith(g, n, base, F)
    BY <1>1, <1>3, FoldExists
  <2>2. ASSUME NEW T \in SUBSET (1..n), T # {}
        PROVE  g[T] = AppendElement(g[T \ {Max(T)}], list[Max(T)])
    <3>1. Max(T) \in 1..n /\ g[T \ {Max(T)}] \in B
      BY <1>1, <2>2, GreatestOf
    <3> QED
      BY <1>3, <2>1, <2>2, <3>1 DEF FoldsWith
  <2>3. g[{}] = base
    BY <2>1 DEF FoldsWith
  <2>4. P(g)
    BY <1>1, <2>1, <2>2, <2>3
  <2> QED
    BY <2>4
<1>5. P(iter)
  BY <1>4
<1> HIDE DEF iter
<1>6. iter[{}] = base
  BY <1>1, <1>5
<1>7. Moves(iter, n, B, F)
  <2>1. SUFFICES ASSUME NEW i \in 1..n, iter[1..(i - 1)] \in B PROVE iter[1..i] = F[i][iter[1..(i - 1)]]
    BY DEF Moves
  <2>2. Max(1..i) = i /\ 1..i \in SUBSET (1..n) /\ 1..i # {} /\ (1..i) \ {i} = 1..(i - 1)
    BY <1>1, Initials
  <2>3. iter[1..i] = AppendElement(iter[1..(i - 1)], list[i])
    <3>1. 1..i \in SUBSET DOMAIN list
      BY <1>1, <2>2
    <3> QED
      BY <1>5, <2>2, <3>1, Zenon
  <2> QED
    BY <1>3, <2>1, <2>3
<1>8. PICK h : StatesOf(h, n, B, base, F) /\ h[n] = iter[1..n]
  <2>1. n \in Nat /\ F \in [1..n -> [B -> B]] /\ base \in B
    BY <1>1, <1>3
  <2> QED
    BY <1>6, <1>7, <2>1, FoldStates, SMTT(30)
<1>9. n \in 0..n
  BY <1>1
<1> QED
  BY <1>2, <1>8, <1>9 DEF StatesOf

LEMMA IdentitiesStay ==
    ASSUME NEW B, NEW base \in B, NEW list \in Seq(FieldTypes),
           \A s \in B, m \in FieldTypes : AddIdentity(s, m) \in B
    PROVE  FoldLeft(AddIdentity, base, list) \in B
<1> DEFINE n == Len(list)
           F == [i \in 1..n |-> [s \in B |-> AddIdentity(s, list[i])]]
           P(g) == g = [T \in SUBSET DOMAIN list |->
                        IF T = {} THEN base ELSE AddIdentity(g[T \ {Max(T)}], list[Max(T)])]
           iter == CHOOSE g : P(g)
<1>1. n \in Nat /\ DOMAIN list = 1..n /\ \A i \in 1..n : list[i] \in FieldTypes
  OBVIOUS
<1>2. FoldLeft(AddIdentity, base, list) = iter[1..n]
  <2>1. FoldLeft(AddIdentity, base, list) = iter[DOMAIN list]
    BY DEF FoldLeft, MapThenFoldSet
  <2> QED
    BY <1>1, <2>1
<1>3. F \in [1..n -> [B -> B]] /\ \A i \in 1..n, s \in B : F[i][s] = AddIdentity(s, list[i])
  BY <1>1
<1> HIDE DEF n, F
<1>4. \E g : P(g)
  <2>1. PICK g \in [SUBSET (1..n) -> B] : FoldsWith(g, n, base, F)
    BY <1>1, <1>3, FoldExists
  <2>2. ASSUME NEW T \in SUBSET (1..n), T # {}
        PROVE  g[T] = AddIdentity(g[T \ {Max(T)}], list[Max(T)])
    <3>1. Max(T) \in 1..n /\ g[T \ {Max(T)}] \in B
      BY <1>1, <2>2, GreatestOf
    <3> QED
      BY <1>3, <2>1, <2>2, <3>1 DEF FoldsWith
  <2>3. g[{}] = base
    BY <2>1 DEF FoldsWith
  <2>4. P(g)
    BY <1>1, <2>1, <2>2, <2>3
  <2> QED
    BY <2>4
<1>5. P(iter)
  BY <1>4
<1> HIDE DEF iter
<1>6. iter[{}] = base
  BY <1>1, <1>5
<1>7. Moves(iter, n, B, F)
  <2>1. SUFFICES ASSUME NEW i \in 1..n, iter[1..(i - 1)] \in B PROVE iter[1..i] = F[i][iter[1..(i - 1)]]
    BY DEF Moves
  <2>2. Max(1..i) = i /\ 1..i \in SUBSET (1..n) /\ 1..i # {} /\ (1..i) \ {i} = 1..(i - 1)
    BY <1>1, Initials
  <2>3. iter[1..i] = AddIdentity(iter[1..(i - 1)], list[i])
    <3>1. 1..i \in SUBSET DOMAIN list
      BY <1>1, <2>2
    <3> QED
      BY <1>5, <2>2, <3>1, Zenon
  <2> QED
    BY <1>3, <2>1, <2>3
<1>8. PICK h : StatesOf(h, n, B, base, F) /\ h[n] = iter[1..n]
  <2>1. n \in Nat /\ F \in [1..n -> [B -> B]] /\ base \in B
    BY <1>1, <1>3
  <2> QED
    BY <1>6, <1>7, <2>1, FoldStates, SMTT(30)
<1>9. n \in 0..n
  BY <1>1
<1> QED
  BY <1>2, <1>8, <1>9 DEF StatesOf

LEMMA PartsStay ==
    ASSUME NEW B, NEW base \in B, NEW parts \in Nat, NEW writes,
           \A s \in B : AppendEncoded(AddKey(s), writes) \in B
    PROVE  EntryParts(base, parts, writes) \in B
<1> DEFINE list == [i \in 1..parts |-> i]
           n == Len(list)
           F == [i \in 1..n |-> [s \in B |-> AppendEncoded(AddKey(s), writes)]]
           P(g) == g = [T \in SUBSET DOMAIN list |->
                        IF T = {} THEN base ELSE AppendEncoded(AddKey(g[T \ {Max(T)}]), writes)]
           iter == CHOOSE g : P(g)
<1>1. n \in Nat /\ DOMAIN list = 1..n /\ \A i \in 1..n : list[i] \in Nat
  OBVIOUS
<1>2. EntryParts(base, parts, writes) = iter[1..n]
  <2>1. EntryParts(base, parts, writes) = iter[DOMAIN list]
    BY DEF EntryParts, FoldLeft, MapThenFoldSet
  <2> QED
    BY <1>1, <2>1
<1>3. F \in [1..n -> [B -> B]] /\ \A i \in 1..n, s \in B : F[i][s] = AppendEncoded(AddKey(s), writes)
  BY <1>1
<1> HIDE DEF list, n, F
<1>4. \E g : P(g)
  <2>1. PICK g \in [SUBSET (1..n) -> B] : FoldsWith(g, n, base, F)
    BY <1>1, <1>3, FoldExists
  <2>2. ASSUME NEW T \in SUBSET (1..n), T # {}
        PROVE  g[T] = AppendEncoded(AddKey(g[T \ {Max(T)}]), writes)
    <3>1. Max(T) \in 1..n /\ g[T \ {Max(T)}] \in B
      BY <1>1, <2>2, GreatestOf
    <3> QED
      BY <1>3, <2>1, <2>2, <3>1 DEF FoldsWith
  <2>3. g[{}] = base
    BY <2>1 DEF FoldsWith
  <2>4. P(g)
    BY <1>1, <2>1, <2>2, <2>3
  <2> QED
    BY <2>4
<1>5. P(iter)
  BY <1>4
<1> HIDE DEF iter
<1>6. iter[{}] = base
  BY <1>1, <1>5
<1>7. Moves(iter, n, B, F)
  <2>1. SUFFICES ASSUME NEW i \in 1..n, iter[1..(i - 1)] \in B PROVE iter[1..i] = F[i][iter[1..(i - 1)]]
    BY DEF Moves
  <2>2. Max(1..i) = i /\ 1..i \in SUBSET (1..n) /\ 1..i # {} /\ (1..i) \ {i} = 1..(i - 1)
    BY <1>1, Initials
  <2>3. iter[1..i] = AppendEncoded(AddKey(iter[1..(i - 1)]), writes)
    <3>1. 1..i \in SUBSET DOMAIN list
      BY <1>1, <2>2
    <3> QED
      BY <1>5, <2>2, <3>1, Zenon
  <2> QED
    BY <1>3, <2>1, <2>3
<1>8. PICK h : StatesOf(h, n, B, base, F) /\ h[n] = iter[1..n]
  <2>1. n \in Nat /\ F \in [1..n -> [B -> B]] /\ base \in B
    BY <1>1, <1>3
  <2> QED
    BY <1>6, <1>7, <2>1, FoldStates, SMTT(30)
<1>9. n \in 0..n
  BY <1>1
<1> QED
  BY <1>2, <1>8, <1>9 DEF StatesOf

-----------------------------------------------------------------------------
(* LogLine: objects, arrays and namespaces. *)

\* s, and k times o more.
More(s, k, o) == [i \in 1..(Len(s) + k) |-> IF i <= Len(s) THEN s[i] ELSE o]

LEMMA MoreIs ==
    ASSUME NEW S, NEW s \in Seq(S), NEW o \in S, NEW k \in Nat
    PROVE  /\ More(s, k, o) \in Seq(S) /\ More(s, 0, o) = s
           /\ Append(More(s, k, o), o) = More(s, k + 1, o)
           /\ More(Append(s, o), k, o) = More(s, k + 1, o)
<1>1. Len(s) \in Nat /\ \A i \in 1..Len(s) : s[i] \in S
  OBVIOUS
<1>2. \A j \in Nat : /\ More(s, j, o) \in Seq(S) /\ Len(More(s, j, o)) = Len(s) + j
                     /\ \A i \in 1..(Len(s) + j) : More(s, j, o)[i] = IF i <= Len(s) THEN s[i] ELSE o
  BY <1>1 DEF More
<1>3. More(s, 0, o) = s
  <2>1. Len(More(s, 0, o)) = Len(s) /\ \A i \in 1..Len(s) : More(s, 0, o)[i] = s[i]
    BY <1>1, <1>2
  <2>2. More(s, 0, o) \in Seq(S)
    BY <1>2
  <2> QED
    BY <2>1, <2>2, SeqEqual
<1> DEFINE m == More(s, k, o)
           a == Append(m, o)
           v == Append(s, o)
           n == More(s, k + 1, o)
<1>4. /\ m \in Seq(S) /\ Len(m) = Len(s) + k
      /\ \A i \in 1..(Len(s) + k) : m[i] = IF i <= Len(s) THEN s[i] ELSE o
  BY <1>2
<1>5. /\ n \in Seq(S) /\ Len(n) = Len(s) + k + 1
      /\ \A i \in 1..(Len(s) + k + 1) : n[i] = IF i <= Len(s) THEN s[i] ELSE o
  <2>1. k + 1 \in Nat /\ Len(s) + (k + 1) = Len(s) + k + 1
    BY <1>1
  <2> QED
    BY <1>2, <2>1
<1> HIDE DEF m, n
<1>6. a = n
  <2>1. /\ a \in Seq(S) /\ Len(a) = Len(s) + k + 1 /\ a[Len(s) + k + 1] = o
        /\ \A i \in 1..(Len(s) + k) : a[i] = m[i]
    BY <1>4, AppendProperties
  <2> HIDE DEF a
  <2>2. \A i \in 1..(Len(s) + k + 1) : a[i] = n[i]
    BY <1>1, <1>4, <1>5, <2>1
  <2> QED
    BY <1>5, <2>1, <2>2, SeqEqual
<1>7. /\ v \in Seq(S) /\ Len(v) = Len(s) + 1 /\ v[Len(s) + 1] = o
      /\ \A i \in 1..Len(s) : v[i] = s[i]
  BY <1>1, AppendProperties
<1>8. More(v, k, o) = n
  <2> HIDE DEF v
  <2>1. Len(v) + k = Len(s) + (k + 1)
    BY <1>1, <1>7
  <2>2. \A i \in 1..(Len(s) + (k + 1)) :
            (IF i <= Len(v) THEN v[i] ELSE o) = IF i <= Len(s) THEN s[i] ELSE o
    BY <1>1, <1>7
  <2> QED
    BY <2>1, <2>2 DEF More, n
<1> QED
  BY <1>2, <1>3, <1>6, <1>8 DEF m, n

\* The same token again and again.
Copies(k, o) == [i \in 1..k |-> o]

LEMMA CopiesAre ==
    ASSUME NEW S, NEW o \in S, NEW k \in Nat
    PROVE  /\ Copies(k, o) \in Seq(S) /\ Copies(0, o) = <<>>
           /\ k # 0 => Copies(k, o) = Append(Copies(k - 1, o), o)
<1>1. <<>> \in Seq(S) /\ Len(<<>>) = 0
  OBVIOUS
<1>2. \A j \in Nat : Copies(j, o) = More(<<>>, j, o)
  BY <1>1 DEF Copies, More
<1>3. ASSUME k # 0 PROVE k - 1 \in Nat /\ (k - 1) + 1 = k
  BY <1>3
<1>4. Copies(k, o) \in Seq(S) /\ Copies(0, o) = <<>>
  BY <1>1, <1>2, MoreIs, ZenonT(30)
<1>5. ASSUME NEW j \in Nat PROVE Append(Copies(j, o), o) = Copies(j + 1, o)
  <2>1. ASSUME NEW z \in Seq(S) PROVE Append(More(z, j, o), o) = More(z, j + 1, o)
    <3>1. /\ More(z, j, o) \in Seq(S) /\ More(z, 0, o) = z
          /\ Append(More(z, j, o), o) = More(z, j + 1, o)
          /\ More(Append(z, o), j, o) = More(z, j + 1, o)
      BY <2>1, MoreIs, ZenonT(30)
    <3> QED
      BY <3>1
  <2>2. Append(More(<<>>, j, o), o) = More(<<>>, j + 1, o)
    BY <1>1, <2>1, Zenon
  <2>3. j + 1 \in Nat
    OBVIOUS
  <2>4. Copies(j, o) = More(<<>>, j, o) /\ Copies(j + 1, o) = More(<<>>, j + 1, o)
    BY <1>2, <2>3, Zenon
  <2> QED
    BY <2>2, <2>4, Zenon
<1> QED
  BY <1>3, <1>4, <1>5

\* The brackets of w, and k open objects in it; what an encoder closes them with; what
\* is expected in an object that may end.
Opened(w, k) == More(w, k, "{")
Closing(k) == Copies(k, "}")
Endings == {"key or end", "more"}
WriteBrace(e) == Write(e, <<"}">>)

LEMMA OpenedIs ==
    ASSUME NEW w \in Seq(Brackets), NEW k \in Nat
    PROVE  /\ Opened(w, k) \in Seq(Brackets) /\ Opened(w, 0) = w
           /\ Append(Opened(w, k), "{") = Opened(w, k + 1)
           /\ Append(w, "{") \in Seq(Brackets) /\ Append(w, "{") # <<>>
           /\ Opened(Append(w, "{"), k) = Opened(w, k + 1)
<1>1. "{" \in Brackets
  BY DEF Brackets
<1>2. /\ More(w, k, "{") \in Seq(Brackets) /\ More(w, 0, "{") = w
      /\ Append(More(w, k, "{"), "{") = More(w, k + 1, "{")
      /\ More(Append(w, "{"), k, "{") = More(w, k + 1, "{")
  BY <1>1, MoreIs
<1>3. Append(w, "{") \in Seq(Brackets) /\ Append(w, "{") # <<>>
  BY <1>1, StackIs
<1> QED
  BY <1>2, <1>3 DEF Opened

LEMMA ClosingIs ==
    ASSUME NEW k \in Nat
    PROVE  /\ Closing(k) \in Seq(Tokens) /\ Closing(0) = <<>>
           /\ k # 0 => Closing(k) = Append(Closing(k - 1), "}")
<1>1. "}" \in Tokens
  BY DEF Tokens
<1> QED
  BY <1>1, CopiesAre DEF Closing

\* One brace of them.
LEMMA BraceCloses ==
    ASSUME NEW b \in Places, NEW e, NEW w \in Seq(Brackets), NEW k \in Nat, NEW x \in Endings,
           At(b, e, Place(Opened(w, k + 1), x))
    PROVE  /\ At(b, WriteBrace(e), Place(Opened(w, k), "more"))
           /\ WriteBrace(e).openNamespaces = e.openNamespaces
<1> DEFINE v == Opened(w, k)
<1>1. v \in Seq(Brackets) /\ Append(v, "{") = Opened(w, k + 1)
  BY OpenedIs
<1> HIDE DEF v
<1>2. At(b, e, Place(Append(v, "{"), x))
  BY <1>1
<1>3. "}" \in {"}", "]"} /\ x \in {"more", "key or end"}
  BY DEF Endings
<1>4. At(b, Write(e, <<"}">>), Place(v, "more")) /\ Write(e, <<"}">>).openNamespaces = e.openNamespaces
  BY <1>1, <1>2, <1>3, ClosesIs
<1> QED
  BY <1>4 DEF v, WriteBrace

LEMMA WriteMore ==
    ASSUME NEW e \in LogEncoders, NEW k \in Nat, k # 0
    PROVE  Write(e, Closing(k)) = WriteBrace(Write(e, Closing(k - 1)))
<1> DEFINE brace == "}"
           c == Closing(k - 1)
           f == Write(e, c)
<1>1. c \in Seq(Tokens) /\ Closing(k) = Append(c, brace)
  <2>1. k - 1 \in Nat
    OBVIOUS
  <2> QED
    BY <2>1, ClosingIs
<1>2. brace \in Tokens
  BY DEF Tokens
<1>3. WriteBrace(f) = Write(f, <<brace>>)
  BY DEF WriteBrace
<1> HIDE DEF brace, c
<1>4. e.buf \in Seq(Tokens)
  BY DEF LogEncoders
<1>5. e.buf \o c \in Seq(Tokens)
  BY <1>1, <1>4
<1>6. (e.buf \o c) \o <<brace>> = Append(e.buf \o c, brace)
  BY <1>2, <1>5, OneToken
<1>7. e.buf \o Append(c, brace) = Append(e.buf \o c, brace)
  <2>1. \A u, v \in Seq(Tokens), t \in Tokens : u \o Append(v, t) = Append(u \o v, t)
    BY ConcatAppended
  <2> QED
    BY <1>1, <1>2, <1>4, <2>1
<1>8. f = [e EXCEPT !.buf = e.buf \o c] /\ f.buf = e.buf \o c
  BY DEF Write, LogEncoders
<1> HIDE DEF f
<1>9. Write(f, <<brace>>) = [e EXCEPT !.buf = (e.buf \o c) \o <<brace>>]
  BY <1>8 DEF Write, LogEncoders
<1>10. Write(e, Append(c, brace)) = [e EXCEPT !.buf = e.buf \o Append(c, brace)]
  BY DEF Write
<1>11. Write(e, Closing(k)) = WriteBrace(f)
  BY <1>1, <1>3, <1>6, <1>7, <1>9, <1>10
<1> QED
  BY <1>11 DEF f, c

\* As many braces as objects are open close them.
LEMMA ClosesAll ==
    ASSUME NEW b \in Places, NEW e, NEW w \in Seq(Brackets), NEW k \in Nat, NEW x \in Endings,
           At(b, e, Place(Opened(w, k), x))
    PROVE  /\ At(b, Write(e, Closing(k)), Place(w, IF k = 0 THEN x ELSE "more"))
           /\ Write(e, Closing(k)).openNamespaces = e.openNamespaces
<1> DEFINE Right(j) == /\ At(b, Write(e, Closing(j)), Place(Opened(w, k - j), IF j = 0 THEN x ELSE "more"))
                       /\ Write(e, Closing(j)).openNamespaces = e.openNamespaces
           Wrong == {j \in Nat : j <= k /\ ~Right(j)}
<1>1. e \in LogEncoders /\ e.buf \in Seq(Tokens)
  BY DEF At, LogEncoders
<1>2. SUFFICES ASSUME Wrong # {} PROVE FALSE
  <2>0. k - k = 0 /\ k \in Nat /\ k <= k
    OBVIOUS
  <2>1. Opened(w, k - k) = w
    BY <2>0, OpenedIs
  <2>2. Right(k) => /\ At(b, Write(e, Closing(k)), Place(w, IF k = 0 THEN x ELSE "more"))
                    /\ Write(e, Closing(k)).openNamespaces = e.openNamespaces
    BY <2>1
  <2> HIDE DEF Right
  <2>3. Wrong = {} => Right(k)
    BY <2>0
  <2> QED
    BY <2>2, <2>3
<1>3. PICK j \in Wrong : \A i \in Wrong : j <= i
  <2> HIDE DEF Right
  <2> QED
    BY <1>2, LeastOf
<1>4. j # 0
  <2>1. Write(e, Closing(0)) = e
    <3>1. e.buf \o <<>> = e.buf
      BY <1>1
    <3>2. [e EXCEPT !.buf = e.buf] = e
      BY <1>1 DEF LogEncoders
    <3>3. Closing(0) = <<>>
      BY ClosingIs
    <3> QED
      BY <3>1, <3>2, <3>3 DEF Write
  <2>2. k - 0 = k
    OBVIOUS
  <2>3. Right(0)
    BY <2>1, <2>2
  <2> HIDE DEF Right
  <2> QED
    BY <1>3, <2>3
<1>5. j - 1 \in Nat /\ j - 1 <= k /\ Right(j - 1) /\ j \in Nat /\ k - j \in Nat /\ k - (j - 1) = (k - j) + 1
  <2> HIDE DEF Right
  <2> QED
    BY <1>3, <1>4
<1> DEFINE f == Write(e, Closing(j - 1))
           y == IF j - 1 = 0 THEN x ELSE "more"
<1>6. At(b, f, Place(Opened(w, (k - j) + 1), y)) /\ f.openNamespaces = e.openNamespaces
  BY <1>5
<1>7. y \in Endings
  BY DEF Endings
<1>8. Write(e, Closing(j)) = WriteBrace(f)
  BY <1>1, <1>4, <1>5, WriteMore
<1> HIDE DEF f, y
<1>9. At(b, WriteBrace(f), Place(Opened(w, k - j), "more")) /\ WriteBrace(f).openNamespaces = f.openNamespaces
  BY <1>5, <1>6, <1>7, BraceCloses
<1>10. Right(j)
  BY <1>4, <1>6, <1>8, <1>9
<1> HIDE DEF Right
<1> QED
  BY <1>3, <1>10

-----------------------------------------------------------------------------
(* LogLine: the encoders whose next key belongs to the innermost of the    *)
(* objects they have opened in the object opened in w; those of Inside may *)
(* end it.                                                                 *)

Room(b, w) == {e \in LogEncoders : InObject(b, e, Opened(w, e.openNamespaces))}
Inside(b, w) == {e \in LogEncoders : \E x \in Endings : At(b, e, Place(Opened(w, e.openNamespaces + 1), x))}

LEMMA InsideHasRoom ==
    ASSUME NEW b \in Places, NEW w \in Seq(Brackets), NEW e \in Inside(b, w)
    PROVE  e \in Room(b, w)
<1>1. e \in LogEncoders /\ e.openNamespaces \in Nat
  BY DEF Inside, LogEncoders
<1>2. PICK x \in Endings : At(b, e, Place(Opened(w, e.openNamespaces + 1), x))
  BY DEF Inside
<1>3. Append(Opened(w, e.openNamespaces), "{") = Opened(w, e.openNamespaces + 1)
  BY <1>1, OpenedIs
<1>4. At(b, e, Place(Append(Opened(w, e.openNamespaces), "{"), x))
  BY <1>2, <1>3, Zenon
<1>5. InObject(b, e, Opened(w, e.openNamespaces))
  BY <1>2, <1>4, Zenon DEF InObject, Endings
<1> QED
  BY <1>1, <1>5 DEF Room

\* The place of an encoder does not depend on what it counts.
LEMMA CountedAside ==
    ASSUME NEW b \in Places, NEW e, NEW p, At(b, e, p), NEW n \in Nat
    PROVE  /\ At(b, [e EXCEPT !.openNamespaces = n], p)
           /\ [e EXCEPT !.openNamespaces = n].openNamespaces = n
<1>1. e \in LogEncoders
  BY DEF At
<1>2. [e EXCEPT !.openNamespaces = n] \in LogEncoders /\ [e EXCEPT !.openNamespaces = n].buf = e.buf
      /\ [e EXCEPT !.openNamespaces = n].openNamespaces = n
  BY <1>1 DEF LogEncoders
<1> QED
  BY <1>2, Zenon DEF At

\* A key makes room for a value.
LEMMA KeyMakesRoom ==
    ASSUME NEW b \in Places, NEW w \in Seq(Brackets), NEW e \in Room(b, w)
    PROVE  LET v == Opened(w, e.openNamespaces + 1)
           IN  /\ v \in Seq(Brackets) /\ v # <<>>
               /\ TakesValue(b, AddKey(e), v) /\ AddKey(e).openNamespaces = e.openNamespaces
               /\ At(b, AddKey(e), Place(v, "element"))
<1> DEFINE u == Opened(w, e.openNamespaces)
           v == Opened(w, e.openNamespaces + 1)
<1>1. e.openNamespaces \in Nat /\ e.openNamespaces + 1 \in Nat
  BY DEF Room, LogEncoders
<1>2. u \in Seq(Brackets) /\ v \in Seq(Brackets) /\ Append(u, "{") = v
  BY <1>1, OpenedIs
<1>3. Append(u, "{") # <<>>
  BY <1>2, OpenedIs
<1>4. InObject(b, e, u)
  BY DEF Room
<1> HIDE DEF u, v
<1>5. At(b, AddKey(e), Place(Append(u, "{"), "element")) /\ AddKey(e).openNamespaces = e.openNamespaces
  BY <1>2, <1>4, KeyIs
<1>6. At(b, AddKey(e), Place(v, "element"))
  BY <1>2, <1>5, Zenon
<1>7. TakesValue(b, AddKey(e), v)
  BY <1>6, Zenon DEF TakesValue
<1> QED
  BY <1>2, <1>3, <1>5, <1>6, <1>7, Zenon DEF v

\* After a value the object may end.
LEMMA ValueEnds ==
    ASSUME NEW b \in Places, NEW w \in Seq(Brackets), NEW e,
           At(b, e, Place(Opened(w, e.openNamespaces + 1), "more"))
    PROVE  e \in Inside(b, w)
<1>1. "more" \in Endings
  BY Zenon DEF Endings
<1>2. e \in LogEncoders
  BY DEF At
<1> QED
  BY <1>1, <1>2, Zenon DEF Inside

LEMMA ScalarStays ==
    ASSUME NEW b \in Places, NEW w \in Seq(Brackets), NEW e \in Room(b, w)
    PROVE  /\ AddScalar(e) \in Inside(b, w) /\ AddScalar(e).openNamespaces = e.openNamespaces
           /\ AppendString(AddKey(e)) \in Inside(b, w)
           /\ AppendString(AddKey(e)).openNamespaces = e.openNamespaces
<1> DEFINE v == Opened(w, e.openNamespaces + 1)
           k == AddKey(e)
<1>1. v \in Seq(Brackets) /\ v # <<>> /\ TakesValue(b, k, v) /\ k.openNamespaces = e.openNamespaces
  BY KeyMakesRoom
<1> HIDE DEF v, k
<1>2. /\ At(b, AppendScalar(k), Place(v, "more")) /\ AppendScalar(k).openNamespaces = k.openNamespaces
      /\ At(b, AppendString(k), Place(v, "more")) /\ AppendString(k).openNamespaces = k.openNamespaces
  BY <1>1, ScalarIs
<1>3. AppendScalar(k) \in Inside(b, w)
  <2>1. At(b, AppendScalar(k), Place(Opened(w, AppendScalar(k).openNamespaces + 1), "more"))
    BY <1>1, <1>2, Zenon DEF v
  <2> QED
    BY <2>1, ValueEnds
<1>4. AppendString(k) \in Inside(b, w)
  <2>1. At(b, AppendString(k), Place(Opened(w, AppendString(k).openNamespaces + 1), "more"))
    BY <1>1, <1>2, Zenon DEF v
  <2> QED
    BY <2>1, ValueEnds
<1> QED
  BY <1>1, <1>2, <1>3, <1>4, Zenon DEF AddScalar, k

LEMMA NamespaceStays ==
    ASSUME NEW b \in Places, NEW w \in Seq(Brackets), NEW e \in Room(b, w)
    PROVE  OpenNamespace(e) \in Inside(b, w) /\ OpenNamespace(e).openNamespaces = e.openNamespaces + 1
<1> DEFINE n == e.openNamespaces
           v == Opened(w, n + 1)
           k == AddKey(e)
           f == Write(k, <<"{">>)
<1>1. n \in Nat /\ n + 1 \in Nat /\ (n + 1) + 1 = n + 2
  BY DEF Room, LogEncoders
<1>2. v \in Seq(Brackets) /\ k.openNamespaces = n /\ At(b, k, Place(v, "element"))
  BY KeyMakesRoom
<1>3. Append(v, "{") = Opened(w, (n + 1) + 1)
  BY <1>1, OpenedIs
<1>4. "{" \in Brackets /\ "element" \in {"element", "element or end"}
  BY Zenon DEF Brackets
<1> HIDE DEF n, v, k
<1>5. At(b, f, Place(Append(v, "{"), IF "{" = "{" THEN "key or end" ELSE "element or end"))
      /\ f.openNamespaces = k.openNamespaces
  BY <1>2, <1>4, OpensIs
<1>6. At(b, f, Place(Append(v, "{"), "key or end"))
  BY <1>5, Zenon
<1> HIDE DEF f
<1>7. OpenNamespace(e) = [f EXCEPT !.openNamespaces = n + 1]
  <2>1. f.openNamespaces + 1 = n + 1
    BY <1>2, <1>5
  <2>2. OpenNamespace(e) = [f EXCEPT !.openNamespaces = f.openNamespaces + 1]
    BY DEF OpenNamespace, f, k
  <2> QED
    BY <2>1, <2>2
<1>8. /\ At(b, OpenNamespace(e), Place(Append(v, "{"), "key or end"))
      /\ OpenNamespace(e).openNamespaces = n + 1
  <2> DEFINE q == Place(Append(v, "{"), "key or end")
             m == n + 1
  <2>1. At(b, f, q) /\ m \in Nat
    BY <1>1, <1>6
  <2> HIDE DEF q, m
  <2>2. /\ At(b, [f EXCEPT !.openNamespaces = m], q)
        /\ [f EXCEPT !.openNamespaces = m].openNamespaces = m
    BY <2>1, CountedAside
  <2> QED
    BY <1>7, <2>2, Zenon DEF q, m
<1>9. At(b, OpenNamespace(e), Place(Opened(w, OpenNamespace(e).openNamespaces + 1), "key or end"))
  BY <1>3, <1>8, Zenon
<1>10. "key or end" \in Endings /\ OpenNamespace(e) \in LogEncoders
  BY <1>8, Zenon DEF Endings, At
<1> QED
  BY <1>8, <1>9, <1>10, Zenon DEF Inside, n

LEMMA MemberStays ==
    ASSUME NEW b \in Places, NEW w \in Seq(Brackets), NEW e \in Inside(b, w), NEW m \in Members
    PROVE  AddMember(e, m) \in Inside(b, w)
<1>1. e \in Room(b, w)
  BY InsideHasRoom
<1> QED
  BY <1>1, ScalarStays, NamespaceStays DEF AddMember

LEMMA NamespacesClose ==
    ASSUME NEW b \in Places, NEW e, NEW w \in Seq(Brackets), NEW x \in Endings,
           At(b, e, Place(Opened(w, e.openNamespaces), x))
    PROVE  /\ At(b, CloseOpenNamespaces(e), Place(w, IF e.openNamespaces = 0 THEN x ELSE "more"))
           /\ CloseOpenNamespaces(e).openNamespaces = 0
<1> DEFINE n == e.openNamespaces
           f == Write(e, Closing(n))
           p == Place(w, IF n = 0 THEN x ELSE "more")
<1>1. n \in Nat
  BY DEF At, LogEncoders
<1>2. CloseOpenNamespaces(e) = [f EXCEPT !.openNamespaces = 0]
  BY Zenon DEF CloseOpenNamespaces, Closing, Copies
<1>3. At(b, f, p)
  <2>1. At(b, e, Place(Opened(w, n), x))
    OBVIOUS
  <2> HIDE DEF n
  <2> QED
    BY <1>1, <2>1, ClosesAll
<1>4. 0 \in Nat
  OBVIOUS
<1> HIDE DEF f, p
<1>5. At(b, [f EXCEPT !.openNamespaces = 0], p) /\ [f EXCEPT !.openNamespaces = 0].openNamespaces = 0
  BY <1>3, <1>4, CountedAside
<1> QED
  BY <1>2, <1>5 DEF p

LEMMA ObjectIs ==
    ASSUME NEW b \in Places, NEW e, NEW v \in Seq(Brackets), v # <<>>, TakesValue(b, e, v),
           NEW list \in Seq(Members)
    PROVE  /\ At(b, AppendObject(e, list), Place(v, "more"))
           /\ AppendObject(e, list).openNamespaces = e.openNamespaces
<1> DEFINE s == AddElementSeparator(e)
           z == [s EXCEPT !.openNamespaces = 0]
           opened == Write(z, <<"{">>)
           filled == FoldLeft(AddMember, opened, list)
           ended == WriteBrace(filled)
           closed == CloseOpenNamespaces(ended)
<1>1. /\ \E x \in {"element", "element or end"} : At(b, s, Place(v, x))
      /\ s.openNamespaces = e.openNamespaces
  BY ReadyForValue
<1>2. PICK x \in {"element", "element or end"} : At(b, s, Place(v, x))
  BY <1>1, Zenon
<1>3. s \in LogEncoders /\ 0 \in Nat /\ e.openNamespaces \in Nat
  BY <1>1, <1>2 DEF At, LogEncoders
<1>4. AppendObject(e, list) = [closed EXCEPT !.openNamespaces = e.openNamespaces]
  BY Zenon DEF AppendObject, WriteBrace
<1> HIDE DEF s
<1>5. At(b, z, Place(v, x)) /\ z.openNamespaces = 0
  BY <1>2, <1>3, CountedAside
<1> HIDE DEF z
<1>6. opened \in Inside(b, v)
  <2>1. "{" \in Brackets
    BY DEF Brackets
  <2>2. At(b, opened, Place(Append(v, "{"), IF "{" = "{" THEN "key or end" ELSE "element or end"))
        /\ opened.openNamespaces = z.openNamespaces
    BY <1>2, <1>5, <2>1, OpensIs
  <2>3. At(b, opened, Place(Append(v, "{"), "key or end")) /\ opened.openNamespaces = 0
    BY <1>5, <2>2, Zenon
  <2>4. Append(v, "{") = Opened(v, opened.openNamespaces + 1)
    <3>1. Append(Opened(v, 0), "{") = Opened(v, 0 + 1) /\ Opened(v, 0) = v
      BY <1>3, OpenedIs
    <3> HIDE DEF opened
    <3> QED
      BY <2>3, <3>1
  <2>5. At(b, opened, Place(Opened(v, opened.openNamespaces + 1), "key or end")) /\ "key or end" \in Endings
    BY <2>3, <2>4, Zenon DEF Endings
  <2>6. opened \in LogEncoders
    BY <2>3, Zenon DEF At
  <2> HIDE DEF opened
  <2> QED
    BY <2>5, <2>6, Zenon DEF Inside
<1> HIDE DEF opened
<1>7. filled \in Inside(b, v)
  <2>1. \A f \in Inside(b, v), m \in Members : AddMember(f, m) \in Inside(b, v)
    BY MemberStays
  <2> QED
    BY <1>6, <2>1, MembersStay
<1> HIDE DEF filled
<1>8. PICK y \in Endings : At(b, filled, Place(Opened(v, filled.openNamespaces + 1), y))
  BY <1>7 DEF Inside
<1>9. filled.openNamespaces \in Nat
  BY <1>7 DEF Inside, LogEncoders
<1>10. /\ At(b, ended, Place(Opened(v, filled.openNamespaces), "more"))
       /\ ended.openNamespaces = filled.openNamespaces
  BY <1>8, <1>9, BraceCloses
<1> HIDE DEF ended
<1>11. At(b, ended, Place(Opened(v, ended.openNamespaces), "more"))
  BY <1>10
<1>12. "more" \in Endings
  BY Zenon DEF Endings
<1>13. At(b, closed, Place(v, "more"))
  <2>1. At(b, closed, Place(v, IF ended.openNamespaces = 0 THEN "more" ELSE "more"))
    BY <1>11, <1>12, NamespacesClose
  <2> HIDE DEF closed
  <2> QED
    BY <2>1
<1> HIDE DEF closed
<1>14. /\ At(b, [closed EXCEPT !.openNamespaces = e.openNamespaces], Place(v, "more"))
       /\ [closed EXCEPT !.openNamespaces = e.openNamespaces].openNamespaces = e.openNamespaces
  BY <1>3, <1>13, CountedAside
<1> QED
  BY <1>4, <1>14

\* The elements of an array opened in v.
ArrayEndings == {"element or end", "more"}
Elements(b, v, n) ==
    {e \in LogEncoders : e.openNamespaces = n /\ \E x \in ArrayEndings : At(b, e, Place(Append(v, "["), x))}

LEMMA ElementStays ==
    ASSUME NEW b \in Places, NEW v \in Seq(Brackets), NEW n, NEW e \in Elements(b, v, n), NEW m \in Members
    PROVE  AppendElement(e, m) \in Elements(b, v, n)
<1> DEFINE w == Append(v, "[")
           two == <<m, "scalar">>
<1>1. "[" \in Brackets
  BY DEF Brackets
<1>2. w \in Seq(Brackets) /\ w # <<>> /\ Last(w) = "["
  BY <1>1, StackIs
<1>3. TakesValue(b, e, w) /\ e.openNamespaces = n
  <2>1. PICK x \in ArrayEndings : At(b, e, Place(w, x))
    BY DEF Elements
  <2>2. x = "element or end" \/ x = "more"
    BY Zenon DEF ArrayEndings
  <2>3. e.openNamespaces = n
    BY DEF Elements
  <2> HIDE DEF w
  <2> QED
    BY <1>2, <2>1, <2>2, <2>3, Zenon DEF TakesValue
<1>4. two \in Seq(Members)
  <2>1. m \in Members /\ "scalar" \in Members
    BY DEF Members
  <2> QED
    BY <2>1
<1> HIDE DEF w, two
<1>5. /\ At(b, AppendObject(e, two), Place(w, "more")) /\ AppendObject(e, two).openNamespaces = n
      /\ At(b, AppendScalar(e), Place(w, "more")) /\ AppendScalar(e).openNamespaces = n
  <2>1. AppendObject(e, two).openNamespaces = n /\ At(b, AppendObject(e, two), Place(w, "more"))
    BY <1>2, <1>3, <1>4, ObjectIs
  <2>2. AppendScalar(e).openNamespaces = n /\ At(b, AppendScalar(e), Place(w, "more"))
    BY <1>2, <1>3, ScalarIs
  <2> QED
    BY <2>1, <2>2
<1>6. AppendElement(e, m) = AppendObject(e, two) \/ AppendElement(e, m) = AppendScalar(e)
  BY Zenon DEF AppendElement, two
<1>7. At(b, AppendElement(e, m), Place(w, "more")) /\ AppendElement(e, m).openNamespaces = n
  BY <1>5, <1>6, Zenon
<1>8. "more" \in ArrayEndings /\ AppendElement(e, m) \in LogEncoders
  BY <1>7, Zenon DEF ArrayEndings, At
<1> QED
  BY <1>7, <1>8, Zenon DEF Elements, w

LEMMA ArrayIs ==
    ASSUME NEW b \in Places, NEW e, NEW v \in Seq(Brackets), v # <<>>, TakesValue(b, e, v),
           NEW list \in Seq(Members)
    PROVE  /\ At(b, AppendArray(e, list), Place(v, "more"))
           /\ AppendArray(e, list).openNamespaces = e.openNamespaces
<1> DEFINE s == AddElementSeparator(e)
           n == e.openNamespaces
           opened == Write(s, <<"[">>)
           filled == FoldLeft(AppendElement, opened, list)
<1>1. /\ \E x \in {"element", "element or end"} : At(b, s, Place(v, x))
      /\ s.openNamespaces = n
  BY ReadyForValue
<1>2. PICK x \in {"element", "element or end"} : At(b, s, Place(v, x))
  BY <1>1, Zenon
<1>3. AppendArray(e, list) = Write(filled, <<"]">>)
  BY Zenon DEF AppendArray
<1> HIDE DEF s, n
<1>4. opened \in Elements(b, v, n)
  <2>1. "[" \in Brackets
    BY DEF Brackets
  <2>2. At(b, opened, Place(Append(v, "["), IF "[" = "{" THEN "key or end" ELSE "element or end"))
        /\ opened.openNamespaces = s.openNamespaces
    BY <1>2, <2>1, OpensIs
  <2>3. "[" # "{"
    OBVIOUS
  <2>4. At(b, opened, Place(Append(v, "["), "element or end")) /\ opened.openNamespaces = n
    BY <1>1, <2>2, <2>3, Zenon
  <2>5. opened \in LogEncoders /\ "element or end" \in ArrayEndings
    BY <2>4, Zenon DEF At, ArrayEndings
  <2> HIDE DEF opened
  <2> QED
    BY <2>4, <2>5, Zenon DEF Elements
<1> HIDE DEF opened
<1>5. filled \in Elements(b, v, n)
  <2>1. \A f \in Elements(b, v, n), m \in Members : AppendElement(f, m) \in Elements(b, v, n)
    BY ElementStays
  <2> QED
    BY <1>4, <2>1, ElementsStay
<1> HIDE DEF filled
<1>6. PICK y \in ArrayEndings : At(b, filled, Place(Append(v, "["), y))
  BY <1>5 DEF Elements
<1>7. filled.openNamespaces = n
  BY <1>5 DEF Elements
<1>8. /\ "]" \in {"}", "]"} /\ y \in {"more", IF "]" = "}" THEN "key or end" ELSE "element or end"}
      /\ At(b, filled, Place(Append(v, IF "]" = "}" THEN "{" ELSE "["), y))
  <2>1. "]" # "}"
    OBVIOUS
  <2> QED
    BY <1>6, <2>1, Zenon DEF ArrayEndings
<1>9. At(b, Write(filled, <<"]">>), Place(v, "more")) /\ Write(filled, <<"]">>).openNamespaces = filled.openNamespaces
  BY <1>8, ClosesIs
<1> QED
  BY <1>3, <1>7, <1>9 DEF n

\* Every field of zap.
LEMMA FieldStays ==
    ASSUME NEW b \in Places, NEW w \in Seq(Brackets), NEW e \in Room(b, w), NEW f \in FieldTypes
    PROVE  /\ AddTo(e, f) \in Inside(b, w)
           /\ AddTo(e, f).openNamespaces \in {e.openNamespaces, e.openNamespaces + 1}
<1> DEFINE n == e.openNamespaces
           v == Opened(w, n + 1)
           k == AddKey(e)
<1>1. v \in Seq(Brackets) /\ v # <<>> /\ TakesValue(b, k, v) /\ k.openNamespaces = n
  BY KeyMakesRoom
<1> HIDE DEF v, k
<1>2. ASSUME NEW g, At(b, g, Place(v, "more")), g.openNamespaces = n
      PROVE  g \in Inside(b, w) /\ g.openNamespaces \in {n, n + 1}
  <2>1. At(b, g, Place(Opened(w, g.openNamespaces + 1), "more"))
    BY <1>2, Zenon DEF v
  <2>2. g \in Inside(b, w)
    BY <2>1, ValueEnds
  <2> QED
    BY <1>2, <2>2
<1>3. ASSUME NEW list \in Seq(Members)
      PROVE  /\ AppendObject(k, list) \in Inside(b, w) /\ AppendObject(k, list).openNamespaces \in {n, n + 1}
             /\ AppendArray(k, list) \in Inside(b, w) /\ AppendArray(k, list).openNamespaces \in {n, n + 1}
  <2>1. AppendObject(k, list).openNamespaces = n /\ At(b, AppendObject(k, list), Place(v, "more"))
    BY <1>1, ObjectIs
  <2>2. AppendArray(k, list).openNamespaces = n /\ At(b, AppendArray(k, list), Place(v, "more"))
    BY <1>1, ArrayIs
  <2> QED
    BY <1>2, <2>1, <2>2, Zenon
<1>4. /\ AddScalar(e) \in Inside(b, w) /\ AddScalar(e).openNamespaces = n
      /\ AppendString(k) \in Inside(b, w) /\ AppendString(k).openNamespaces = n
  BY ScalarStays DEF k
<1>5. OpenNamespace(e) \in Inside(b, w) /\ OpenNamespace(e).openNamespaces = n + 1
  BY NamespaceStays
<1>6. /\ f.type \in {"scalar", "context", "unmarshalable", "namespace", "array", "object"}
      /\ f.type \in {"array", "object"} => f.of \in Seq(Members)
  BY DEF FieldTypes
<1>7. CASE f.type = "scalar"
  BY <1>4, <1>7 DEF AddTo
<1>8. CASE f.type = "context"
  BY <1>4, <1>8 DEF AddTo, AddReflected
<1>9. CASE f.type = "unmarshalable"
  BY <1>4, <1>9 DEF AddTo, AddReflected, k
<1>10. CASE f.type = "namespace"
  BY <1>5, <1>10 DEF AddTo
<1>11. CASE f.type = "array"
  BY <1>3, <1>6, <1>11 DEF AddTo, k
<1>12. CASE f.type = "object"
  BY <1>3, <1>6, <1>12 DEF AddTo, k
<1> QED
  BY <1>6, <1>7, <1>8, <1>9, <1>10, <1>11, <1>12

\* The fields of an entry.
LEMMA FieldsStay ==
    ASSUME NEW b \in Places, NEW w \in Seq(Brackets), NEW e \in Inside(b, w), NEW fields \in Seq(FieldTypes)
    PROVE  AddFields(e, fields) \in Inside(b, w)
<1> DEFINE B == Inside(b, w)
           identified == FoldLeft(AddIdentity, e, fields)
           entries == {fields[i].type : i \in DOMAIN fields} \ {"scalar"}
           rest == [type |-> IF "unmarshalable" \in entries THEN "unmarshalable" ELSE "context", of |-> <<>>]
<1>1. \A s \in B, f \in FieldTypes : AddTo(s, f) \in B
  BY InsideHasRoom, FieldStays
<1>2. \A s \in B, f \in FieldTypes : AddIdentity(s, f) \in B
  BY <1>1 DEF AddIdentity
<1>3. identified \in B
  <2> HIDE DEF B
  <2>1. e \in B
    BY DEF B
  <2> QED
    BY <1>2, <2>1, IdentitiesStay
<1>4. rest \in FieldTypes
  BY DEF FieldTypes
<1>5. AddFields(e, fields) = IF entries = {} THEN identified ELSE AddTo(identified, rest)
  BY Zenon DEF AddFields
<1> HIDE DEF identified, rest, entries, B
<1> QED
  BY <1>1, <1>3, <1>4, <1>5 DEF B

-----------------------------------------------------------------------------
(* LogLine: a line. *)

Outside == Place(<<>>, "element")
Line == Opened(<<>>, 1)
KeyPlaces == {"key", "key or end"}

LEMMA LinePlaces ==
    /\ <<>> \in Seq(Brackets) /\ Line \in Seq(Brackets) /\ Line # <<>> /\ Line = Append(<<>>, "{")
    /\ Last(Line) = "{" /\ Outside \in Places /\ Outside.where = <<>>
    /\ \A x \in KeyPlaces : Place(Line, x) \in Places /\ Place(Line, x).where = Line /\ Place(Line, x).expects = x
    /\ \A k \in Nat : Opened(Line, k) = Opened(<<>>, k + 1)
<1>1. <<>> \in Seq(Brackets) /\ 0 \in Nat /\ 0 + 1 = 1
  OBVIOUS
<1>2. /\ Append(Opened(<<>>, 0), "{") = Opened(<<>>, 0 + 1) /\ Opened(<<>>, 0) = <<>>
      /\ Append(<<>>, "{") \in Seq(Brackets) /\ Append(<<>>, "{") # <<>>
      /\ \A k \in Nat : Opened(Append(<<>>, "{"), k) = Opened(<<>>, k + 1)
  BY <1>1, OpenedIs, Zenon
<1>3. Line = Append(<<>>, "{")
  BY <1>1, <1>2, Zenon DEF Line
<1>4. Last(Append(<<>>, "{")) = "{"
  <2>1. "{" \in Brackets
    BY DEF Brackets
  <2> QED
    BY <1>1, <2>1, StackIs
<1>5. Line \in Seq(Brackets)
  BY <1>2, <1>3, Zenon
<1>6. \A x \in KeyPlaces : Place(Line, x) \in Places /\ Place(Line, x).where = Line /\ Place(Line, x).expects = x
  <2>1. \A x \in KeyPlaces : x \in Expectations
    BY Zenon DEF KeyPlaces, Expectations
  <2> QED
    BY <1>5, <2>1, PlaceIs, Zenon
<1>7. Outside \in Places /\ Outside.where = <<>>
  <2>1. "element" \in Expectations
    BY Zenon DEF Expectations
  <2> QED
    BY <1>1, <2>1, PlaceIs, Zenon DEF Outside
<1> QED
  BY <1>1, <1>2, <1>3, <1>4, <1>5, <1>6, <1>7, Zenon

\* A line before the fields of its logger: only the brace of its own is open, whatever
\* the encoder counts.
Begun(n) == {e \in LogEncoders : e.openNamespaces = n /\ \E x \in Endings : At(Outside, e, Place(Line, x))}

LEMMA LineBegins == ASSUME NEW n \in Nat PROVE [buf |-> <<"{">>, openNamespaces |-> n] \in Begun(n)
<1> DEFINE e == [buf |-> <<"{">>, openNamespaces |-> n]
           s == <<"{">>
           p == Place(Line, "key or end")
<1>1. "{" \in Tokens /\ <<>> \in Seq(Tokens)
  BY DEF Tokens
<1>2. s = Append(<<>>, "{") /\ s \in Seq(Tokens) /\ s # <<>> /\ s[1] = "{"
  <2>1. \A t \in Tokens : <<t>> = Append(<<>>, t)
    OBVIOUS
  <2>2. \A t \in Tokens : <<t>> \in Seq(Tokens)
    OBVIOUS
  <2>3. \A t \in Tokens : <<t>> # <<>> /\ <<t>>[1] = t
    OBVIOUS
  <2> QED
    BY <1>1, <2>1, <2>2, <2>3, Zenon
<1>3. Last(s) = "{"
  BY DEF Last
<1>4. e \in LogEncoders /\ e.buf = s /\ e.openNamespaces = n
  BY <1>2 DEF LogEncoders
<1> HIDE DEF e, s
<1>5. Reading(Outside, s) = Reads(Outside, "{")
  <2>1. Reading(Outside, <<>>) = Outside
    BY LinePlaces, ReadingIs
  <2>2. \A u \in Seq(Tokens), k \in Tokens : Reading(Outside, Append(u, k)) = Reads(Reading(Outside, u), k)
    BY LinePlaces, ReadingIs
  <2> QED
    BY <1>1, <1>2, <2>1, <2>2, Zenon
<1>6. Reads(Outside, "{") = p
  <2>1. Outside.expects \in {"element", "element or end"}
    BY Zenon DEF Outside, Place
  <2>2. Reads(Outside, "{") = Place(Append(Outside.where, "{"), "key or end")
    BY <2>1, LinePlaces, ReadsInPlace, Zenon
  <2> QED
    BY <2>2, LinePlaces, Zenon
<1>7. p \in Places /\ p.expects = "key or end"
  <2>1. "key or end" \in KeyPlaces
    BY Zenon DEF KeyPlaces
  <2> QED
    BY <2>1, LinePlaces, Zenon
<1>8. "key or end" # "more" /\ "key or end" \in Endings
  BY Zenon DEF Endings
<1>9. Bare(s)
  BY <1>3, Zenon DEF Bare
<1>10. At(Outside, e, p)
  BY <1>2, <1>4, <1>5, <1>6, <1>7, <1>8, <1>9, Zenon DEF At
<1> QED
  BY <1>4, <1>8, <1>10, Zenon DEF Begun, e, p, s

LEMMA PartStays ==
    ASSUME NEW n \in Nat, NEW e \in Begun(n), NEW writes
    PROVE  AppendEncoded(AddKey(e), writes) \in Begun(n)
<1> DEFINE k == AddKey(e)
<1>1. PICK x \in Endings : At(Outside, e, Place(Line, x))
  BY DEF Begun
<1>2. e.openNamespaces = n
  BY DEF Begun
<1>3. InObject(Outside, e, <<>>)
  BY <1>1, LinePlaces, Zenon DEF InObject, Endings
<1>4. At(Outside, k, Place(Line, "element")) /\ k.openNamespaces = n
  <2>1. At(Outside, k, Place(Append(<<>>, "{"), "element")) /\ k.openNamespaces = e.openNamespaces
    BY <1>3, LinePlaces, KeyIs
  <2> QED
    BY <1>2, <2>1, LinePlaces, Zenon
<1> HIDE DEF k
<1>5. TakesValue(Outside, k, Line)
  BY <1>4, Zenon DEF TakesValue
<1>6. /\ At(Outside, AppendScalar(k), Place(Line, "more")) /\ AppendScalar(k).openNamespaces = k.openNamespaces
      /\ At(Outside, AppendString(k), Place(Line, "more")) /\ AppendString(k).openNamespaces = k.openNamespaces
  BY <1>5, LinePlaces, ScalarIs
<1>7. AppendEncoded(k, writes) = AppendString(k) \/ AppendEncoded(k, writes) = AppendScalar(k)
  BY Zenon DEF AppendEncoded
<1>8. /\ At(Outside, AppendEncoded(k, writes), Place(Line, "more"))
      /\ AppendEncoded(k, writes).openNamespaces = n
  BY <1>4, <1>6, <1>7, Zenon
<1>9. "more" \in Endings /\ AppendEncoded(k, writes) \in LogEncoders
  BY <1>8, Zenon DEF Endings, At
<1> QED
  BY <1>8, <1>9, Zenon DEF Begun, k

\* The encoder of the logger is empty, or what it holds continues every line where a
\* key may come.
Continues(enc) == \A x \in KeyPlaces : enc \in Inside(Place(Line, x), <<>>)
Fresh == [buf |-> <<>>, openNamespaces |-> 0]

LEMMA FreshHasRoom == ASSUME NEW x \in KeyPlaces PROVE Fresh \in Room(Place(Line, x), <<>>)
<1> DEFINE b == Place(Line, x)
<1>1. b \in Places /\ b.expects = x /\ b.where = Line /\ Line # <<>>
  BY LinePlaces
<1>2. Fresh \in LogEncoders /\ Fresh.buf = <<>> /\ Fresh.openNamespaces = 0
  <2>1. <<>> \in Seq(Tokens) /\ 0 \in Nat
    OBVIOUS
  <2> QED
    BY <2>1 DEF Fresh, LogEncoders
<1> HIDE DEF b
<1>3. Reading(b, <<>>) = b
  BY <1>1, ReadingIs
<1>4. x # "more"
  BY Zenon DEF KeyPlaces
<1>5. At(Place(Line, x), Fresh, Place(Line, x))
  BY <1>1, <1>2, <1>3, <1>4, Zenon DEF At, Bare, b
<1>6. InObject(Place(Line, x), Fresh, <<>>)
  <2>1. At(Place(Line, x), Fresh, Place(Append(<<>>, "{"), x))
    BY <1>5, LinePlaces, Zenon
  <2> QED
    BY <2>1, Zenon DEF InObject, KeyPlaces
<1>7. Opened(<<>>, Fresh.openNamespaces) = <<>>
  BY <1>2, LinePlaces, OpenedIs
<1> QED
  BY <1>2, <1>6, <1>7, Zenon DEF Room

\* What continues a line is not empty.
LEMMA ContinuesSomething == ASSUME NEW enc, Continues(enc) PROVE enc \in LogEncoders /\ enc.buf # <<>>
<1> DEFINE b == Place(Line, "key")
<1>1. "key" \in KeyPlaces
  BY Zenon DEF KeyPlaces
<1>2. b \in Places /\ b.expects = "key"
  BY <1>1, LinePlaces
<1>3. enc \in LogEncoders
  BY <1>1, Zenon DEF Continues, Inside
<1>4. PICK x \in Endings : At(b, enc, Place(Opened(<<>>, enc.openNamespaces + 1), x))
  BY <1>1, Zenon DEF Continues, Inside
<1> DEFINE p == Place(Opened(<<>>, enc.openNamespaces + 1), x)
<1>5. p.expects # "key"
  <2>1. x # "key"
    BY Zenon DEF Endings
  <2>2. p.expects = x
    BY DEF Place
  <2> HIDE DEF p
  <2> QED
    BY <2>1, <2>2
<1>6. Reading(b, enc.buf) = p
  BY <1>4, Zenon DEF At
<1> HIDE DEF b, p
<1>7. Reading(b, <<>>) = b
  BY <1>2, ReadingIs
<1> QED
  BY <1>2, <1>3, <1>5, <1>6, <1>7, Zenon

\* Where the encoder of the logger is appended.
LEMMA LoggerContinues ==
    ASSUME NEW n \in Nat, NEW e \in Begun(n), NEW enc, Continues(enc), enc.openNamespaces = n
    PROVE  Write(AddElementSeparator(e), enc.buf) \in Inside(Outside, <<>>)
<1> DEFINE s == AddElementSeparator(e)
           f == Write(s, enc.buf)
<1>1. PICK x \in Endings : At(Outside, e, Place(Line, x))
  BY DEF Begun
<1>2. enc \in LogEncoders /\ enc.buf # <<>> /\ enc.buf \in Seq(Tokens)
  BY ContinuesSomething DEF LogEncoders
<1>3. e.openNamespaces = n
  BY DEF Begun
<1>4. s.openNamespaces = n /\ \E y \in KeyPlaces : At(Outside, s, Place(Line, y))
  <2>1. Place(Line, x).where = Line /\ Place(Line, x).expects = x
    BY Zenon DEF Place
  <2>2. /\ At(Outside, s, IF Place(Line, x).expects = "more"
                          THEN Place(Place(Line, x).where, IF Last(Place(Line, x).where) = "{" THEN "key" ELSE "element")
                          ELSE Place(Line, x))
        /\ s.openNamespaces = e.openNamespaces
    <3>1. Place(Line, x).where # <<>>
      BY <2>1, LinePlaces
    <3> QED
      BY <1>1, <3>1, LinePlaces, Separates
  <2> HIDE DEF s
  <2>3. CASE x = "more"
    <3>1. At(Outside, s, Place(Line, "key"))
      BY <2>1, <2>2, <2>3, LinePlaces, Zenon
    <3> QED
      BY <1>3, <2>2, <3>1, Zenon DEF KeyPlaces
  <2>4. CASE x # "more"
    <3>1. At(Outside, s, Place(Line, x))
      BY <2>1, <2>2, <2>4, Zenon
    <3>2. x \in KeyPlaces
      BY <2>4, Zenon DEF Endings, KeyPlaces
    <3> QED
      BY <1>3, <2>2, <3>1, <3>2, Zenon
  <2> QED
    BY <2>3, <2>4
<1>5. PICK y \in KeyPlaces : At(Outside, s, Place(Line, y))
  BY <1>4
<1> DEFINE b == Place(Line, y)
<1>6. PICK z \in Endings : At(b, enc, Place(Opened(<<>>, n + 1), z))
  BY Zenon DEF Continues, Inside
<1> DEFINE p == Place(Opened(<<>>, n + 1), z)
<1>7. At(Outside, s, b) /\ At(b, enc, p)
  BY <1>5, <1>6
<1> HIDE DEF s, b, p
<1>8. s \in LogEncoders /\ s.buf \in Seq(Tokens) /\ s.buf # <<>> /\ s.buf[1] = "{"
      /\ Reading(Outside, s.buf) = b /\ Reading(b, enc.buf) = p /\ p \in Places
      /\ (Bare(enc.buf) <=> p.expects # "more")
  BY <1>7, LinePlaces DEF At, LogEncoders
<1>9. f \in LogEncoders /\ f.buf = s.buf \o enc.buf /\ f.openNamespaces = s.openNamespaces
  BY <1>2, <1>8, WriteIs
<1> HIDE DEF f
<1>10. Reading(Outside, f.buf) = p
  <2>1. Reading(Outside, s.buf \o enc.buf) = Reading(Reading(Outside, s.buf), enc.buf)
    BY <1>2, <1>8, LinePlaces, ReadingOn
  <2> QED
    BY <1>8, <1>9, <2>1
<1>11. f.buf # <<>> /\ f.buf[1] = s.buf[1] /\ Last(f.buf) = Last(enc.buf)
  <2>1. ASSUME NEW S, NEW u \in Seq(S), NEW v \in Seq(S), u # <<>>, v # <<>>
        PROVE  u \o v # <<>> /\ (u \o v)[1] = u[1] /\ Last(u \o v) = Last(v)
    <3>1. Len(u) \in Nat /\ Len(u) # 0 /\ Len(v) \in Nat /\ Len(v) # 0
      BY <2>1
    <3>2. /\ u \o v \in Seq(S) /\ Len(u \o v) = Len(u) + Len(v)
          /\ \A i \in 1..(Len(u) + Len(v)) : (u \o v)[i] = IF i <= Len(u) THEN u[i] ELSE v[i - Len(u)]
      BY <2>1
    <3>3. (u \o v)[1] = u[1]
      BY <3>1, <3>2
    <3>4. (u \o v)[Len(u) + Len(v)] = v[Len(v)]
      <4>1. Len(u) + Len(v) \in 1..(Len(u) + Len(v)) /\ ~(Len(u) + Len(v) <= Len(u))
            /\ (Len(u) + Len(v)) - Len(u) = Len(v)
        BY <3>1
      <4> QED
        BY <3>2, <4>1
    <3>5. u \o v # <<>>
      BY <3>1, <3>2
    <3> QED
      BY <3>2, <3>3, <3>4, <3>5 DEF Last
  <2> QED
    BY <1>2, <1>8, <1>9, <2>1, ZenonT(30)
<1>12. Bare(f.buf) <=> Bare(enc.buf)
  BY <1>2, <1>11, Zenon DEF Bare
<1>13. At(Outside, f, p)
  BY <1>8, <1>9, <1>10, <1>11, <1>12, Zenon DEF At
<1>14. At(Outside, f, Place(Opened(<<>>, f.openNamespaces + 1), z))
  BY <1>4, <1>9, <1>13, Zenon DEF p
<1> QED
  BY <1>9, <1>14, Zenon DEF Inside, f, s

\* What is closed and maybe given a stack trace is a line when its own brace is closed.
LEMMA LineEnds ==
    ASSUME NEW e \in Inside(Outside, <<>>), NEW stack
    PROVE  LET closed == CloseOpenNamespaces(e)
               whole == (IF stack THEN AppendString(AddKey(closed)) ELSE closed).buf \o <<"}">>
           IN  whole[1] = "{" /\ Reading(Outside, whole) = Place(<<>>, "more")
<1> DEFINE n == e.openNamespaces
           closed == CloseOpenNamespaces(e)
           k == AddKey(closed)
           traced == IF stack THEN AppendString(k) ELSE closed
           whole == traced.buf \o <<"}">>
<1>1. n \in Nat /\ e \in LogEncoders
  BY DEF Inside, LogEncoders
<1>2. PICK x \in Endings : At(Outside, e, Place(Opened(<<>>, n + 1), x))
  BY Zenon DEF Inside
<1>3. At(Outside, e, Place(Opened(Line, n), x))
  BY <1>1, <1>2, LinePlaces, Zenon
<1>4. \E y \in Endings : At(Outside, closed, Place(Line, y))
  <2>1. At(Outside, closed, Place(Line, IF n = 0 THEN x ELSE "more"))
    BY <1>3, LinePlaces, NamespacesClose
  <2>2. (IF n = 0 THEN x ELSE "more") \in Endings
    BY Zenon DEF Endings
  <2> QED
    BY <2>1, <2>2
<1> HIDE DEF closed
<1>5. PICK y \in Endings : At(Outside, closed, Place(Line, y))
  BY <1>4
<1>6. At(Outside, AppendString(k), Place(Line, "more"))
  <2>1. InObject(Outside, closed, <<>>)
    BY <1>5, LinePlaces, Zenon DEF InObject, Endings
  <2>2. At(Outside, k, Place(Append(<<>>, "{"), "element"))
    BY <2>1, LinePlaces, KeyIs
  <2>3. At(Outside, k, Place(Line, "element"))
    BY <2>2, LinePlaces, Zenon
  <2> HIDE DEF k
  <2>4. TakesValue(Outside, k, Line)
    BY <2>3, Zenon DEF TakesValue
  <2> QED
    BY <2>4, LinePlaces, ScalarIs
<1> HIDE DEF k
<1>7. \E z \in Endings : At(Outside, traced, Place(Line, z))
  BY <1>5, <1>6, Zenon DEF Endings
<1> HIDE DEF traced
<1>8. PICK z \in Endings : At(Outside, traced, Place(Line, z))
  BY <1>7
<1>9. At(Outside, WriteBrace(traced), Place(<<>>, "more"))
  <2>1. 0 \in Nat /\ 0 + 1 = 1
    OBVIOUS
  <2>2. Opened(<<>>, 0) = <<>>
    BY LinePlaces, OpenedIs
  <2>3. At(Outside, traced, Place(Opened(<<>>, 0 + 1), z))
    BY <1>8, <2>1, Zenon DEF Line
  <2>4. At(Outside, WriteBrace(traced), Place(Opened(<<>>, 0), "more"))
    BY <2>1, <2>3, LinePlaces, BraceCloses
  <2> QED
    BY <2>2, <2>4, Zenon
<1>10. WriteBrace(traced).buf = whole
  <2>1. traced \in LogEncoders
    BY <1>8, Zenon DEF At
  <2>2. "}" \in Tokens
    BY DEF Tokens
  <2>3. <<"}">> \in Seq(Tokens)
    <3>1. \A t \in Tokens : <<t>> \in Seq(Tokens)
      OBVIOUS
    <3> QED
      BY <2>2, <3>1, Zenon
  <2> QED
    BY <2>1, <2>3, WriteIs, Zenon DEF WriteBrace
<1> QED
  BY <1>9, <1>10, LinePlaces, Zenon DEF At, traced, k, closed

LEMMA EntryIsLine ==
    ASSUME NEW enc, enc = Fresh \/ Continues(enc), NEW parts \in Nat, NEW writes,
           NEW fields \in Seq(FieldTypes), NEW stack
    PROVE  LET whole == EncodeEntry(enc, parts, writes, fields, stack)
           IN  whole[1] = "{" /\ Reading(Outside, whole) = Place(<<>>, "more")
<1> DEFINE n == enc.openNamespaces
           begin == [buf |-> <<"{">>, openNamespaces |-> n]
           entry == EntryParts(begin, parts, writes)
           logger == IF enc.buf = <<>> THEN entry ELSE Write(AddElementSeparator(entry), enc.buf)
           full == AddFields(logger, fields)
<1>1. n \in Nat
  <2>1. CASE enc = Fresh
    BY <2>1 DEF Fresh
  <2>2. CASE Continues(enc)
    <3>1. enc \in LogEncoders
      BY <2>2, ContinuesSomething
    <3> QED
      BY <3>1 DEF LogEncoders
  <2> QED
    BY <2>1, <2>2
<1>2. entry \in Begun(n)
  <2>1. begin \in Begun(n)
    BY <1>1, LineBegins
  <2>2. \A e \in Begun(n) : AppendEncoded(AddKey(e), writes) \in Begun(n)
    BY <1>1, PartStays
  <2> HIDE DEF begin
  <2> QED
    BY <2>1, <2>2, PartsStay
<1> HIDE DEF begin, entry
<1>3. logger \in Inside(Outside, <<>>)
  <2>1. CASE enc = Fresh
    <3>1. enc.buf = <<>> /\ n = 0 /\ 0 + 1 = 1
      BY <2>1 DEF Fresh
    <3>2. logger = entry
      BY <3>1
    <3>3. PICK x \in Endings : At(Outside, entry, Place(Line, x))
      BY <1>2 DEF Begun
    <3>4. entry \in LogEncoders /\ entry.openNamespaces + 1 = 1
      BY <1>2, <3>1 DEF Begun
    <3>5. At(Outside, entry, Place(Opened(<<>>, entry.openNamespaces + 1), x))
      BY <3>3, <3>4, Zenon DEF Line
    <3>6. entry \in Inside(Outside, <<>>)
      BY <3>4, <3>5, Zenon DEF Inside
    <3> QED
      BY <3>2, <3>6
  <2>2. CASE Continues(enc)
    <3>1. enc.buf # <<>>
      BY <2>2, ContinuesSomething
    <3>2. Write(AddElementSeparator(entry), enc.buf) \in Inside(Outside, <<>>)
      BY <1>1, <1>2, <2>2, LoggerContinues
    <3> QED
      BY <3>1, <3>2
  <2> QED
    BY <2>1, <2>2
<1> HIDE DEF logger
<1>4. full \in Inside(Outside, <<>>)
  BY <1>3, LinePlaces, FieldsStay
<1>5. EncodeEntry(enc, parts, writes, fields, stack)
        = (IF stack THEN AppendString(AddKey(CloseOpenNamespaces(full))) ELSE CloseOpenNamespaces(full)).buf \o <<"}">>
  BY Zenon DEF EncodeEntry, full, logger, entry, begin
<1> HIDE DEF full
<1> QED
  BY <1>4, <1>5, LineEnds, Zenon

LogInv ==
    /\ encoder \in LogEncoders /\ withs \in Nat /\ encoder.openNamespaces <= withs
    /\ encoder = Fresh \/ Continues(encoder)
    /\ line # <<>> => line[1] = "{" /\ Reading(Outside, line) = Place(<<>>, "more")

LEMMA LogStarts == LogInit => LogInv
<1> SUFFICES ASSUME LogInit PROVE LogInv
  OBVIOUS
<1>1. encoder = Fresh /\ withs = 0 /\ line = <<>>
  BY DEF LogInit, Fresh
<1>2. <<>> \in Seq(Tokens) /\ 0 \in Nat /\ 0 <= 0
  OBVIOUS
<1>3. Fresh \in LogEncoders /\ Fresh.openNamespaces = 0
  BY <1>2 DEF Fresh, LogEncoders
<1> QED
  BY <1>1, <1>2, <1>3, Zenon DEF LogInv

LEMMA LogMoves == LogInv /\ [LogNext]_logVars => LogInv'
<1> SUFFICES ASSUME LogInv, [LogNext]_logVars PROVE LogInv'
  OBVIOUS
<1>1. CASE UNCHANGED logVars
  BY <1>1, Zenon DEF LogInv, logVars
<1>2. ASSUME NEW f \in LogFields, With(f) PROVE LogInv'
  <2>1. encoder' = AddTo(encoder, f) /\ withs' = withs + 1 /\ line' = <<>>
    BY <1>2 DEF With
  <2>2. f \in FieldTypes
    BY LogAssumption
  <2>3. encoder \in LogEncoders /\ withs \in Nat /\ encoder.openNamespaces <= withs /\ encoder.openNamespaces \in Nat
    BY Zenon DEF LogInv, LogEncoders
  <2>4. ASSUME NEW x \in KeyPlaces
        PROVE  /\ encoder' \in Inside(Place(Line, x), <<>>)
               /\ encoder'.openNamespaces \in {encoder.openNamespaces, encoder.openNamespaces + 1}
    <3>1. encoder \in Room(Place(Line, x), <<>>)
      <4>1. CASE encoder = Fresh
        BY <4>1, FreshHasRoom, Zenon
      <4>2. CASE Continues(encoder)
        <5>1. encoder \in Inside(Place(Line, x), <<>>)
          BY <4>2, Zenon DEF Continues
        <5> QED
          BY <5>1, LinePlaces, InsideHasRoom
      <4> QED
        BY <4>1, <4>2, Zenon DEF LogInv
    <3>2. /\ AddTo(encoder, f) \in Inside(Place(Line, x), <<>>)
          /\ AddTo(encoder, f).openNamespaces \in {encoder.openNamespaces, encoder.openNamespaces + 1}
      BY <2>2, <3>1, LinePlaces, FieldStays
    <3> QED
      BY <2>1, <3>2
  <2>5. Continues(encoder)'
    BY <2>4, Zenon DEF Continues
  <2>6. encoder' \in LogEncoders /\ encoder'.openNamespaces \in {encoder.openNamespaces, encoder.openNamespaces + 1}
    <3>1. "key" \in KeyPlaces
      BY Zenon DEF KeyPlaces
    <3> QED
      BY <2>4, <3>1, Zenon DEF Inside
  <2>7. withs' \in Nat /\ encoder'.openNamespaces <= withs'
    BY <2>1, <2>3, <2>6
  <2> QED
    BY <2>1, <2>5, <2>6, <2>7, Zenon DEF LogInv
<1>3. ASSUME NEW f \in LogFields, NEW g \in LogFields, NEW n \in 0..2, NEW parts \in {0, 2},
             NEW writes \in BOOLEAN, NEW stack \in BOOLEAN, Log(parts, writes, SubSeq(<<f, g>>, 1, n), stack)
      PROVE  LogInv'
  <2> DEFINE fields == SubSeq(<<f, g>>, 1, n)
  <2>1. line' = EncodeEntry(encoder, parts, writes, fields, stack) /\ encoder' = encoder /\ withs' = withs
    BY <1>3, Zenon DEF Log
  <2>2. f \in FieldTypes /\ g \in FieldTypes /\ parts \in Nat
    BY LogAssumption
  <2>3. fields \in Seq(FieldTypes)
    <3>1. <<f, g>> \in Seq(FieldTypes) /\ Len(<<f, g>>) = 2
      BY <2>2
    <3>2. ASSUME NEW S, NEW u \in Seq(S), Len(u) = 2 PROVE SubSeq(u, 1, n) \in Seq(S)
      BY <3>2
    <3> QED
      BY <3>1, <3>2
  <2>4. encoder = Fresh \/ Continues(encoder)
    BY Zenon DEF LogInv
  <2> HIDE DEF fields
  <2>5. line'[1] = "{" /\ Reading(Outside, line') = Place(<<>>, "more")
    <3> DEFINE whole == EncodeEntry(encoder, parts, writes, fields, stack)
    <3>1. whole[1] = "{" /\ Reading(Outside, whole) = Place(<<>>, "more")
      BY <2>2, <2>3, <2>4, EntryIsLine
    <3> HIDE DEF whole
    <3> QED
      BY <2>1, <3>1, Zenon DEF whole
  <2> QED
    BY <2>1, <2>5, Zenon DEF LogInv, Continues
<1> QED
  BY <1>1, <1>2, <1>3, Zenon DEF LogNext

\* Whatever namespaces, arrays, objects and failing values With and Log are given,
\* every line is one JSON object (json_with_context_encoder.go:388-458).
THEOREM LineReadsAsJson == LogSpec => []LineIsWellFormed
<1>1. LogInv => LineIsWellFormed
  BY Zenon DEF LogInv, LineIsWellFormed, Reading, Place, Outside
<1> QED
  BY <1>1, LogStarts, LogMoves, PTL DEF LogSpec
=============================================================================
