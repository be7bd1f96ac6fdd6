----------------------------- MODULE DomainStore -----------------------------
(***************************************************************************)
(* src/core/validator.go: the URLs of requests are validated side by side  *)
(* against the domains of two stores.  A store fetches its domains when    *)
(* the last fetch is an hour ago, whoever finds it so, and holds its mutex *)
(* while the source (src/core/domains.go) answers.  Domains are numbered   *)
(* by their fetches.                                                       *)
(***************************************************************************)
EXTENDS Integers, Sequences, FiniteSets

CONSTANTS
    Validations, \* the calls of isDomainValid
    DomainNames, \* what a source may name
    UrlHosts,    \* the hosts of URLs
    SecondLevel  \* strings.Join(strings.Split(host, ".")[1:], "."), a function of a host

ASSUME NobodyAssumption == "nobody" \notin Validations

Stores == {"crm", "box"}

VARIABLES
    domains,    \* of each store: the number of the fetch, and names
    recent,     \* of each store: is lastUpdate less than an hour ago?
    writer,     \* who holds the mutex of a store for writing, or "nobody"
    validation, \* where a call is: step, and the store it asks
    urlHost,    \* the host of its URL
    expired,    \* history: the newest fetch a call knew to be too old, of each store
    used        \* history: the fetch it has matched with, 0 for none

domainVars == <<domains, recent, writer, validation, urlHost, expired, used>>

Steps == {"new", "match", "wants lock", "fetches", "stamps", "reads", "valid", "invalid"}

DomainsTypeOK ==
    /\ domains \in [Stores -> [number : Nat, names : SUBSET DomainNames]]
    /\ recent \in [Stores -> BOOLEAN]
    /\ writer \in [Stores -> Validations \cup {"nobody"}]
    /\ validation \in [Validations -> [step : Steps, store : Stores]]
    /\ expired \in [Validations -> [Stores -> Int]] /\ used \in [Validations -> [Stores -> Nat]]
    /\ \A v \in Validations, s \in Stores :
        writer[s] = v <=> validation[v].store = s /\ validation[v].step \in {"fetches", "stamps"}

DomainsInit ==
    /\ domains = [s \in Stores |-> [number |-> 0, names |-> {}]]
    /\ recent = [s \in Stores |-> FALSE]
    /\ writer = [s \in Stores |-> "nobody"]
    /\ validation = [v \in Validations |-> [step |-> "new", store |-> "crm"]]
    /\ urlHost \in [Validations -> UrlHosts]
    /\ expired = [v \in Validations |-> [s \in Stores |-> -1]]
    /\ used = [v \in Validations |-> [s \in Stores |-> 0]]

Goes(v, from, step) ==
    /\ validation[v].step = from
    /\ validation' = [validation EXCEPT ![v].step = step]

-----------------------------------------------------------------------------
\* The URL has to be https, with a host and nothing else.
CheckURL(v) ==
    /\ Goes(v, "new", "match") \/ Goes(v, "new", "invalid")
    /\ UNCHANGED <<domains, recent, writer, urlHost, expired, used>>

Faulty_Match(v, s) ==
    /\ validation[v].store = s
    /\ Goes(v, "match", IF recent[s] THEN "reads" ELSE "wants lock")
    /\ expired' = [expired EXCEPT ![v][s] = domains[s].number - (IF recent[s] THEN 1 ELSE 0)]
    /\ recent' = [recent EXCEPT ![s] = TRUE]
    /\ UNCHANGED <<domains, writer, urlHost, used>>

\* lastUpdate is looked at without the mutex.
Match(v, s) ==
    /\ validation[v].store = s
    /\ Goes(v, "match", IF recent[s] THEN "reads" ELSE "wants lock")
    /\ expired' = [expired EXCEPT ![v][s] = domains[s].number - (IF recent[s] THEN 1 ELSE 0)]
    /\ UNCHANGED <<domains, recent, writer, urlHost, used>>

Lock(v, s) ==
    /\ validation[v].store = s /\ writer[s] = "nobody"
    /\ Goes(v, "wants lock", "fetches")
    /\ writer' = [writer EXCEPT ![s] = v]
    /\ UNCHANGED <<domains, recent, urlHost, expired, used>>

\* The answer of the source, or nothing, which is stored as well.
Update(v, s, names) ==
    /\ validation[v].store = s
    /\ Goes(v, "fetches", "stamps")
    /\ domains' = [domains EXCEPT ![s] = [number |-> @.number + 1, names |-> names]]
    /\ UNCHANGED <<recent, writer, urlHost, expired, used>>

\* lastUpdate is set, then the mutex unlocked.
Stamp(v, s) ==
    /\ validation[v].store = s
    /\ Goes(v, "stamps", "reads")
    /\ recent' = [recent EXCEPT ![s] = TRUE]
    /\ writer' = [writer EXCEPT ![s] = "nobody"]
    /\ UNCHANGED <<domains, urlHost, expired, used>>

\* The matcher of the store.
Matcher(s, host, names) == (IF s = "crm" THEN SecondLevel[host] ELSE host) \in names

\* With the mutex for reading: the first store's answer is final when it is yes.
Read(v, s) ==
    /\ validation[v] = [step |-> "reads", store |-> s] /\ writer[s] = "nobody"
    /\ used' = [used EXCEPT ![v][s] = domains[s].number]
    /\ validation' = [validation EXCEPT ![v] =
            IF Matcher(s, urlHost[v], domains[s].names) THEN [@ EXCEPT !.step = "valid"]
            ELSE IF s = "crm" THEN [step |-> "match", store |-> "box"]
            ELSE [@ EXCEPT !.step = "invalid"]]
    /\ UNCHANGED <<domains, recent, writer, urlHost, expired>>

HourPasses(s) ==
    /\ recent' = [recent EXCEPT ![s] = FALSE]
    /\ UNCHANGED <<domains, writer, validation, urlHost, expired, used>>

DomainsNext ==
    \/ \E v \in Validations : CheckURL(v)
    \/ \E v \in Validations, s \in Stores :
        \/ Match(v, s) \/ Lock(v, s) \/ Stamp(v, s) \/ Read(v, s)
        \/ \E names \in SUBSET DomainNames : Update(v, s, names)
    \/ \E s \in Stores : HourPasses(s)

DomainsSpec == DomainsInit /\ [][DomainsNext]_domainVars

-----------------------------------------------------------------------------
\* No URL is judged by domains that were too old when its validation asked for them,
\* whoever else fetches, waits or reads meanwhile; and a URL is refused only after both
\* stores were asked, if it was well-formed.
JudgedByFreshDomains ==
    \A v \in Validations :
        /\ \A s \in Stores : used[v][s] # 0 => used[v][s] > expired[v][s]
        /\ \A s \in Stores : validation[v].step \in {"valid", "invalid"} /\ expired[v][s] # -1 => used[v][s] # 0
        /\ validation[v].step = "invalid" => (used[v]["crm"] = 0 <=> used[v]["box"] = 0)
=============================================================================
