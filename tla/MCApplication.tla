---------------------------- MODULE MCApplication ----------------------------
(* Small instances of the parts of an application that share no state, one    *)
(* after the other: part says whose steps a behavior consists of, and the     *)
(* variables of the others keep their first values.                           *)
EXTENDS JobManager, Migrations, Requests, Csrf, Engine, LogLine, LogText,
        DefaultLogger, HttpClient, Scopes, DomainStore, TLC

CONSTANTS g1, g2, call1, j1, j2, j3, r1, r2, v1, v2

VARIABLE part

AllParts == {"registry", "migrations", "requests", "csrf", "engine", "log",
             "text", "logger", "http", "scopes", "domains"}

-----------------------------------------------------------------------------
(* Values of the constants. *)

ThreeJobs == <<j1, j2, j3>>
ThreeBuilds == {{1}, {1, 2}, {1, 2, 3}}
ASSUME ApplicationAssumption == BuildsGrow
Russian == <<"ru", "en">>
RootOfTags == [t \in {"en", "ru", "ruMD"} |-> IF t = "ruMD" THEN "ru" ELSE t]
FieldsOfEachType ==
    {[type |-> t, of |-> <<>>] : t \in {"scalar", "unmarshalable", "namespace"}}
        \cup {[type |-> "object", of |-> <<"namespace", "scalar">>],
              [type |-> "array", of |-> <<"scalar", "namespace">>]}
ShortTexts == UNION {[1..n -> Bytes] : n \in 0..4}
ApiHost == {<<"api.crm.io", "crm.io">>}
SecondLevels == [h \in {"eu.crm.io", "crm.io"} |-> IF h = "eu.crm.io" THEN "crm.io" ELSE "io"]
FourTunnels ==
    {[hosts |-> {"crm.io"}, ipset |-> {}, proxy |-> "proxy1"],
     [hosts |-> {}, ipset |-> {"net1"}, proxy |-> "proxy2"],
     [hosts |-> {"crm.io"}, ipset |-> {"net1"}, proxy |-> "proxy1"],
     [hosts |-> {"crm.io"}, ipset |-> {}, proxy |-> "proxy2"]}

-----------------------------------------------------------------------------
\* A part that is not looked at starts in one state.
ApplicationInit ==
    /\ part \in AllParts
    /\ ManagerInit /\ RequestsInit /\ EngineInit /\ LogInit
    /\ DefaultLoggerInit /\ HttpInit
    /\ DomainsInit /\ (part # "domains" => \A v \in Validations : urlHost[v] = "eu.crm.io")
    /\ MigrationsInit /\ (part # "migrations" => build = {1})
    /\ CsrfInit /\ (part # "csrf" => fixedSalt /\ sharedKeys /\ session.by = 1 /\ page.by = 1)
    /\ TextInit /\ (part # "text" => text.plain = <<>>)
    /\ ScopesInit /\ (part # "scopes" => given = [scopes |-> <<>>, required |-> <<>>])

Only(p) ==
    /\ part = p /\ part' = p
    /\ p # "registry" => UNCHANGED managerVars
    /\ p # "migrations" => UNCHANGED migrationVars
    /\ p # "requests" => UNCHANGED requestVars
    /\ p # "csrf" => UNCHANGED csrfVars
    /\ p # "engine" => UNCHANGED engineVars
    /\ p # "log" => UNCHANGED logVars
    /\ p # "text" => UNCHANGED text
    /\ p # "logger" => UNCHANGED loggerVars
    /\ p # "http" => UNCHANGED httpVars
    /\ p # "scopes" => UNCHANGED scopeVars
    /\ p # "domains" => UNCHANGED domainVars

ApplicationNext ==
    \/ Only("registry") /\ ManagerNext
    \/ Only("migrations") /\ MigrationsNext
    \/ Only("requests") /\ RequestsNext
    \/ Only("csrf") /\ CsrfNext
    \/ Only("engine") /\ EngineNext
    \/ Only("log") /\ LogNext
    \/ Only("text") /\ WriteText
    \/ Only("logger") /\ DefaultLoggerNext
    \/ Only("http") /\ HttpNext
    \/ Only("scopes") /\ ScopesNext
    \/ Only("domains") /\ DomainsNext

applicationVars ==
    <<part, managerVars, migrationVars, requestVars, csrfVars, engineVars, logVars,
      text, loggerVars, httpVars, scopeVars, domainVars>>

\* loadMutex is given to a goroutine that waits, whoever asks for it again.
LocksMutex(g) ==
    LockLoadMutex(g) /\ UNCHANGED <<place, pathVars, panic, uploading>>

\* The goroutines of JobManager and of the requests run.
ApplicationSpec ==
    /\ ApplicationInit /\ [][ApplicationNext]_applicationVars
    /\ \A r \in Calls, i \in Index : WF_managerVars(part = "registry" /\ GoroutineStep(r, i))
    /\ \A r \in Requests : WF_requestVars(part = "requests" /\ RequestStep(r))
    /\ WF_requestVars(part = "requests" /\ UploaderStep)
    /\ \A g \in Localizers : SF_requestVars(part = "requests" /\ LocksMutex(g))

\* Every variable of these parts has its type.
ApplicationTypeOK ==
    /\ ManagerTypeOK /\ MigrationsTypeOK /\ RequestsTypeOK /\ CsrfTypeOK
    /\ EngineTypeOK /\ DefaultLoggerTypeOK /\ HttpTypeOK /\ DomainsTypeOK

\* A line of the log is one JSON object with the bytes and the latest fields it was
\* given (json_with_context_encoder.go:388-458, 570-644; default.go:70-143).
LogSaysWhatWasLogged == LineIsWellFormed /\ TextSurvives /\ LatestFieldLast
=============================================================================
