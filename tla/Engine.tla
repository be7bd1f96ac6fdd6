------------------------------- MODULE Engine -------------------------------
(***************************************************************************)
(* src/core/engine.go: an application calls the methods of its Engine, one *)
(* after the other, in any order.  A call may panic; the application may   *)
(* recover and go on, Prepare being left in the middle.  A logger is       *)
(* "default", Prepare's own, or "custom", the application's; "nil" is none.*)
(***************************************************************************)
EXTENDS Integers, Sequences, FiniteSets, SequencesExt

VARIABLES
    configured, \* Engine.Config
    engine,     \* its logger, prepared, ginEngine, Sessions, csrf, httpClient, serving
    prepareDone, \* the steps of Prepare whose result the engine has
    sentrySdk,  \* what the sync.Once of InitSentrySDK has seen
    holds,      \* the logger each part of the application has got, "absent" for no part
    panicked,   \* the method that has just panicked, or "none"
    lateLogger  \* history: was SetLogger called after Prepare had chosen?

engineVars == <<configured, engine, prepareDone, sentrySdk, holds, panicked, lateLogger>>

\* The steps of Prepare that can fail, in their order; the logger is chosen before the last.
PrepareSteps == <<"translations", "preload", "database", "sentry">>
Parts == {"Sentry", "Utils", "JobManager", "Zabbix", "gin"}
Loggers == {"nil", "default", "custom"}

EngineTypeOK ==
    /\ configured \in BOOLEAN /\ lateLogger \in BOOLEAN
    /\ engine \in [logger : Loggers, prepared : BOOLEAN, gin : BOOLEAN, routes : BOOLEAN,
                   sessions : BOOLEAN, csrf : BOOLEAN, client : {"http.DefaultClient", "its own"},
                   serving : BOOLEAN]
    /\ prepareDone \subseteq Range(PrepareSteps)
    /\ sentrySdk \in {"untried", "initialized", "failed"}
    /\ holds \in [Parts -> Loggers \cup {"absent"}]
    /\ panicked \in {"none", "Prepare", "ConfigureRouter", "Run", "BuildHTTPClient", "InitCSRF",
                     "VerifyCSRFMiddleware", "GenerateCSRFMiddleware"}

\* New.
EngineInit ==
    /\ configured = FALSE /\ lateLogger = FALSE
    /\ engine = [logger |-> "nil", prepared |-> FALSE, gin |-> FALSE, routes |-> FALSE,
                 sessions |-> FALSE, csrf |-> FALSE, client |-> "http.DefaultClient", serving |-> FALSE]
    /\ prepareDone = {}
    /\ sentrySdk = "untried"
    /\ holds = [p \in Parts |-> "absent"]
    /\ panicked = "none"

Returns == ~engine.serving /\ panicked' = "none"
Refuses(method) ==
    /\ ~engine.serving /\ panicked' = method
    /\ UNCHANGED <<configured, engine, prepareDone, sentrySdk, holds, lateLogger>>
Gives(part, log) == holds' = [holds EXCEPT ![part] = log]

LoadConfig ==
    /\ ~configured /\ Returns /\ configured' = TRUE
    /\ UNCHANGED <<engine, prepareDone, sentrySdk, holds, lateLogger>>

-----------------------------------------------------------------------------
\* SetLogger keeps the first logger until the engine is prepared.
Chosen(log) == IF ~engine.prepared /\ engine.logger # "nil" THEN engine.logger ELSE log

SetLogger ==
    /\ Returns
    /\ engine' = [engine EXCEPT !.logger = Chosen("custom")]
    /\ lateLogger' = (lateLogger \/ engine.prepared)
    /\ UNCHANGED <<configured, prepareDone, sentrySdk, holds>>

PrepareRefused == (engine.prepared \/ ~configured) /\ Refuses("Prepare")

Faulty_SentryGetsLogger == holds' = [holds EXCEPT !["Sentry"] = "default", !["Utils"] = "default"]

\* Sentry and Utils get the logger SetLogger has kept, or the new default one.
SentryGetsLogger == holds' = [holds EXCEPT !["Sentry"] = Chosen("default"), !["Utils"] = Chosen("default")]

\* The once of InitSentrySDK is spent also by an attempt that panicked.
Prepare ==
    /\ configured /\ ~engine.prepared /\ Returns
    /\ prepareDone' = Range(PrepareSteps)
    /\ sentrySdk' = IF sentrySdk = "untried" THEN "initialized" ELSE sentrySdk
    /\ engine' = [engine EXCEPT !.logger = Chosen("default"), !.prepared = TRUE]
    /\ SentryGetsLogger
    /\ UNCHANGED <<configured, lateLogger>>

\* A step fails; what the steps before it have set stays.
PrepareFails ==
    /\ configured /\ ~engine.prepared
    /\ ~engine.serving /\ panicked' = "Prepare"
    /\ \E k \in DOMAIN PrepareSteps :
        /\ PrepareSteps[k] = "sentry" => sentrySdk = "untried"
        /\ prepareDone' = prepareDone \cup Range(SubSeq(PrepareSteps, 1, k - 1))
        /\ IF PrepareSteps[k] = "sentry"
           THEN SentryGetsLogger /\ sentrySdk' = "failed"
                /\ engine' = [engine EXCEPT !.logger = Chosen("default")]
           ELSE UNCHANGED <<sentrySdk, holds, engine>>
    /\ UNCHANGED <<configured, lateLogger>>

\* Router panics in an engine that is not prepared.
RouterReady == engine.prepared

\* The gin engine with the middlewares of Sentry and the localizer; made once.
InitGin(e) == [e EXCEPT !.gin = TRUE]

\* ConfigureRouter, or Router.
ConfigureRouter ==
    /\ RouterReady /\ Returns
    /\ engine' = [InitGin(engine) EXCEPT !.routes = TRUE]
    /\ UNCHANGED <<configured, prepareDone, sentrySdk, holds, lateLogger>>

RouterRefused == ~RouterReady /\ (Refuses("ConfigureRouter") \/ Refuses("Run"))

\* Run serves the requests from now on.
Run ==
    /\ RouterReady /\ Returns
    /\ engine' = [InitGin(engine) EXCEPT !.serving = TRUE]
    /\ UNCHANGED <<configured, prepareDone, sentrySdk, holds, lateLogger>>

-----------------------------------------------------------------------------
\* The job manager is made once, with the logger of that moment.
MakeJobManager ==
    /\ configured /\ Returns
    /\ IF holds["JobManager"] = "absent" THEN Gives("JobManager", engine.logger) ELSE UNCHANGED holds
    /\ UNCHANGED <<configured, engine, prepareDone, sentrySdk, lateLogger>>

\* Zabbix too, when its interval is configured.
UseZabbix ==
    /\ configured /\ Returns
    /\ IF holds["Zabbix"] = "absent" THEN Gives("Zabbix", engine.logger) ELSE UNCHANGED holds
    /\ UNCHANGED <<configured, engine, prepareDone, sentrySdk, lateLogger>>

HijackGinLogs ==
    /\ Returns
    /\ IF engine.logger # "nil" THEN Gives("gin", engine.logger) ELSE UNCHANGED holds
    /\ UNCHANGED <<configured, engine, prepareDone, sentrySdk, lateLogger>>

\* BuildHTTPClient, or SetHTTPClient.
BuildHTTPClient ==
    /\ Returns
    /\ engine' = [engine EXCEPT !.client = "its own"]
    /\ UNCHANGED <<configured, prepareDone, sentrySdk, holds, lateLogger>>

BuildFails == Refuses("BuildHTTPClient")

WithSessions ==
    /\ Returns
    /\ engine' = [engine EXCEPT !.sessions = TRUE]
    /\ UNCHANGED <<configured, prepareDone, sentrySdk, holds, lateLogger>>

InitCSRF ==
    /\ engine.sessions /\ Returns
    /\ engine' = [engine EXCEPT !.csrf = TRUE]
    /\ UNCHANGED <<configured, prepareDone, sentrySdk, holds, lateLogger>>

CSRFRefused ==
    \/ ~engine.sessions /\ Refuses("InitCSRF")
    \/ ~engine.csrf /\ (Refuses("VerifyCSRFMiddleware") \/ Refuses("GenerateCSRFMiddleware"))

EngineNext ==
    \/ LoadConfig \/ SetLogger \/ PrepareRefused \/ Prepare \/ PrepareFails
    \/ ConfigureRouter \/ RouterRefused \/ Run
    \/ MakeJobManager \/ UseZabbix \/ HijackGinLogs
    \/ BuildHTTPClient \/ BuildFails \/ WithSessions \/ InitCSRF \/ CSRFRefused

EngineSpec == EngineInit /\ [][EngineNext]_engineVars

-----------------------------------------------------------------------------
(* Properties. *)

\* Nothing is served before every step of Prepare has been done, whatever failed and
\* was tried again; only Sentry's initialization is not repeated after it failed.
ServesOnlyPrepared ==
    engine.serving => /\ prepareDone = Range(PrepareSteps) /\ engine.gin
                      /\ engine.logger # "nil" /\ sentrySdk # "untried"

\* Once prepared, Sentry and Utils write to the logger of the engine, also one the
\* application set before; a logger set later does not reach them.
OneLogger ==
    engine.prepared /\ ~lateLogger => holds["Sentry"] = engine.logger /\ holds["Utils"] = engine.logger

\* A prepared engine can be relied on, whatever was called before, failed and was tried
\* again (engine.go:128-169, 240-278).
PreparedMeansReady == ServesOnlyPrepared /\ OneLogger
=============================================================================
