------------------------------ MODULE Requests ------------------------------
(***************************************************************************)
(* A request on its way through the middlewares of Engine.initGin:         *)
(* tagsSetter, exceptionCapture, recovery, sentrygin, localization, and a  *)
(* handler, of which each may fail.  The deferred functions of sentry.go   *)
(* run in the opposite order.  An error is "public" or "private" (one of   *)
(* each), a panic is reported as "panic".                                  *)
(***************************************************************************)
EXTENDS Localizer

CONSTANT Headers  \* the tags the requests ask for

ASSUME HeadersAssumption == Headers \subseteq Tags

VARIABLES
    place,        \* where a request is
    header,    \* the language matched to its Accept-Language
    ctxErrors, \* c.Errors
    panic,     \* the panic on its way
    status,    \* of the response, 0 before something is written
    reported,  \* how often each failure was sent to Sentry
    happened,  \* history: what failed in the handler or before it
    uploading  \* history: was the language of the shared localizer changed?

requestVars == <<localizerVars, place, header, ctxErrors, panic, status, reported, happened, uploading>>
pathVars == <<header, ctxErrors, status, reported, happened>>

Failures == {"public", "private", "panic"}
PanicKinds == {"none", "panic", "broken pipe", "lookup"}
Ends == {"answered", "dropped"}

RequestsTypeOK ==
    /\ LocalizerTypeOK
    /\ place \in [Requests -> {"new", "localization", "handler", "sentrygin", "recovery", "capture"} \cup Ends]
    /\ header \in [Requests -> Tags]
    /\ ctxErrors \in [Requests -> SUBSET Failures]
    /\ panic \in [Requests -> PanicKinds]
    /\ status \in [Requests -> {0, 200, 500}]
    /\ reported \in [Requests -> [Failures -> Nat]]
    /\ happened \in [Requests -> SUBSET Failures]
    /\ uploading \in BOOLEAN

RequestsInit ==
    /\ LocalizerInit
    /\ place = [r \in Requests |-> "new"]
    /\ header \in [Requests -> Headers]
    /\ ctxErrors = [r \in Requests |-> {}]
    /\ panic = [r \in Requests |-> "none"]
    /\ status = [r \in Requests |-> 0]
    /\ reported = [r \in Requests |-> [f \in Failures |-> 0]]
    /\ happened = [r \in Requests |-> {}]
    /\ uploading = FALSE

Move(r, from, to) == place[r] = from /\ place' = [place EXCEPT ![r] = to]

Report(r, failures) ==
    reported' = [reported EXCEPT ![r] = [f \in Failures |-> IF f \in failures THEN @[f] + 1 ELSE @[f]]]

\* c.JSON: the first status written is the one the client gets.
Respond(r, s) == status' = [status EXCEPT ![r] = IF @ = 0 THEN s ELSE @]

-----------------------------------------------------------------------------
\* The middlewares are entered; tagsSetter finds no hub in the context yet.
Arrive(r) ==
    /\ Move(r, "new", "localization")
    /\ LocalizationMiddleware(r, header[r])
    /\ UNCHANGED <<bundles, tag, loadMutex, choosing, pathVars, panic, uploading>>

CallHandler(r) ==
    /\ Settled(r) /\ Move(r, "localization", "handler")
    /\ GetContextLocalizer(r, header[r])
    /\ UNCHANGED <<bundles, tag, loadMutex, choosing, pathVars, panic, uploading>>

\* The handler returns or panics, with errors in the context, with or without an answer.
HandlerEnds(r) ==
    /\ Settled(r) /\ Move(r, "handler", "sentrygin")
    /\ \E errs \in {{}, {"public"}, {"private"}}, p \in {"none", "panic", "broken pipe"}, s \in {0, 200} :
        /\ ctxErrors' = [ctxErrors EXCEPT ![r] = errs]
        /\ panic' = [panic EXCEPT ![r] = p]
        /\ status' = [status EXCEPT ![r] = s]
        /\ happened' = [happened EXCEPT ![r] = errs \cup (IF p = "none" THEN {} ELSE {"panic"})]
    /\ UNCHANGED <<localizerVars, header, reported, uploading>>

\* The bundle of its language cannot be loaded.
LocalizationPanics(r) ==
    /\ choosing[r] = "panics" /\ place[r] \in {"localization", "handler"}
    /\ place' = [place EXCEPT ![r] = "sentrygin"]
    /\ choosing' = [choosing EXCEPT ![r] = "done"]
    /\ panic' = [panic EXCEPT ![r] = "panic"]
    /\ happened' = [happened EXCEPT ![r] = {"panic"}]
    /\ UNCHANGED <<bundles, tag, loadMutex, toSet, header, ctxErrors, status, reported, uploading>>

\* sentrygin (a library) reports a panic, but no broken pipe, and panics again.
SentryGin(r) ==
    /\ Move(r, "sentrygin", "recovery")
    /\ Report(r, IF panic[r] = "panic" THEN {"panic"} ELSE {})
    /\ UNCHANGED <<localizerVars, header, ctxErrors, panic, status, happened, uploading>>

\* GetLocalizedMessage of the shared localizer, whose language may have no bundle
\* yet: getLocalizer returns nil then, and its use panics.
NoMessage == ~Found(Shared) /\ (StoreBundle(Shared) \/ UNCHANGED bundles)

Faulty_BrokenPipe(r) ==
    /\ panic[r] = "broken pipe"
    /\ ctxErrors' = [ctxErrors EXCEPT ![r] = @ \cup {"panic"}]
    /\ Report(r, {"panic"})
    /\ panic' = [panic EXCEPT ![r] = "none"]
    /\ UNCHANGED <<bundles, status>>

\* A dead connection cannot be written to; the panic becomes an error.
BrokenPipe(r) ==
    /\ panic[r] = "broken pipe"
    /\ ctxErrors' = [ctxErrors EXCEPT ![r] = @ \cup {"panic"}]
    /\ panic' = [panic EXCEPT ![r] = "none"]
    /\ UNCHANGED <<bundles, status, reported>>

PanicIsAnswered(r) ==
    /\ panic[r] = "panic"
    /\ \/ Found(Shared) /\ Respond(r, 500) /\ panic' = [panic EXCEPT ![r] = "none"] /\ UNCHANGED bundles
       \/ NoMessage /\ panic' = [panic EXCEPT ![r] = "lookup"] /\ UNCHANGED status
    /\ UNCHANGED <<ctxErrors, reported>>

Recovery(r) ==
    /\ Move(r, "recovery", "capture")
    /\ \/ panic[r] = "none" /\ UNCHANGED <<bundles, ctxErrors, panic, status, reported>>
       \/ BrokenPipe(r) \/ PanicIsAnswered(r)
    /\ UNCHANGED <<tag, loadMutex, toSet, choosing, header, happened, uploading>>

\* When exceptionCapture has something to say, and when the default error is part of it.
Captures(r) == ctxErrors[r] # {} \/ panic[r] # "none"
NeedsMessage(r) == ctxErrors[r] # {"public"} \/ panic[r] # "none"

\* It reports the errors, answers, and panics on with what it recovered.
ExceptionCapture(r) ==
    /\ place[r] = "capture"
    /\ IF ~Captures(r)
       THEN place' = [place EXCEPT ![r] = "answered"] /\ UNCHANGED <<reported, status, bundles>>
       ELSE /\ Report(r, ctxErrors[r])
            /\ \/ /\ NeedsMessage(r) => Found(Shared)
                  /\ Respond(r, 500)
                  /\ place' = [place EXCEPT ![r] = IF panic[r] = "none" THEN "answered" ELSE "dropped"]
                  /\ UNCHANGED bundles
               \/ /\ NeedsMessage(r) /\ NoMessage
                  /\ place' = [place EXCEPT ![r] = "dropped"] /\ UNCHANGED status
    /\ UNCHANGED <<tag, loadMutex, toSet, choosing, header, ctxErrors, panic, happened, uploading>>

RequestStep(r) ==
    \/ (LocalizerStep(r) /\ UNCHANGED <<place, pathVars, panic, uploading>>)
    \/ Arrive(r) \/ CallHandler(r) \/ HandlerEnds(r) \/ LocalizationPanics(r)
    \/ SentryGin(r) \/ Recovery(r) \/ ExceptionCapture(r)

UploadStarts == Upload /\ uploading' = TRUE /\ UNCHANGED <<place, pathVars, panic>>
UploaderStep == LocalizerStep(Shared) /\ UNCHANGED <<place, pathVars, panic, uploading>>

RequestsNext == (\E r \in Requests : RequestStep(r)) \/ UploadStarts \/ UploaderStep

RequestsSpec == RequestsInit /\ [][RequestsNext]_requestVars

-----------------------------------------------------------------------------
(* Properties. *)

\* Whatever others do with their localizers meanwhile, the handler of a request
\* finds its localizer in the root of the language it asked for, with a bundle.
OwnLanguage ==
    \A r \in Requests : place[r] = "handler" /\ Settled(r) => tag[Clone(r)] = Root[header[r]] /\ Found(Clone(r))

\* A failure is sent to Sentry once, by sentrygin or by exceptionCapture, whichever
\* way the request went through the deferred functions, and it is answered: a request
\* loses its connection only if somebody changed the language of the shared localizer,
\* so that recovery found no message.
FailuresAreTold ==
    \A r \in Requests : place[r] \in Ends =>
        /\ \A f \in Failures : reported[r][f] = IF f \in happened[r] THEN 1 ELSE 0
        /\ happened[r] # {} => (status[r] # 0 /\ place[r] = "answered") \/ uploading

\* Every request ends, also behind one whose load panicked with loadMutex held, and
\* beside an uploader that takes loadMutex again and again.
EveryRequestEnds == \A r \in Requests : place[r] = "localization" ~> place[r] \in Ends
=============================================================================
