-------------------------- MODULE ApplicationProofs --------------------------
(***************************************************************************)
(* Proofs about what a gin engine does for its requests.  Requests: each   *)
(* is answered in its own language, and whatever fails is told once.  Csrf:*)
(* the page of a session is accepted.  Engine: whatever an application     *)
(* calls, in whatever order and whatever fails on the way, a prepared      *)
(* engine is ready.  At last the parts are put together: the application   *)
(* implements the specification of each of them, so that their theorems    *)
(* hold of it.                                                             *)
(***************************************************************************)
EXTENDS MCApplication, JobProofs, UtilityProofs, TLAPS

-----------------------------------------------------------------------------
(* Requests: the inductive invariant. *)

\* Before the deferred functions nothing has happened to a request; each of them then
\* keeps what was sent to Sentry, what is still to be sent and what happened together.
Told(r) ==
    /\ place[r] \in {"new", "localization", "handler"} =>
        /\ ctxErrors[r] = {} /\ happened[r] = {} /\ panic[r] = "none"
        /\ \A f \in Failures : reported[r][f] = 0
    /\ place[r] = "sentrygin" =>
        /\ panic[r] # "lookup" /\ "panic" \notin ctxErrors[r]
        /\ happened[r] = ctxErrors[r] \cup (IF panic[r] = "none" THEN {} ELSE {"panic"})
        /\ \A f \in Failures : reported[r][f] = 0
    /\ place[r] = "recovery" =>
        /\ panic[r] # "lookup" /\ "panic" \notin ctxErrors[r]
        /\ happened[r] = ctxErrors[r] \cup (IF panic[r] = "none" THEN {} ELSE {"panic"})
        /\ \A f \in Failures : reported[r][f] = IF f = "panic" /\ panic[r] = "panic" THEN 1 ELSE 0
    /\ place[r] = "capture" =>
        /\ panic[r] \in {"none", "lookup"} /\ (panic[r] = "lookup" => uploading)
        /\ \A f \in Failures : reported[r][f] = IF f \in happened[r] \ ctxErrors[r] THEN 1 ELSE 0
        /\ ctxErrors[r] \subseteq happened[r]
        /\ happened[r] # {} /\ ~Captures(r) => status[r] # 0
    /\ place[r] \in Ends =>
        /\ \A f \in Failures : reported[r][f] = IF f \in happened[r] THEN 1 ELSE 0
        /\ happened[r] # {} => (status[r] # 0 /\ place[r] = "answered") \/ uploading

\* The shared localizer has a bundle until an uploader chooses a language on it.
SharedInv == ~uploading => Found(Shared) /\ toSet[Shared] = <<>> /\ choosing[Shared] = "done"

\* A request has its bundle once it has loaded it; in the handler the last language
\* to choose is the root of what it asked for.
LanguageInv ==
    \A r \in Requests :
        /\ choosing[r] = "done" /\ place[r] \in {"new", "localization", "handler"} => Found(r)
        /\ place[r] = "handler" /\ choosing[r] # "panics" =>
            IF toSet[r] = <<>> THEN tag[r] = Root[header[r]]
            ELSE toSet[r][Len(toSet[r])] = Root[header[r]]

RequestsInv == RequestsTypeOK /\ SharedInv /\ LanguageInv /\ \A r \in Requests : Told(r)
-----------------------------------------------------------------------------
LEMMA RequestsInitially == RequestsInit => RequestsInv
<1> SUFFICES ASSUME RequestsInit PROVE RequestsInv
  OBVIOUS
<1> USE DEF RequestsInit, LocalizerInit
<1>1. RequestsTypeOK
  <2>1. LocalizerTypeOK
    BY LocalizerAssumption DEF LocalizerTypeOK, Goroutines, Localizers, Shared
  <2>2. reported \in [Requests -> [Failures -> Nat]]
    OBVIOUS
  <2> QED
    BY <2>1, <2>2, HeadersAssumption DEF RequestsTypeOK, PanicKinds
<1>2. Shared \in Localizers
  BY DEF Localizers
<1>3. SharedInv
  BY <1>2 DEF SharedInv, Found, Goroutines
<1>4. LanguageInv
  BY <1>2 DEF LanguageInv, Found, Goroutines, Localizers
<1>5. \A r \in Requests : Told(r)
  BY DEF Told, Ends
<1> QED
  BY <1>1, <1>3, <1>4, <1>5 DEF RequestsInv

\* A step of a SetLanguage under way: the types, and whose language it changes.
LEMMA LocalizerStepTypes ==
    ASSUME LocalizerTypeOK, NEW g \in Localizers, LocalizerStep(g)
    PROVE  /\ LocalizerTypeOK'
           /\ bundles \subseteq bundles'
           /\ choosing[g] = "done" => toSet[g] # <<>>
           /\ \A l \in Localizers \ {g} :
                tag'[l] = tag[l] /\ toSet'[l] = toSet[l] /\ choosing'[l] = choosing[l]
           /\ choosing'[g] = "done" => tag'[g] \in bundles'
           /\ choosing'[g] # "panics" =>
                \/ toSet'[g] = toSet[g] /\ tag'[g] = tag[g] /\ choosing[g] # "panics"
                \/ toSet[g] # <<>> /\ toSet'[g] = Tail(toSet[g]) /\ tag'[g] = Head(toSet[g]) /\ choosing[g] = "done"
<1> USE DEF LocalizerTypeOK, Goroutines, Clone
<1>0. "nobody" \notin Localizers
  BY LocalizerAssumption
<1>1. CASE SetLanguage(g)
  <2>1. toSet[g] \in Seq(Tags) /\ toSet[g] # <<>>
    BY <1>1 DEF SetLanguage
  <2>2. Head(toSet[g]) \in Tags /\ Tail(toSet[g]) \in Seq(Tags)
    BY <2>1, HeadTailProperties
  <2>3. /\ tag' = [tag EXCEPT ![g] = Head(toSet[g])] /\ toSet' = [toSet EXCEPT ![g] = Tail(toSet[g])]
        /\ choosing' = [choosing EXCEPT ![g] = "wants lock"] /\ choosing[g] = "done"
        /\ UNCHANGED <<bundles, loadMutex>>
    BY <1>1 DEF SetLanguage
  <2>4. tag' \in [Localizers -> Tags] /\ toSet' \in [Localizers -> Seq(Tags)]
    BY <2>2, <2>3
  <2> QED
    BY <2>1, <2>3, <2>4
<1>2. CASE LockLoadMutex(g)
  BY <1>0, <1>2 DEF LockLoadMutex
<1>3. CASE LoadTranslations(g)
  BY <1>0, <1>3 DEF LoadTranslations, StoreBundle
<1>4. CASE LoadPanics(g)
  <2>1. <<>> \in Seq(Tags)
    BY EmptySeq
  <2>2. toSet' \in [Localizers -> Seq(Tags)]
    BY <1>4, <2>1 DEF LoadPanics
  <2> QED
    BY <1>0, <1>4, <2>2 DEF LoadPanics
<1> QED
  BY <1>1, <1>2, <1>3, <1>4 DEF LocalizerStep

\* What the actions that choose no language do to the localizers.
LEMMA OtherLocalizerTypes ==
    ASSUME LocalizerTypeOK, NEW g \in Localizers, NEW s \in Seq(Tags),
           \/ toSet' = [toSet EXCEPT ![g] = s] /\ UNCHANGED choosing
           \/ toSet' = [toSet EXCEPT ![g] = s] /\ choosing[g] # "loads" /\ choosing' = [choosing EXCEPT ![g] = "done"]
           \/ UNCHANGED <<toSet, choosing>>
           \/ UNCHANGED toSet /\ choosing[g] # "loads" /\ choosing' = [choosing EXCEPT ![g] = "done"],
           UNCHANGED <<tag, loadMutex>>, bundles' \subseteq Tags
    PROVE  LocalizerTypeOK'
<1>1. toSet' \in [Localizers -> Seq(Tags)]
  BY DEF LocalizerTypeOK, Goroutines
<1>2. choosing' \in [Localizers -> {"done", "wants lock", "loads", "panics"}]
  BY DEF LocalizerTypeOK, Goroutines
<1>3. \A l \in Localizers : choosing'[l] = "loads" <=> choosing[l] = "loads"
  BY DEF LocalizerTypeOK, Goroutines
<1> QED
  BY <1>1, <1>2, <1>3 DEF LocalizerTypeOK, Goroutines

\* The languages of the middleware and of GetContextLocalizer.
LEMMA LanguagesOfRequest ==
    ASSUME RequestsTypeOK, NEW r \in Requests
    PROVE  /\ header[r] \in Tags /\ Root[header[r]] \in Tags
           /\ <<DefaultLanguage, header[r]>> \in Seq(Tags)
           /\ <<header[r]>> \in Seq(Tags) /\ <<header[r], Root[header[r]]>> \in Seq(Tags)
BY LocalizerAssumption DEF RequestsTypeOK

LEMMA ReportIs ==
    ASSUME RequestsTypeOK, NEW r \in Requests, NEW failures, Report(r, failures)
    PROVE  /\ reported' \in [Requests -> [Failures -> Nat]]
           /\ \A q \in Requests \ {r} : reported'[q] = reported[q]
           /\ \A f \in Failures : reported'[r][f] = reported[r][f] + (IF f \in failures THEN 1 ELSE 0)
<1> DEFINE sum == [f \in Failures |-> IF f \in failures THEN reported[r][f] + 1 ELSE reported[r][f]]
<1>1. reported \in [Requests -> [Failures -> Nat]] /\ reported' = [reported EXCEPT ![r] = sum]
  BY DEF RequestsTypeOK, Report
<1>2. \A f \in Failures : reported[r][f] \in Nat /\ sum[f] = reported[r][f] + (IF f \in failures THEN 1 ELSE 0)
  BY <1>1
<1>3. sum \in [Failures -> Nat]
  BY <1>2
<1>4. reported'[r] = sum
  BY <1>1
<1> HIDE DEF sum
<1> QED
  BY <1>1, <1>2, <1>3, <1>4

\* Looking for a message of the shared localizer may store a bundle for its language.
LEMMA BundlesStay ==
    ASSUME RequestsTypeOK, NoMessage \/ UNCHANGED bundles
    PROVE  bundles \subseteq bundles' /\ bundles' \subseteq Tags
<1>1. bundles \subseteq Tags /\ tag \in [Localizers -> Tags] /\ Shared \in Localizers
  BY DEF RequestsTypeOK, LocalizerTypeOK, Localizers
<1> QED
  BY <1>1 DEF NoMessage, StoreBundle

LEMMA RequestTypesKeep ==
    ASSUME RequestsTypeOK, NEW r \in Requests, RequestStep(r)
    PROVE  RequestsTypeOK'
<1> USE DEF Ends
<1>0. LocalizerTypeOK /\ bundles \subseteq Tags /\ r \in Localizers /\ tag \in [Localizers -> Tags]
  <2>1. LocalizerTypeOK
    BY DEF RequestsTypeOK
  <2>2. bundles \subseteq Tags /\ tag \in [Localizers -> Tags]
    BY <2>1 DEF LocalizerTypeOK
  <2> QED
    BY <2>1, <2>2 DEF Localizers
<1>1. CASE LocalizerStep(r) /\ UNCHANGED <<place, pathVars, panic, uploading>>
  BY <1>0, <1>1, LocalizerStepTypes DEF RequestsTypeOK, pathVars
<1>2. CASE Arrive(r)
  <2>1. LocalizerTypeOK'
    BY <1>0, <1>2, OtherLocalizerTypes, LanguagesOfRequest DEF Arrive, LocalizationMiddleware
  <2> QED
    BY <1>2, <2>1 DEF Arrive, Move, RequestsTypeOK, pathVars
<1>3. CASE CallHandler(r)
  <2> DEFINE s == <<header[r]>> \o (IF Root[header[r]] = header[r] THEN <<>> ELSE <<Root[header[r]]>>)
  <2>1. s \in Seq(Tags)
    BY LanguagesOfRequest, EmptySeq
  <2>2. toSet' = [toSet EXCEPT ![r] = s] /\ UNCHANGED <<choosing, tag, loadMutex, bundles>>
    BY <1>3 DEF CallHandler, GetContextLocalizer
  <2>3. LocalizerTypeOK'
    BY <1>0, <2>1, <2>2, OtherLocalizerTypes
  <2> QED
    BY <1>3, <2>3 DEF CallHandler, Move, RequestsTypeOK, pathVars
<1>4. CASE HandlerEnds(r)
  <2>1. LocalizerTypeOK'
    BY <1>0, <1>4 DEF HandlerEnds, localizerVars, LocalizerTypeOK
  <2>2. PICK errs \in {{}, {"public"}, {"private"}}, p \in {"none", "panic", "broken pipe"}, s \in {0, 200} :
            /\ ctxErrors' = [ctxErrors EXCEPT ![r] = errs]
            /\ panic' = [panic EXCEPT ![r] = p]
            /\ status' = [status EXCEPT ![r] = s]
            /\ happened' = [happened EXCEPT ![r] = errs \cup (IF p = "none" THEN {} ELSE {"panic"})]
    BY <1>4 DEF HandlerEnds
  <2>3. errs \cup (IF p = "none" THEN {} ELSE {"panic"}) \subseteq Failures /\ errs \subseteq Failures
    BY DEF Failures
  <2> HIDE DEF Failures
  <2>4. ctxErrors' \in [Requests -> SUBSET Failures] /\ happened' \in [Requests -> SUBSET Failures]
    BY <2>2, <2>3 DEF RequestsTypeOK
  <2>5. panic' \in [Requests -> PanicKinds] /\ status' \in [Requests -> {0, 200, 500}]
    BY <2>2, ZenonT(30) DEF RequestsTypeOK, PanicKinds
  <2> QED
    BY <1>4, <2>1, <2>4, <2>5 DEF HandlerEnds, Move, RequestsTypeOK
<1>5. CASE LocalizationPanics(r)
  <2>1. LocalizerTypeOK'
    <3>1. choosing[r] # "loads" /\ choosing' = [choosing EXCEPT ![r] = "done"]
      BY <1>5 DEF LocalizationPanics
    <3> QED
      BY <1>0, <1>5, <3>1, OtherLocalizerTypes, EmptySeq DEF LocalizationPanics
  <2>2. {"panic"} \subseteq Failures
    BY DEF Failures
  <2> QED
    BY <1>5, <2>1, <2>2 DEF LocalizationPanics, RequestsTypeOK, PanicKinds
<1>6. CASE SentryGin(r)
  <2>1. LocalizerTypeOK'
    BY <1>0, <1>6 DEF SentryGin, localizerVars, LocalizerTypeOK
  <2>2. reported' \in [Requests -> [Failures -> Nat]]
    BY <1>6, ReportIs DEF SentryGin
  <2> QED
    BY <1>6, <2>1, <2>2 DEF SentryGin, Move, RequestsTypeOK
<1>7. CASE Recovery(r)
  <2>1. (NoMessage \/ UNCHANGED bundles) /\ UNCHANGED <<tag, loadMutex, toSet, choosing>>
    BY <1>7 DEF Recovery, BrokenPipe, PanicIsAnswered
  <2>2. LocalizerTypeOK'
    BY <1>0, <2>1, BundlesStay DEF LocalizerTypeOK
  <2>3. ctxErrors' \in [Requests -> SUBSET Failures]
    <3>1. \A e \in SUBSET Failures : e \cup {"panic"} \in SUBSET Failures
      BY DEF Failures
    <3>2. ctxErrors' = ctxErrors \/ ctxErrors' = [ctxErrors EXCEPT ![r] = ctxErrors[r] \cup {"panic"}]
      BY <1>7 DEF Recovery, BrokenPipe, PanicIsAnswered
    <3> QED
      BY <3>1, <3>2, SMTT(30) DEF RequestsTypeOK
  <2>4. panic' \in [Requests -> PanicKinds]
    <3>1. panic' = panic \/ \E k \in {"none", "lookup"} : panic' = [panic EXCEPT ![r] = k]
      BY <1>7 DEF Recovery, BrokenPipe, PanicIsAnswered
    <3>2. panic \in [Requests -> PanicKinds] /\ {"none", "lookup"} \subseteq PanicKinds
      BY DEF RequestsTypeOK, PanicKinds
    <3> QED
      BY <3>1, <3>2
  <2>5. status' \in [Requests -> {0, 200, 500}]
    <3>1. UNCHANGED status \/ Respond(r, 500)
      BY <1>7 DEF Recovery, BrokenPipe, PanicIsAnswered
    <3> QED
      BY <3>1 DEF Respond, RequestsTypeOK
  <2>6. UNCHANGED <<header, happened, uploading, reported>> /\ place' = [place EXCEPT ![r] = "capture"]
    BY <1>7 DEF Recovery, BrokenPipe, PanicIsAnswered, Move
  <2> QED
    BY <2>2, <2>3, <2>4, <2>5, <2>6 DEF RequestsTypeOK
<1>8. CASE ExceptionCapture(r)
  <2>1. (NoMessage \/ UNCHANGED bundles) /\ UNCHANGED <<tag, loadMutex, toSet, choosing>>
    BY <1>8 DEF ExceptionCapture
  <2>2. LocalizerTypeOK'
    BY <1>0, <2>1, BundlesStay DEF LocalizerTypeOK
  <2>3. reported' \in [Requests -> [Failures -> Nat]]
    <3>1. Report(r, ctxErrors[r]) \/ UNCHANGED reported
      BY <1>8 DEF ExceptionCapture
    <3> QED
      BY <3>1, ReportIs DEF RequestsTypeOK
  <2>4. status' \in [Requests -> {0, 200, 500}]
    BY <1>8 DEF ExceptionCapture, Respond, RequestsTypeOK
  <2>5. place' = [place EXCEPT ![r] = "answered"] \/ place' = [place EXCEPT ![r] = "dropped"]
    BY <1>8 DEF ExceptionCapture
  <2>6. UNCHANGED <<header, ctxErrors, panic, happened, uploading>>
    BY <1>8 DEF ExceptionCapture
  <2> QED
    BY <2>2, <2>3, <2>4, <2>5, <2>6, ZenonT(30) DEF RequestsTypeOK
<1> QED
  BY <1>1, <1>2, <1>3, <1>4, <1>5, <1>6, <1>7, <1>8 DEF RequestStep

LEMMA UploaderTypesKeep ==
    ASSUME RequestsTypeOK, UploadStarts \/ UploaderStep
    PROVE  RequestsTypeOK'
<1>1. LocalizerTypeOK /\ Shared \in Localizers /\ bundles \subseteq Tags
  BY DEF RequestsTypeOK, LocalizerTypeOK, Localizers
<1>2. CASE UploadStarts
  <2>1. choosing[Shared] # "loads" /\ UNCHANGED <<tag, loadMutex, bundles>>
    BY <1>2 DEF UploadStarts, Upload
  <2>2. UploadLanguages \in Seq(Tags) /\ toSet' = [toSet EXCEPT ![Shared] = UploadLanguages]
    BY <1>2, LocalizerAssumption DEF UploadStarts, Upload
  <2>3. choosing' = [choosing EXCEPT ![Shared] = "done"]
    BY <1>2 DEF UploadStarts, Upload
  <2>4. LocalizerTypeOK'
    BY <1>1, <2>1, <2>2, <2>3, OtherLocalizerTypes
  <2> QED
    BY <1>2, <2>4 DEF UploadStarts, RequestsTypeOK, pathVars
<1>3. CASE UploaderStep
  BY <1>1, <1>3, LocalizerStepTypes DEF UploaderStep, RequestsTypeOK, pathVars
<1> QED
  BY <1>2, <1>3

LEMMA RequestTypesStep == RequestsTypeOK /\ [RequestsNext]_requestVars => RequestsTypeOK'
<1> SUFFICES ASSUME RequestsTypeOK, [RequestsNext]_requestVars PROVE RequestsTypeOK'
  OBVIOUS
<1>1. CASE UNCHANGED requestVars
  BY <1>1 DEF requestVars, localizerVars, RequestsTypeOK, LocalizerTypeOK
<1>2. CASE RequestsNext
  BY <1>2, RequestTypesKeep, UploaderTypesKeep DEF RequestsNext
<1> QED
  BY <1>1, <1>2

-----------------------------------------------------------------------------
\* What a step of a request, or of the uploader, leaves alone of another request.
LEMMA OthersUntouched ==
    ASSUME RequestsTypeOK, NEW r \in Requests, NEW q \in Requests, q # r, RequestStep(r)
    PROVE  /\ place'[q] = place[q] /\ ctxErrors'[q] = ctxErrors[q] /\ panic'[q] = panic[q]
           /\ status'[q] = status[q] /\ reported'[q] = reported[q] /\ happened'[q] = happened[q]
           /\ uploading' = uploading /\ header' = header
<1>0. /\ DOMAIN place = Requests /\ DOMAIN ctxErrors = Requests /\ DOMAIN panic = Requests
      /\ DOMAIN status = Requests /\ DOMAIN happened = Requests
  BY DEF RequestsTypeOK
<1>1. CASE LocalizerStep(r) /\ UNCHANGED <<place, pathVars, panic, uploading>>
  BY <1>1 DEF pathVars
<1>2. CASE Arrive(r) \/ CallHandler(r)
  BY <1>2 DEF Arrive, CallHandler, Move, pathVars, RequestsTypeOK
<1>3. CASE HandlerEnds(r)
  <2>1. PICK errs \in {{}, {"public"}, {"private"}}, p \in {"none", "panic", "broken pipe"}, s \in {0, 200} :
            /\ ctxErrors' = [ctxErrors EXCEPT ![r] = errs]
            /\ panic' = [panic EXCEPT ![r] = p]
            /\ status' = [status EXCEPT ![r] = s]
            /\ happened' = [happened EXCEPT ![r] = errs \cup (IF p = "none" THEN {} ELSE {"panic"})]
    BY <1>3 DEF HandlerEnds
  <2>2. place' = [place EXCEPT ![r] = "sentrygin"] /\ UNCHANGED <<reported, uploading, header>>
    BY <1>3 DEF HandlerEnds, Move
  <2>3. /\ place'[q] = place[q] /\ ctxErrors'[q] = ctxErrors[q] /\ panic'[q] = panic[q]
        /\ status'[q] = status[q] /\ happened'[q] = happened[q]
    BY <1>0, <2>1, <2>2
  <2> QED
    BY <2>2, <2>3
<1>4. CASE LocalizationPanics(r)
  BY <1>4 DEF LocalizationPanics, RequestsTypeOK
<1>5. CASE SentryGin(r)
  BY <1>5, ReportIs DEF SentryGin, Move, RequestsTypeOK
<1>6. CASE Recovery(r)
  <2>1. /\ place' = [place EXCEPT ![r] = "capture"] /\ UNCHANGED <<reported, happened, uploading, header>>
        /\ UNCHANGED ctxErrors \/ \E e : ctxErrors' = [ctxErrors EXCEPT ![r] = e]
        /\ UNCHANGED panic \/ \E k : panic' = [panic EXCEPT ![r] = k]
    BY <1>6 DEF Recovery, BrokenPipe, PanicIsAnswered, Move
  <2>2. UNCHANGED status \/ Respond(r, 500)
    BY <1>6 DEF Recovery, BrokenPipe, PanicIsAnswered
  <2> QED
    BY <1>0, <2>1, <2>2 DEF Respond
<1>7. CASE ExceptionCapture(r)
  <2>1. reported'[q] = reported[q]
    BY <1>7, ReportIs DEF ExceptionCapture
  <2> QED
    BY <1>7, <2>1 DEF ExceptionCapture, Respond, RequestsTypeOK
<1> QED
  BY <1>1, <1>2, <1>3, <1>4, <1>5, <1>6, <1>7 DEF RequestStep

LEMMA ToldKeeps ==
    ASSUME RequestsTypeOK, SharedInv, NEW r \in Requests, Told(r), RequestStep(r)
    PROVE  Told(r)'
<1> USE DEF Ends
<1>0. /\ DOMAIN place = Requests /\ DOMAIN ctxErrors = Requests /\ DOMAIN panic = Requests
      /\ DOMAIN status = Requests /\ DOMAIN happened = Requests
  BY DEF RequestsTypeOK
<1>1. CASE LocalizerStep(r) /\ UNCHANGED <<place, pathVars, panic, uploading>>
  BY <1>1 DEF pathVars, Told, Captures
<1>2. CASE Arrive(r) \/ CallHandler(r)
  <2>1. place[r] \in {"new", "localization"} /\ place'[r] \in {"localization", "handler"}
    BY <1>2 DEF Arrive, CallHandler, Move, RequestsTypeOK
  <2>2. UNCHANGED <<ctxErrors, happened, panic, reported>>
    BY <1>2 DEF Arrive, CallHandler, pathVars
  <2> QED
    BY <2>1, <2>2 DEF Told
<1>3. CASE HandlerEnds(r)
  <2>1. PICK errs \in {{}, {"public"}, {"private"}}, p \in {"none", "panic", "broken pipe"} :
            /\ ctxErrors' = [ctxErrors EXCEPT ![r] = errs]
            /\ panic' = [panic EXCEPT ![r] = p]
            /\ happened' = [happened EXCEPT ![r] = errs \cup (IF p = "none" THEN {} ELSE {"panic"})]
    BY <1>3 DEF HandlerEnds
  <2>2. /\ ctxErrors'[r] = errs /\ panic'[r] = p
        /\ happened'[r] = errs \cup (IF p = "none" THEN {} ELSE {"panic"})
    BY <1>0, <2>1
  <2>3. place[r] = "handler" /\ place'[r] = "sentrygin" /\ reported' = reported
    <3>1. place[r] = "handler" /\ place' = [place EXCEPT ![r] = "sentrygin"] /\ reported' = reported
      BY <1>3 DEF HandlerEnds, Move
    <3> QED
      BY <1>0, <3>1
  <2> QED
    BY <2>2, <2>3 DEF Told
<1>4. CASE LocalizationPanics(r)
  <2>1. /\ place[r] \in {"localization", "handler"} /\ place'[r] = "sentrygin"
        /\ panic'[r] = "panic" /\ happened'[r] = {"panic"} /\ UNCHANGED <<ctxErrors, reported>>
    BY <1>4 DEF LocalizationPanics, RequestsTypeOK
  <2> QED
    BY <2>1 DEF Told
<1>5. CASE SentryGin(r)
  <2>1. place[r] = "sentrygin" /\ place'[r] = "recovery" /\ UNCHANGED <<ctxErrors, panic, happened>>
    BY <1>5 DEF SentryGin, Move, RequestsTypeOK
  <2>2. \A f \in Failures : reported'[r][f] = IF f = "panic" /\ panic[r] = "panic" THEN 1 ELSE 0
    BY <1>5, <2>1, ReportIs DEF SentryGin, Told
  <2> QED
    BY <2>1, <2>2 DEF Told
<1>6. CASE Recovery(r)
  <2>1. place[r] = "recovery" /\ place'[r] = "capture" /\ UNCHANGED <<happened, uploading, reported>>
    <3>1. place[r] = "recovery" /\ place' = [place EXCEPT ![r] = "capture"] /\ UNCHANGED <<happened, uploading>>
      BY <1>6 DEF Recovery, Move
    <3>2. UNCHANGED reported
      BY <1>6 DEF Recovery, BrokenPipe, PanicIsAnswered
    <3> QED
      BY <1>0, <3>1, <3>2
  <2>2. /\ panic[r] # "lookup" /\ "panic" \notin ctxErrors[r]
        /\ happened[r] = ctxErrors[r] \cup (IF panic[r] = "none" THEN {} ELSE {"panic"})
        /\ \A f \in Failures : reported[r][f] = IF f = "panic" /\ panic[r] = "panic" THEN 1 ELSE 0
    BY <2>1 DEF Told
  <2>3. CASE panic[r] = "none"
    <3>1. UNCHANGED <<ctxErrors, panic>>
      BY <1>6, <2>3 DEF Recovery, BrokenPipe, PanicIsAnswered
    <3> QED
      BY <2>1, <2>2, <2>3, <3>1 DEF Told, Captures
  <2>4. CASE panic[r] = "broken pipe"
    <3>1. ctxErrors'[r] = ctxErrors[r] \cup {"panic"} /\ panic'[r] = "none"
      <4>1. BrokenPipe(r)
        BY <1>6, <2>4 DEF Recovery, PanicIsAnswered
      <4> QED
        BY <1>0, <4>1 DEF BrokenPipe
    <3> QED
      BY <2>1, <2>2, <2>4, <3>1 DEF Told, Captures
  <2>5. CASE panic[r] = "panic"
    <3>1. /\ ctxErrors' = ctxErrors
          /\ \/ panic'[r] = "none" /\ status'[r] # 0
             \/ panic'[r] = "lookup" /\ ~Found(Shared)
      BY <1>6, <2>5 DEF Recovery, BrokenPipe, PanicIsAnswered, NoMessage, Respond, RequestsTypeOK
    <3>2. panic'[r] = "lookup" => uploading
      BY <3>1 DEF SharedInv
    <3> QED
      BY <2>1, <2>2, <2>5, <3>1, <3>2 DEF Told, Captures
  <2>6. panic[r] \in PanicKinds
    BY DEF RequestsTypeOK
  <2> QED
    BY <2>2, <2>3, <2>4, <2>5, <2>6 DEF PanicKinds
<1>7. CASE ExceptionCapture(r)
  <2>1. /\ place[r] = "capture" /\ UNCHANGED <<happened, uploading, panic, ctxErrors>>
        /\ panic[r] \in {"none", "lookup"} /\ (panic[r] = "lookup" => uploading)
        /\ \A f \in Failures : reported[r][f] = IF f \in happened[r] \ ctxErrors[r] THEN 1 ELSE 0
        /\ ctxErrors[r] \subseteq happened[r]
        /\ happened[r] # {} /\ ~Captures(r) => status[r] # 0
    BY <1>7 DEF ExceptionCapture, Told
  <2>2. CASE ~Captures(r)
    <3>1. place'[r] = "answered" /\ UNCHANGED <<reported, status>> /\ ctxErrors[r] = {}
      BY <1>7, <2>2 DEF ExceptionCapture, Captures, RequestsTypeOK
    <3> QED
      BY <2>1, <2>2, <3>1 DEF Told
  <2>3. CASE Captures(r)
    <3>1. \A f \in Failures : reported'[r][f] = IF f \in happened[r] THEN 1 ELSE 0
      BY <1>7, <2>1, <2>3, ReportIs DEF ExceptionCapture
    <3>2. CASE Respond(r, 500) /\ place' = [place EXCEPT ![r] = IF panic[r] = "none" THEN "answered" ELSE "dropped"]
      <4>1. status'[r] # 0 /\ place'[r] = IF panic[r] = "none" THEN "answered" ELSE "dropped"
        BY <3>2 DEF Respond, RequestsTypeOK
      <4> QED
        BY <2>1, <3>1, <4>1 DEF Told
    <3>3. CASE NoMessage /\ place' = [place EXCEPT ![r] = "dropped"]
      <4>1. uploading /\ place'[r] = "dropped"
        BY <3>3 DEF NoMessage, SharedInv, RequestsTypeOK
      <4> QED
        BY <2>1, <3>1, <4>1 DEF Told
    <3> QED
      BY <1>7, <2>3, <3>2, <3>3 DEF ExceptionCapture
  <2> QED
    BY <2>2, <2>3
<1> QED
  BY <1>1, <1>2, <1>3, <1>4, <1>5, <1>6, <1>7 DEF RequestStep

\* A request chooses languages on its own clone only, and bundles are only added.
LEMMA OtherLocalizersUntouched ==
    ASSUME RequestsTypeOK, NEW r \in Requests, RequestStep(r), NEW l \in Localizers, l # r
    PROVE  /\ tag'[l] = tag[l] /\ toSet'[l] = toSet[l] /\ choosing'[l] = choosing[l]
           /\ bundles \subseteq bundles'
<1>0. LocalizerTypeOK /\ r \in Localizers /\ DOMAIN toSet = Localizers /\ DOMAIN choosing = Localizers
  BY DEF RequestsTypeOK, Localizers, LocalizerTypeOK, Goroutines
<1>1. CASE LocalizerStep(r)
  BY <1>0, <1>1, LocalizerStepTypes
<1>2. CASE Arrive(r) \/ CallHandler(r)
  BY <1>0, <1>2 DEF Arrive, CallHandler, LocalizationMiddleware, GetContextLocalizer
<1>3. CASE HandlerEnds(r) \/ SentryGin(r)
  BY <1>3 DEF HandlerEnds, SentryGin, localizerVars
<1>4. CASE LocalizationPanics(r)
  BY <1>0, <1>4 DEF LocalizationPanics
<1>5. CASE Recovery(r)
  <2>1. (NoMessage \/ UNCHANGED bundles) /\ UNCHANGED <<tag, toSet, choosing>>
    BY <1>5 DEF Recovery, BrokenPipe, PanicIsAnswered
  <2> QED
    BY <2>1, BundlesStay
<1>6. CASE ExceptionCapture(r)
  <2>1. (NoMessage \/ UNCHANGED bundles) /\ UNCHANGED <<tag, toSet, choosing>>
    BY <1>6 DEF ExceptionCapture
  <2> QED
    BY <2>1, BundlesStay
<1> QED
  BY <1>1, <1>2, <1>3, <1>4, <1>5, <1>6 DEF RequestStep

LEMMA SharedKeeps ==
    ASSUME RequestsTypeOK, SharedInv,
           \/ \E r \in Requests : RequestStep(r)
           \/ UploadStarts \/ UploaderStep
    PROVE  SharedInv'
<1>0. LocalizerTypeOK /\ Shared \in Localizers
  BY DEF RequestsTypeOK, Localizers
<1>1. CASE UploadStarts
  BY <1>1 DEF UploadStarts, SharedInv
<1>2. CASE UploaderStep
  <2>1. choosing[Shared] = "done" => toSet[Shared] # <<>>
    BY <1>0, <1>2, LocalizerStepTypes DEF UploaderStep
  <2> QED
    BY <1>2, <2>1 DEF UploaderStep, SharedInv
<1>3. ASSUME NEW r \in Requests, RequestStep(r) PROVE SharedInv'
  <2>1. Shared # r
    BY LocalizerAssumption
  <2>2. /\ bundles \subseteq bundles' /\ tag'[Shared] = tag[Shared]
        /\ toSet'[Shared] = toSet[Shared] /\ choosing'[Shared] = choosing[Shared]
    BY <1>0, <1>3, <2>1, OtherLocalizersUntouched
  <2>3. uploading' = uploading
    BY <1>3 DEF RequestStep, Arrive, CallHandler, HandlerEnds, LocalizationPanics, SentryGin,
       Recovery, ExceptionCapture
  <2> QED
    BY <2>2, <2>3 DEF SharedInv, Found
<1> QED
  BY <1>1, <1>2, <1>3

LEMMA LanguageKeeps ==
    ASSUME RequestsTypeOK, LanguageInv, NEW r \in Requests, RequestStep(r), NEW q \in Requests
    PROVE  /\ choosing'[q] = "done" /\ place'[q] \in {"new", "localization", "handler"} => Found(q)'
           /\ place'[q] = "handler" /\ choosing'[q] # "panics" =>
                IF toSet'[q] = <<>> THEN tag'[q] = Root[header'[q]]
                ELSE toSet'[q][Len(toSet'[q])] = Root[header'[q]]
<1>0. LocalizerTypeOK /\ r \in Localizers /\ DOMAIN toSet = Localizers /\ DOMAIN place = Requests
  BY DEF RequestsTypeOK, Localizers, LocalizerTypeOK, Goroutines
<1>1. /\ choosing[q] = "done" /\ place[q] \in {"new", "localization", "handler"} => Found(q)
      /\ place[q] = "handler" /\ choosing[q] # "panics" =>
            IF toSet[q] = <<>> THEN tag[q] = Root[header[q]] ELSE toSet[q][Len(toSet[q])] = Root[header[q]]
  BY DEF LanguageInv
<1>2. CASE q # r
  <2>1. q \in Localizers
    BY DEF Localizers
  <2>2. /\ tag'[q] = tag[q] /\ toSet'[q] = toSet[q] /\ choosing'[q] = choosing[q]
        /\ bundles \subseteq bundles' /\ place'[q] = place[q] /\ header' = header
    BY <1>2, <2>1, OtherLocalizersUntouched, OthersUntouched
  <2> QED
    BY <1>1, <2>2 DEF Found
<1>3. CASE q = r
  <2>1. CASE LocalizerStep(r) /\ UNCHANGED <<place, pathVars, panic, uploading>>
    <3>1. UNCHANGED <<place, header>>
      BY <2>1 DEF pathVars
    <3>2. choosing'[r] = "done" => Found(r)'
      BY <1>0, <2>1, LocalizerStepTypes DEF Found
    <3>3. ASSUME place[r] = "handler", choosing'[r] # "panics"
          PROVE  IF toSet'[r] = <<>> THEN tag'[r] = Root[header[r]] ELSE toSet'[r][Len(toSet'[r])] = Root[header[r]]
      <4>1. CASE toSet'[r] = toSet[r] /\ tag'[r] = tag[r] /\ choosing[r] # "panics"
        BY <1>1, <1>3, <3>3, <4>1
      <4>2. CASE toSet[r] # <<>> /\ toSet'[r] = Tail(toSet[r]) /\ tag'[r] = Head(toSet[r]) /\ choosing[r] = "done"
        <5>1. toSet[r] \in Seq(Tags) /\ toSet[r][Len(toSet[r])] = Root[header[r]]
          BY <1>0, <1>1, <1>3, <3>3, <4>2 DEF LocalizerTypeOK, Goroutines
        <5> DEFINE s == toSet[r]
        <5>2. s \in Seq(Tags) /\ s # <<>> /\ s[Len(s)] = Root[header[r]]
          BY <4>2, <5>1
        <5> HIDE DEF s
        <5>3. IF Tail(s) = <<>> THEN Head(s) = Root[header[r]] ELSE Tail(s)[Len(Tail(s))] = Root[header[r]]
          <6>1. /\ Tail(s) \in Seq(Tags) /\ Len(Tail(s)) = Len(s) - 1 /\ Len(s) \in Nat /\ Head(s) = s[1]
                /\ \A i \in 1..Len(Tail(s)) : Tail(s)[i] = s[i + 1]
            BY <5>2, HeadTailProperties, LenProperties
          <6>2. CASE Tail(s) = <<>>
            <7>0. Len(<<>>) = 0
              BY EmptySeq
            <7>1. Len(Tail(s)) = 0
              BY <6>2, <7>0
            <7> QED
              BY <5>2, <6>1, <6>2, <7>1
          <6>3. CASE Tail(s) # <<>>
            <7>1. Len(Tail(s)) \in Nat \ {0}
              BY <6>1, <6>3, EmptySeq
            <7> QED
              BY <5>2, <6>1, <6>3, <7>1
          <6> QED
            BY <6>2, <6>3
        <5> QED
          BY <4>2, <5>3 DEF s
      <4> QED
        BY <1>0, <2>1, <3>3, <4>1, <4>2, LocalizerStepTypes
    <3> QED
      BY <1>3, <3>1, <3>2, <3>3
  <2>2. CASE Arrive(r)
    <3>1. place[r] = "new" /\ place'[r] = "localization" /\ UNCHANGED <<bundles, tag, choosing>>
      BY <1>0, <2>2 DEF Arrive, Move
    <3> QED
      BY <1>1, <1>3, <3>1 DEF Found
  <2>3. CASE CallHandler(r)
    <3>1. place[r] = "localization" /\ place'[r] = "handler" /\ UNCHANGED <<bundles, tag, choosing, header>>
      BY <1>0, <2>3 DEF CallHandler, Move, pathVars
    <3>2. toSet'[r] = <<header[r]>> \o (IF Root[header[r]] = header[r] THEN <<>> ELSE <<Root[header[r]]>>)
      BY <1>0, <2>3 DEF CallHandler, GetContextLocalizer
    <3>3. toSet'[r] # <<>> /\ toSet'[r][Len(toSet'[r])] = Root[header[r]]
      BY <3>2
    <3> QED
      BY <1>1, <1>3, <3>1, <3>3 DEF Found
  <2>4. CASE HandlerEnds(r) \/ LocalizationPanics(r) \/ SentryGin(r) \/ Recovery(r) \/ ExceptionCapture(r)
    <3>1. place'[r] \notin {"new", "localization", "handler"}
      BY <1>0, <2>4 DEF HandlerEnds, LocalizationPanics, SentryGin, Recovery, ExceptionCapture, Move
    <3> QED
      BY <1>3, <3>1
  <2> QED
    BY <2>1, <2>2, <2>3, <2>4 DEF RequestStep
<1> QED
  BY <1>2, <1>3

\* The uploader has a localizer of its own.
LEMMA UploaderKeeps ==
    ASSUME RequestsInv, UploadStarts \/ UploaderStep
    PROVE  LanguageInv' /\ \A r \in Requests : Told(r)'
<1>0. LocalizerTypeOK /\ DOMAIN toSet = Localizers /\ DOMAIN choosing = Localizers /\ Shared \in Localizers
  BY DEF RequestsInv, RequestsTypeOK, Localizers, LocalizerTypeOK, Goroutines
<1>1. \A r \in Requests : r \in Localizers /\ r # Shared
  BY LocalizerAssumption DEF Localizers
<1>2. /\ UNCHANGED <<place, header, ctxErrors, status, reported, happened, panic>>
      /\ uploading => uploading'
  BY DEF UploadStarts, UploaderStep, pathVars
<1>3. bundles \subseteq bundles' /\ \A r \in Requests :
            tag'[r] = tag[r] /\ toSet'[r] = toSet[r] /\ choosing'[r] = choosing[r]
  <2>1. CASE UploadStarts
    BY <1>0, <1>1, <2>1 DEF UploadStarts, Upload
  <2>2. CASE UploaderStep
    BY <1>0, <1>1, <2>2, LocalizerStepTypes DEF UploaderStep
  <2> QED
    BY <2>1, <2>2
<1>4. LanguageInv'
  BY <1>2, <1>3 DEF RequestsInv, LanguageInv, Found
<1>5. \A r \in Requests : Told(r)'
  BY <1>2 DEF RequestsInv, Told, Captures
<1> QED
  BY <1>4, <1>5

LEMMA RequestsStep == RequestsInv /\ [RequestsNext]_requestVars => RequestsInv'
<1> SUFFICES ASSUME RequestsInv, [RequestsNext]_requestVars PROVE RequestsInv'
  OBVIOUS
<1>1. RequestsTypeOK'
  BY RequestTypesStep DEF RequestsInv
<1>2. CASE UNCHANGED requestVars
  BY <1>1, <1>2 DEF requestVars, localizerVars, RequestsInv, SharedInv, LanguageInv, Told, Found, Captures
<1>3. ASSUME NEW r \in Requests, RequestStep(r) PROVE RequestsInv'
  <2>1. SharedInv'
    BY <1>3, SharedKeeps DEF RequestsInv
  <2>2. LanguageInv'
    BY <1>3, LanguageKeeps DEF RequestsInv, LanguageInv
  <2>3. ASSUME NEW q \in Requests PROVE Told(q)'
    <3>1. CASE q = r
      BY <1>3, <3>1, ToldKeeps DEF RequestsInv
    <3>2. CASE q # r
      BY <1>3, <3>2, OthersUntouched DEF RequestsInv, Told, Captures
    <3> QED
      BY <3>1, <3>2
  <2> QED
    BY <1>1, <2>1, <2>2, <2>3 DEF RequestsInv
<1>4. CASE UploadStarts \/ UploaderStep
  BY <1>1, <1>4, SharedKeeps, UploaderKeeps DEF RequestsInv
<1> QED
  BY <1>2, <1>3, <1>4 DEF RequestsNext

LEMMA RequestsInvIsEnough == RequestsInv => OwnLanguage /\ FailuresAreTold
BY DEF RequestsInv, LanguageInv, OwnLanguage, Settled, Clone, Told, FailuresAreTold

\* The types of the requests and of their localizers.
THEOREM RequestTypes == RequestsSpec => []RequestsTypeOK
<1>1. RequestsInv => RequestsTypeOK
  BY DEF RequestsInv
<1> QED
  BY <1>1, RequestsInitially, RequestsStep, PTL DEF RequestsSpec

\* For any requests, languages and uploads, a handler finds its localizer in the
\* language of its own request (localizer.go:147-175, 204-252).
THEOREM RequestsAnswerInTheirLanguage == RequestsSpec => []OwnLanguage
BY RequestsInitially, RequestsStep, RequestsInvIsEnough, PTL DEF RequestsSpec

\* Whatever fails in a handler and in the deferred functions behind it is sent to
\* Sentry once, and answered (sentry.go:186-311).
THEOREM RequestFailuresAreTold == RequestsSpec => []FailuresAreTold
BY RequestsInitially, RequestsStep, RequestsInvIsEnough, PTL DEF RequestsSpec

-----------------------------------------------------------------------------
(* Csrf. *)

\* What the session of the browser holds between two requests: a token is the one of
\* the process that wrote it, and the last page's is in the session unless something
\* else changed it.
CsrfInv ==
    /\ CsrfTypeOK
    /\ HasToken(session.value) => session.value = String(Salt(session.by))
    /\ page.token # NoToken => page.token = Salt(page.by)
    /\ page.token # NoToken /\ ~foreign =>
            HasToken(session.value) /\ (sharedKeys \/ session.by = page.by)

-----------------------------------------------------------------------------
\* A form whose only carrier is its field is read as the token it holds.
LEMMA TokenInForm ==
    ASSUME NEW token \in Nat \ {0}
    PROVE  TokenGetter([i \in DOMAIN Carriers |-> IF i = 4 THEN token ELSE NoToken]) = token
<1> DEFINE sent == [i \in DOMAIN Carriers |-> IF i = 4 THEN token ELSE NoToken]
<1>1. DOMAIN Carriers = 1..4
  BY DEF Carriers
<1>2. {i \in DOMAIN Carriers : sent[i] # NoToken} = {4}
  BY <1>1 DEF NoToken
<1>3. (CHOOSE i \in {4} : \A j \in {4} : i <= j) = 4
  OBVIOUS
<1>4. sent[4] = token
  BY <1>1
<1> QED
  BY <1>2, <1>3, <1>4 DEF TokenGetter

LEMMA SaltIsToken == \A p \in Processes : Salt(p) \in Nat \ {0}
BY CsrfAssumption DEF Salt

LEMMA Kinds ==
    /\ \A d \in Damaged : ~HasToken(d) /\ d \in Values
    /\ \A p \in Processes : HasToken(String(Salt(p))) /\ String(Salt(p)) \in Values
    /\ ~HasToken(No("absent")) /\ No("absent") \in Damaged
<1>1. \A d \in Damaged : ~HasToken(d)
  <2>1. /\ No("absent").kind = "absent" /\ No("empty").kind = "empty"
        /\ No("other type").kind = "other type"
    BY DEF No
  <2>2. \A d \in Damaged : d.kind \in {"absent", "empty", "other type"}
    BY <2>1 DEF Damaged
  <2> QED
    BY <2>2 DEF HasToken
<1>2. \A d \in Damaged : d \in Values
  BY DEF Values
<1>3. \A p \in Processes : HasToken(String(Salt(p)))
  BY DEF HasToken, String
<1>4. \A p \in Processes : String(Salt(p)) \in Values
  BY DEF Values
<1>5. No("absent") \in Damaged
  BY DEF Damaged
<1> QED
  BY <1>1, <1>2, <1>3, <1>4, <1>5

PageTokens == {NoToken} \cup {Salt(p) : p \in Processes}

\* As long as the deployment is the same, so are the tokens there are.
LEMMA SameTokens ==
    ASSUME UNCHANGED fixedSalt
    PROVE  Values' = Values /\ PageTokens' = PageTokens /\ \A p : Salt(p)' = Salt(p)
<1>1. \A p : Salt(p)' = Salt(p)
  BY DEF Salt
<1>2. {String(Salt(p)) : p \in Processes}' = {String(Salt(p)) : p \in Processes}
  BY <1>1 DEF String
<1>3. Damaged' = Damaged
  OBVIOUS
<1> QED
  BY <1>1, <1>2, <1>3 DEF Values, PageTokens

\* The types, one variable at a time.
LEMMA TypesAre ==
    CsrfTypeOK <=>
        /\ fixedSalt \in BOOLEAN /\ sharedKeys \in BOOLEAN /\ foreign \in BOOLEAN
        /\ session \in [value : Values, by : Processes]
        /\ page \in [token : PageTokens, by : Processes]
        /\ verdict \in Reasons \cup {"none", "rendered", "accepted"}
BY DEF CsrfTypeOK, PageTokens

LEMMA TypesAreNext ==
    CsrfTypeOK' <=>
        /\ fixedSalt' \in BOOLEAN /\ sharedKeys' \in BOOLEAN /\ foreign' \in BOOLEAN
        /\ session' \in [value : Values', by : Processes]
        /\ page' \in [token : PageTokens', by : Processes]
        /\ verdict' \in Reasons \cup {"none", "rendered", "accepted"}
BY DEF CsrfTypeOK, PageTokens

-----------------------------------------------------------------------------
LEMMA CsrfInitially == CsrfInit => CsrfInv
<1> SUFFICES ASSUME CsrfInit PROVE CsrfInv
  OBVIOUS
<1>1. session.value = No("absent") /\ session.by \in Processes /\ page.token = NoToken
  BY DEF CsrfInit
<1>2. CsrfTypeOK
  BY Kinds DEF CsrfInit, CsrfTypeOK, Damaged, Values
<1> QED
  BY <1>1, <1>2, Kinds DEF CsrfInv

LEMMA RenderKeeps == ASSUME NEW p \in Processes, CsrfInv, Render(p) PROVE CsrfInv'
<1> DEFINE g == Generate(p)
<1>1. UNCHANGED <<fixedSalt, sharedKeys>>
  BY DEF Render, deployment
<1>2. Salt(p)' = Salt(p) /\ \A q \in Processes : Salt(q)' = Salt(q)
  BY <1>1 DEF Salt
<1>3. page' = [token |-> Salt(p), by |-> p]
  BY SaltIsToken DEF Render, Generate, CSRFFromContext, GenerateToken, NoToken
<1>6. /\ page' \in [token : PageTokens, by : Processes]
      /\ foreign' \in BOOLEAN /\ verdict' \in Reasons \cup {"none", "rendered", "accepted"}
  <2>1. Salt(p) \in PageTokens
    BY DEF PageTokens
  <2>2. page' \in [token : PageTokens, by : Processes]
    BY <1>3, <2>1
  <2>3. foreign' = FALSE /\ verdict' = "rendered"
    BY DEF Render
  <2> QED
    BY <2>2, <2>3
<1>4. CASE HasToken(StoredValue(p))
  <2>1. session' = session
    BY <1>4 DEF Render, Generate
  <2>2. StoredValue(p) = session.value /\ (sharedKeys \/ session.by = p)
    BY <1>4, Kinds DEF StoredValue
  <2>3. CsrfTypeOK'
    BY <1>1, <2>1, <1>6, SameTokens, TypesAre, TypesAreNext DEF CsrfInv
  <2>4. session.by \in Processes
    BY DEF CsrfInv, CsrfTypeOK
  <2> QED
    BY <1>1, <1>2, <1>3, <1>4, <2>1, <2>2, <2>3, <2>4 DEF CsrfInv, HasToken, String
<1>5. CASE ~HasToken(StoredValue(p))
  <2>1. session' = [value |-> String(Salt(p)), by |-> p]
    BY <1>5 DEF Render, Generate, GenerateToken
  <2>2. String(Salt(p))' = String(Salt(p)) /\ HasToken(session.value)'
    BY <1>2, <2>1, Kinds DEF String, HasToken
  <2>3. session' \in [value : Values, by : Processes]
    BY <2>1, Kinds
  <2>4. CsrfTypeOK'
    BY <1>1, <1>6, <2>3, SameTokens, TypesAre, TypesAreNext DEF CsrfInv
  <2> QED
    BY <1>1, <1>2, <1>3, <2>1, <2>2, <2>4 DEF CsrfInv
<1> QED
  BY <1>4, <1>5

LEMMA SessionChangesKeeps == ASSUME NEW p \in Processes, CsrfInv, SessionChanges(p) PROVE CsrfInv'
<1>1. UNCHANGED <<fixedSalt, sharedKeys, page, verdict>> /\ foreign' = TRUE
  BY DEF SessionChanges, deployment
<1>2. PICK v \in Damaged : session' = [value |-> v, by |-> p]
  BY DEF SessionChanges
<1>3. v \in Values /\ ~HasToken(v)
  BY Kinds
<1>4. CsrfTypeOK'
  BY <1>1, <1>2, <1>3, SameTokens, TypesAre, TypesAreNext DEF CsrfInv
<1>5. page.token' # NoToken => page.token' = Salt(page.by)'
  BY <1>1 DEF CsrfInv, Salt
<1> QED
  BY <1>1, <1>2, <1>3, <1>4, <1>5 DEF CsrfInv, HasToken

LEMMA OnlyVerdictKeeps ==
    ASSUME CsrfInv, UNCHANGED <<deployment, session, page, foreign>>,
           verdict' \in Reasons \cup {"none", "rendered", "accepted"}
    PROVE  CsrfInv'
<1>1. UNCHANGED fixedSalt /\ UNCHANGED sharedKeys
  BY DEF deployment
<1>2. CsrfTypeOK'
  BY <1>1, SameTokens, TypesAre, TypesAreNext DEF CsrfInv
<1> QED
  BY <1>1, <1>2, SameTokens DEF CsrfInv, HasToken, String

LEMMA CsrfStep == CsrfInv /\ [CsrfNext]_csrfVars => CsrfInv'
<1> SUFFICES ASSUME CsrfInv, [CsrfNext]_csrfVars PROVE CsrfInv'
  OBVIOUS
<1>1. ASSUME NEW p \in Processes, CannotStore(p) PROVE CsrfInv'
  BY <1>1, OnlyVerdictKeeps DEF CannotStore, Reasons
<1>2. ASSUME NEW p \in Processes, NEW ignored \in BOOLEAN, Submit(p, ignored) PROVE CsrfInv'
  <2>1. StoredValue(p) \in Values
    BY <1>2 DEF CsrfInv, CsrfTypeOK, StoredValue, Values, Damaged
  <2>2. \A request : VerifyToken(p, request) \in Reasons \cup {"accepted"}
    <3>1. \A v \in Values : v.kind \in {"absent", "other type", "empty", "string"}
      <4>1. \A k, t : No(k).kind = k /\ String(t).kind = "string"
        BY DEF No, String
      <4> QED
        BY <4>1 DEF Values, Damaged
    <3>2. StoredValue(p).kind \in {"absent", "other type", "empty", "string"}
      BY <2>1, <3>1
    <3> QED
      BY <3>2 DEF VerifyToken, Reasons, HasToken
  <2> QED
    BY <1>2, <2>2, OnlyVerdictKeeps DEF Submit
<1>3. CASE UNCHANGED csrfVars
  BY <1>3, OnlyVerdictKeeps DEF csrfVars, CsrfInv, CsrfTypeOK
<1> QED
  BY <1>1, <1>2, <1>3, RenderKeeps, SessionChangesKeeps DEF CsrfNext

\* The token of the last page is the one its process finds in the session.
LEMMA CsrfInvIsEnough == CsrfInv => PageIsAccepted
<1> SUFFICES ASSUME CsrfInv, page.token # NoToken, ~foreign,
                    NEW p \in Processes,
                    \/ p = page.by /\ (fixedSalt \/ ~sharedKeys)
                    \/ fixedSalt /\ sharedKeys
             PROVE  VerifyToken(p, [i \in DOMAIN Carriers |-> IF i = 4 THEN page.token ELSE NoToken])
                        = "accepted"
  <2>1. CsrfInv => page.by \in Processes
    BY DEF CsrfInv, CsrfTypeOK
  <2> QED
    BY <2>1 DEF PageIsAccepted
<1>1. page.by \in Processes /\ session.by \in Processes /\ page.token = Salt(page.by)
  BY DEF CsrfInv, CsrfTypeOK
<1>2. StoredValue(p) = session.value
  BY DEF CsrfInv, StoredValue
<1>3. session.value = String(page.token) /\ HasToken(session.value)
  BY <1>1 DEF CsrfInv, Salt
<1>4. page.token \in Nat \ {0}
  BY <1>1, SaltIsToken
<1> QED
  BY <1>2, <1>3, <1>4, TokenInForm DEF VerifyToken, HasToken, String

-----------------------------------------------------------------------------
\* Type correctness of the CSRF middleware's model, csrf.go:218-287.
THEOREM CsrfTypes == CsrfSpec => []CsrfTypeOK
<1>1. CsrfInv => CsrfTypeOK
  BY DEF CsrfInv
<1> QED
  BY <1>1, CsrfInitially, CsrfStep, PTL DEF CsrfSpec

\* For any number of processes, a page rendered behind GenerateCSRFMiddleware is
\* accepted by VerifyCSRFMiddleware of its process, and with one salt and shared keys
\* by that of any process, csrf.go:218-287.
THEOREM CsrfAcceptsItsPages == CsrfSpec => []PageIsAccepted
BY CsrfInitially, CsrfStep, CsrfInvIsEnough, PTL DEF CsrfSpec

-----------------------------------------------------------------------------
(* Engine. *)

AllSteps == Range(PrepareSteps)

\* What Prepare leaves behind when it has succeeded ...
PreparedInv ==
    engine.prepared => prepareDone = AllSteps /\ engine.logger # "nil" /\ sentrySdk # "untried"

\* ... and that a gin engine, and a server, come after it only.
RouterInv == (engine.gin => engine.prepared) /\ (engine.serving => engine.gin)

EngineInv == EngineTypeOK /\ PreparedInv /\ RouterInv /\ OneLogger

-----------------------------------------------------------------------------
LEMMA EngineInitially == EngineInit => EngineInv
<1> SUFFICES ASSUME EngineInit PROVE EngineInv
  OBVIOUS
<1>1. EngineTypeOK
  BY DEF EngineInit, EngineTypeOK, Loggers
<1>2. PreparedInv /\ RouterInv /\ OneLogger
  BY DEF EngineInit, PreparedInv, RouterInv, OneLogger
<1> QED
  BY <1>1, <1>2 DEF EngineInv

\* The steps that are done when step k fails are steps of Prepare.
LEMMA StepsBefore ==
    ASSUME NEW k \in DOMAIN PrepareSteps PROVE Range(SubSeq(PrepareSteps, 1, k - 1)) \subseteq AllSteps
<1>1. /\ PrepareSteps \in Seq({"translations", "preload", "database", "sentry"})
      /\ Len(PrepareSteps) = 4 /\ k \in 1..4
  <2>1. PrepareSteps \in Seq({"translations", "preload", "database", "sentry"})
    BY DEF PrepareSteps
  <2>2. Len(PrepareSteps) = 4
    BY DEF PrepareSteps
  <2> QED
    BY <2>1, <2>2
<1>2. \A i \in 1..(k - 1) : SubSeq(PrepareSteps, 1, k - 1)[i] = PrepareSteps[i]
  BY <1>1
<1>3. DOMAIN SubSeq(PrepareSteps, 1, k - 1) = 1..(k - 1)
  BY <1>1
<1>4. \A i \in 1..(k - 1) : i \in DOMAIN PrepareSteps
  BY <1>1
<1> QED
  BY <1>2, <1>3, <1>4 DEF AllSteps, Range

\* Which logger SetLogger and Prepare settle on.
LEMMA ChosenIs ==
    ASSUME EngineTypeOK, NEW log \in {"default", "custom"}
    PROVE  /\ Chosen(log) \in Loggers /\ Chosen(log) # "nil"
           /\ ~engine.prepared /\ engine.logger # "nil" => Chosen(log) = engine.logger
BY DEF EngineTypeOK, Chosen, Loggers

\* What a call leaves of the invariant that has to do with neither the steps of Prepare
\* nor the logger: it moves the other fields of the engine, and what other parts hold.
LEMMA EngineCallKeeps ==
    ASSUME EngineInv, EngineTypeOK',
           engine'.prepared = engine.prepared, engine'.logger = engine.logger,
           UNCHANGED <<prepareDone, sentrySdk, lateLogger>>,
           holds'["Sentry"] = holds["Sentry"], holds'["Utils"] = holds["Utils"],
           engine'.gin => engine.gin \/ engine.prepared,
           engine'.serving => engine'.gin
    PROVE  EngineInv'
<1>1. PreparedInv' /\ OneLogger'
  BY DEF EngineInv, PreparedInv, OneLogger
<1>2. RouterInv'
  BY DEF EngineInv, RouterInv
<1> QED
  BY <1>1, <1>2 DEF EngineInv

\* The types of holds and panicked after a step.
LEMMA GivesIs ==
    ASSUME EngineTypeOK, NEW heir \in {"JobManager", "Zabbix", "gin"}, Gives(heir, engine.logger)
    PROVE  /\ holds' \in [Parts -> Loggers \cup {"absent"}]
           /\ holds'["Sentry"] = holds["Sentry"] /\ holds'["Utils"] = holds["Utils"]
BY DEF EngineTypeOK, Gives, Parts, Loggers

LEMMA SentryHears ==
    ASSUME EngineTypeOK, SentryGetsLogger
    PROVE  /\ holds' \in [Parts -> Loggers \cup {"absent"}]
           /\ holds'["Sentry"] = Chosen("default") /\ holds'["Utils"] = Chosen("default")
<1>1. Chosen("default") \in Loggers
  BY ChosenIs
<1> QED
  BY <1>1 DEF EngineTypeOK, SentryGetsLogger, Parts

LEMMA RefusalKeeps ==
    ASSUME EngineInv,
           NEW method \in {"Prepare", "ConfigureRouter", "Run", "BuildHTTPClient", "InitCSRF",
                           "VerifyCSRFMiddleware", "GenerateCSRFMiddleware"},
           Refuses(method)
    PROVE  EngineInv'
<1>1. EngineTypeOK'
  BY ZenonT(30) DEF EngineInv, EngineTypeOK, Refuses
<1> QED
  BY <1>1, EngineCallKeeps DEF Refuses, EngineInv, RouterInv

LEMMA SetLoggerKeeps == EngineInv /\ SetLogger => EngineInv'
<1> SUFFICES ASSUME EngineInv, SetLogger PROVE EngineInv'
  OBVIOUS
<1>1. Chosen("custom") \in Loggers /\ Chosen("custom") # "nil"
  BY ChosenIs DEF EngineInv
<1>2. /\ engine' = [engine EXCEPT !.logger = Chosen("custom")]
      /\ lateLogger' = (lateLogger \/ engine.prepared) /\ panicked' = "none"
      /\ UNCHANGED <<configured, prepareDone, sentrySdk, holds>>
  BY DEF SetLogger, Returns
<1>3. EngineTypeOK'
  BY <1>1, <1>2 DEF EngineInv, EngineTypeOK
<1>4. /\ engine'.logger = Chosen("custom") /\ engine'.prepared = engine.prepared
      /\ engine'.gin = engine.gin /\ engine'.serving = engine.serving
  BY <1>2 DEF EngineInv, EngineTypeOK
<1>5. PreparedInv' /\ RouterInv'
  BY <1>1, <1>2, <1>4 DEF EngineInv, PreparedInv, RouterInv
<1>6. OneLogger'
  BY <1>2, <1>4 DEF OneLogger
<1> QED
  BY <1>3, <1>5, <1>6 DEF EngineInv

LEMMA PrepareKeeps == EngineInv /\ Prepare => EngineInv'
<1> SUFFICES ASSUME EngineInv, Prepare PROVE EngineInv'
  OBVIOUS
<1>1. Chosen("default") \in Loggers /\ Chosen("default") # "nil"
  BY ChosenIs DEF EngineInv
<1>2. /\ holds' \in [Parts -> Loggers \cup {"absent"}]
      /\ holds'["Sentry"] = Chosen("default") /\ holds'["Utils"] = Chosen("default")
  BY SentryHears DEF EngineInv, Prepare
<1>3. /\ engine' = [engine EXCEPT !.logger = Chosen("default"), !.prepared = TRUE]
      /\ prepareDone' = AllSteps /\ panicked' = "none"
      /\ UNCHANGED <<configured, lateLogger>>
  BY DEF Prepare, Returns, AllSteps
<1>4. sentrySdk' \in {"initialized", "failed"}
  BY DEF Prepare, EngineInv, EngineTypeOK
<1>5. EngineTypeOK'
  BY <1>1, <1>2, <1>3, <1>4 DEF EngineInv, EngineTypeOK, AllSteps
<1>6. /\ engine'.logger = Chosen("default") /\ engine'.prepared
      /\ engine'.gin = engine.gin /\ engine'.serving = engine.serving
  BY <1>3 DEF EngineInv, EngineTypeOK
<1>7. PreparedInv' /\ RouterInv'
  BY <1>1, <1>3, <1>4, <1>6 DEF EngineInv, PreparedInv, RouterInv
<1>8. OneLogger'
  BY <1>2, <1>6 DEF OneLogger
<1> QED
  BY <1>5, <1>7, <1>8 DEF EngineInv

LEMMA PrepareFailsKeeps == EngineInv /\ PrepareFails => EngineInv'
<1> SUFFICES ASSUME EngineInv, PrepareFails PROVE EngineInv'
  OBVIOUS
<1>1. ~engine.prepared /\ panicked' = "Prepare" /\ UNCHANGED <<configured, lateLogger>>
  BY DEF PrepareFails
<1>2. PICK k \in DOMAIN PrepareSteps :
        /\ prepareDone' = prepareDone \cup Range(SubSeq(PrepareSteps, 1, k - 1))
        /\ IF PrepareSteps[k] = "sentry"
           THEN SentryGetsLogger /\ sentrySdk' = "failed"
                /\ engine' = [engine EXCEPT !.logger = Chosen("default")]
           ELSE UNCHANGED <<sentrySdk, holds, engine>>
  BY DEF PrepareFails
<1>3. prepareDone' \subseteq Range(PrepareSteps)
  BY <1>2, StepsBefore DEF EngineInv, EngineTypeOK, AllSteps
<1>4. ~engine'.prepared /\ engine'.gin = engine.gin /\ engine'.serving = engine.serving
  BY <1>1, <1>2 DEF EngineInv, EngineTypeOK
<1>5. EngineTypeOK'
  <2>1. CASE PrepareSteps[k] = "sentry"
    <3>1. Chosen("default") \in Loggers
      BY ChosenIs DEF EngineInv
    <3>2. holds' \in [Parts -> Loggers \cup {"absent"}]
      BY <1>2, <2>1, SentryHears DEF EngineInv
    <3> QED
      BY <1>1, <1>2, <1>3, <2>1, <3>1, <3>2 DEF EngineInv, EngineTypeOK
  <2>2. CASE PrepareSteps[k] # "sentry"
    BY <1>1, <1>2, <1>3, <2>2 DEF EngineInv, EngineTypeOK
  <2> QED
    BY <2>1, <2>2
<1>6. PreparedInv' /\ OneLogger' /\ RouterInv'
  BY <1>1, <1>4 DEF EngineInv, PreparedInv, OneLogger, RouterInv
<1> QED
  BY <1>5, <1>6 DEF EngineInv

\* The calls that change one other field of the engine.
LEMMA FieldKeeps ==
    ASSUME EngineInv, panicked' = "none",
           UNCHANGED <<configured, prepareDone, sentrySdk, holds, lateLogger>>,
           \/ engine' = [engine EXCEPT !.client = "its own"]
           \/ engine' = [engine EXCEPT !.sessions = TRUE]
           \/ engine' = [engine EXCEPT !.csrf = TRUE]
           \/ engine.prepared /\ engine' = [InitGin(engine) EXCEPT !.routes = TRUE]
           \/ engine.prepared /\ engine' = [InitGin(engine) EXCEPT !.serving = TRUE]
    PROVE  EngineInv'
<1>1. EngineTypeOK'
  BY DEF EngineInv, EngineTypeOK, InitGin
<1>2. /\ engine'.prepared = engine.prepared /\ engine'.logger = engine.logger
      /\ engine'.gin => engine.gin \/ engine.prepared
      /\ engine'.serving => engine'.gin
  BY DEF EngineInv, EngineTypeOK, RouterInv, InitGin
<1> QED
  BY <1>1, <1>2, EngineCallKeeps

LEMMA EngineTypesStay == EngineTypeOK /\ UNCHANGED engineVars => EngineTypeOK'
BY DEF EngineTypeOK, engineVars

LEMMA EngineStep == EngineInv /\ [EngineNext]_engineVars => EngineInv'
<1> SUFFICES ASSUME EngineInv, [EngineNext]_engineVars PROVE EngineInv'
  OBVIOUS
<1>1. CASE LoadConfig
  <2>1. EngineTypeOK'
    BY <1>1 DEF LoadConfig, Returns, EngineInv, EngineTypeOK
  <2> QED
    BY <1>1, <2>1, EngineCallKeeps DEF LoadConfig, EngineInv, RouterInv
<1>2. CASE PrepareRefused \/ RouterRefused \/ BuildFails \/ CSRFRefused
  BY <1>2, RefusalKeeps DEF PrepareRefused, RouterRefused, BuildFails, CSRFRefused
<1>3. CASE MakeJobManager \/ UseZabbix \/ HijackGinLogs
  <2>1. /\ panicked' = "none" /\ UNCHANGED <<configured, engine, prepareDone, sentrySdk, lateLogger>>
        /\ UNCHANGED holds \/ \E heir \in {"JobManager", "Zabbix", "gin"} : Gives(heir, engine.logger)
    BY <1>3 DEF MakeJobManager, UseZabbix, HijackGinLogs, Returns
  <2>2. /\ holds' \in [Parts -> Loggers \cup {"absent"}]
        /\ holds'["Sentry"] = holds["Sentry"] /\ holds'["Utils"] = holds["Utils"]
    BY <2>1, GivesIs DEF EngineInv, EngineTypeOK
  <2>3. EngineTypeOK'
    BY <2>1, <2>2 DEF EngineInv, EngineTypeOK
  <2> QED
    BY <2>1, <2>2, <2>3, EngineCallKeeps DEF EngineInv, RouterInv
<1>4. CASE ConfigureRouter \/ Run \/ BuildHTTPClient \/ WithSessions \/ InitCSRF
  BY <1>4, FieldKeeps
     DEF ConfigureRouter, Run, BuildHTTPClient, WithSessions, InitCSRF, Returns, RouterReady
<1>5. CASE UNCHANGED engineVars
  <2>1. EngineTypeOK'
    BY <1>5, EngineTypesStay DEF EngineInv
  <2> QED
    BY <1>5, <2>1, EngineCallKeeps DEF engineVars, EngineInv, RouterInv
<1> QED
  BY <1>1, <1>2, <1>3, <1>4, <1>5, SetLoggerKeeps, PrepareKeeps, PrepareFailsKeeps DEF EngineNext

-----------------------------------------------------------------------------
\* Type correctness of the engine's fields (engine.go:50-108).
THEOREM EngineTypes == EngineSpec => []EngineTypeOK
<1>1. EngineInv => EngineTypeOK
  BY DEF EngineInv
<1> QED
  BY <1>1, EngineInitially, EngineStep, PTL DEF EngineSpec

\* Whatever is called before, fails and is tried again, nothing is served that is not
\* prepared, and Sentry and Utils write to the engine's logger (engine.go:128-169, 240-278).
THEOREM EngineIsReady == EngineSpec => []PreparedMeansReady
<1>1. EngineInv => PreparedMeansReady
  BY DEF EngineInv, PreparedInv, RouterInv, AllSteps, PreparedMeansReady, ServesOnlyPrepared
<1> QED
  BY <1>1, EngineInitially, EngineStep, PTL DEF EngineSpec

-----------------------------------------------------------------------------
(* MCApplication: what is proved of a part holds of it in the application. *)

\* Each part starts as its own specification says ...
LEMMA PartsStart ==
    ApplicationInit =>
        /\ ManagerInit /\ MigrationsInit /\ RequestsInit /\ CsrfInit /\ EngineInit
        /\ LogInit /\ TextInit /\ DefaultLoggerInit /\ HttpInit /\ ScopesInit /\ DomainsInit
BY DEF ApplicationInit

\* ... and takes its own steps, whichever part a step of the application is of.
LEMMA PartsMove ==
    [ApplicationNext]_applicationVars =>
        /\ [ManagerNext]_managerVars /\ [MigrationsNext]_migrationVars
        /\ [RequestsNext]_requestVars /\ [CsrfNext]_csrfVars
        /\ [EngineNext]_engineVars /\ [LogNext]_logVars /\ [WriteText]_text
        /\ [DefaultLoggerNext]_loggerVars
        /\ [HttpNext]_httpVars /\ [ScopesNext]_scopeVars /\ [DomainsNext]_domainVars
<1> SUFFICES ASSUME [ApplicationNext]_applicationVars
             PROVE  /\ [ManagerNext]_managerVars /\ [MigrationsNext]_migrationVars
                    /\ [RequestsNext]_requestVars /\ [CsrfNext]_csrfVars
                    /\ [EngineNext]_engineVars /\ [LogNext]_logVars /\ [WriteText]_text
                    /\ [DefaultLoggerNext]_loggerVars
                    /\ [HttpNext]_httpVars /\ [ScopesNext]_scopeVars /\ [DomainsNext]_domainVars
  OBVIOUS
<1>1. CASE UNCHANGED applicationVars
  BY <1>1 DEF applicationVars
<1>2. CASE ApplicationNext
  BY <1>2 DEF ApplicationNext, Only
<1> QED
  BY <1>1, <1>2

\* The application implements the specification of each of its parts.
THEOREM PartsRun ==
    ApplicationSpec =>
        /\ ManagerSpec /\ MigrationsSpec /\ RequestsSpec /\ CsrfSpec /\ EngineSpec
        /\ LogSpec /\ TextSpec /\ DefaultLoggerSpec /\ HttpSpec /\ ScopesSpec /\ DomainsSpec
BY PartsStart, PartsMove, PTL
   DEF ApplicationSpec, ManagerSpec, MigrationsSpec, RequestsSpec, CsrfSpec, EngineSpec,
       LogSpec, TextSpec, DefaultLoggerSpec, HttpSpec, ScopesSpec, DomainsSpec

\* Every variable of these parts keeps its type.
THEOREM ApplicationTypes == ApplicationSpec => []ApplicationTypeOK
<1>1. DefaultLoggerSpec => []DefaultLoggerTypeOK
  <2>1. LoggerInv => DefaultLoggerTypeOK
    BY DEF LoggerInv
  <2> QED
    BY <2>1, LoggerInitially, LoggerStep, PTL DEF DefaultLoggerSpec
<1>2. HttpSpec => []HttpTypeOK
  BY HttpInitially, HttpStep, PTL DEF HttpSpec
<1> QED
  BY <1>1, <1>2, PartsRun, ManagerTypes, MigrationTypes, RequestTypes, CsrfTypes, EngineTypes,
     DomainsTypes, PTL DEF ApplicationTypeOK

\* What is proved of the parts holds of the application whose runs TLC checks; of
\* migrations if later builds add later versions (migration_generator.go:63).
THEOREM ApplicationIsSafe ==
    ApplicationSpec =>
        /\ [](/\ ListsRunInOrder /\ NoHoles /\ OkMeansReached
              /\ OwnLanguage /\ FailuresAreTold /\ PageIsAccepted /\ PreparedMeansReady
              /\ JudgedByFreshDomains /\ LogSaysWhatWasLogged
              /\ TunnelFirstMatch /\ MissingScopes)
        /\ UpdateLeavesJob
<1>1. MigrationsSpec => []NoHoles /\ []OkMeansReached
  BY ApplicationAssumption, RowsHaveNoHoles, CallsReach
<1> QED
  BY <1>1, PartsRun, ListsAreInOrder, JobsAreLeft, RequestsAnswerInTheirLanguage,
     RequestFailuresAreTold, CsrfAcceptsItsPages, EngineIsReady, DomainsAreFresh,
     LineReadsAsJson, TextIsWhatWasWritten, LoggerSaysTheLatest, TunnelTakesFirstMatch, ScopesAreMissing,
     PTL DEF LogSaysWhatWasLogged
=============================================================================
