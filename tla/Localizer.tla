----------------------------- MODULE Localizer -----------------------------
(***************************************************************************)
(* src/core/localizer.go: the localizer of the application, the clones the *)
(* requests get, and the bundles of translations all of them share.  A     *)
(* bundle is loaded under loadMutex the first time its language is chosen, *)
(* and a load that fails panics.  The module features uploader chooses its *)
(* languages on the localizer it was given, the shared one.                *)
(***************************************************************************)
EXTENDS Integers, Sequences, FiniteSets, SequencesExt, FiniteSetsExt

CONSTANTS
    Requests,         \* the requests, each with a clone
    Tags,             \* the language tags of the matcher
    DefaultLanguage,
    PreloadLanguages, \* what Prepare loads beside the language of the shared localizer
    UploadLanguages,  \* the sequence of the languages the uploader translates to
    Root              \* GetRootLanguageTag, a function of a tag

Shared == "shared"
Localizers == Requests \cup {Shared}

ASSUME LocalizerAssumption ==
    /\ DefaultLanguage \in Tags /\ PreloadLanguages \subseteq Tags
    /\ UploadLanguages \in Seq(Tags)
    /\ Root \in [Tags -> Tags]
    /\ Shared \notin Requests /\ "nobody" \notin Localizers

VARIABLES
    bundles,   \* i18nStorage: the languages with a bundle
    tag,       \* LanguageTag of each localizer
    loadMutex, \* who holds it, or "nobody"
    toSet,     \* the languages a goroutine has still to choose
    choosing   \* where its SetLanguage is

localizerVars == <<bundles, tag, loadMutex, toSet, choosing>>

\* The goroutine of a request has a localizer of its own, the uploader the shared one.
Goroutines == Localizers

LocalizerTypeOK ==
    /\ bundles \subseteq Tags
    /\ tag \in [Localizers -> Tags]
    /\ loadMutex \in Goroutines \cup {"nobody"}
    /\ toSet \in [Goroutines -> Seq(Tags)]
    /\ choosing \in [Goroutines -> {"done", "wants lock", "loads", "panics"}]
    /\ \A g \in Goroutines : choosing[g] = "loads" <=> loadMutex = g

\* Prepare has chosen a language for the shared localizer and loaded bundles.
LocalizerInit ==
    /\ tag = [l \in Localizers |-> DefaultLanguage]
    /\ bundles = PreloadLanguages \cup {tag[Shared]}
    /\ loadMutex = "nobody"
    /\ toSet = [g \in Goroutines |-> <<>>]
    /\ choosing = [g \in Goroutines |-> "done"]

Faulty_Clone(g) == Shared

\* The localizer a goroutine works with; the clone of a request is its own.
Clone(g) == g

Settled(g) == toSet[g] = <<>> /\ choosing[g] = "done"

\* What the middleware does with the new clone, header being the matched language.
LocalizationMiddleware(g, header) == toSet' = [toSet EXCEPT ![g] = <<DefaultLanguage, header>>]

\* The header's language again, and its root (whose second load finds the bundle).
GetContextLocalizer(g, header) ==
    toSet' = [toSet EXCEPT ![g] = <<header>> \o (IF Root[header] = header THEN <<>> ELSE <<Root[header]>>)]

SetLanguage(g) ==
    /\ choosing[g] = "done" /\ toSet[g] # <<>>
    /\ tag' = [tag EXCEPT ![Clone(g)] = Head(toSet[g])]
    /\ toSet' = [toSet EXCEPT ![g] = Tail(@)]
    /\ choosing' = [choosing EXCEPT ![g] = "wants lock"]
    /\ UNCHANGED <<bundles, loadMutex>>

LockLoadMutex(g) ==
    /\ choosing[g] = "wants lock" /\ loadMutex = "nobody"
    /\ loadMutex' = g
    /\ choosing' = [choosing EXCEPT ![g] = "loads"]
    /\ UNCHANGED <<bundles, tag, toSet>>

\* getLocalizer returns the bundle, or stores it and returns nil.
Found(l) == tag[l] \in bundles
StoreBundle(l) == bundles' = bundles \cup {tag[l]}

LoadTranslations(g) ==
    /\ choosing[g] = "loads"
    /\ StoreBundle(Clone(g))
    /\ loadMutex' = "nobody"
    /\ choosing' = [choosing EXCEPT ![g] = "done"]
    /\ UNCHANGED <<tag, toSet>>

Faulty_LoadPanics(g) ==
    /\ choosing[g] = "loads" /\ ~Found(Clone(g))
    /\ choosing' = [choosing EXCEPT ![g] = "panics"]
    /\ toSet' = [toSet EXCEPT ![g] = <<>>]
    /\ UNCHANGED <<bundles, tag, loadMutex>>

\* A file cannot be read or parsed: the deferred Unlock runs, the panic goes on.
LoadPanics(g) ==
    /\ choosing[g] = "loads" /\ ~Found(Clone(g))
    /\ choosing' = [choosing EXCEPT ![g] = "panics"]
    /\ toSet' = [toSet EXCEPT ![g] = <<>>]
    /\ loadMutex' = "nobody"
    /\ UNCHANGED <<bundles, tag>>

\* Upload translates to one language after the other; it is called again and again,
\* also after a load panicked.
Upload ==
    /\ toSet[Shared] = <<>> /\ choosing[Shared] \in {"done", "panics"}
    /\ toSet' = [toSet EXCEPT ![Shared] = UploadLanguages]
    /\ choosing' = [choosing EXCEPT ![Shared] = "done"]
    /\ UNCHANGED <<bundles, tag, loadMutex>>

LocalizerStep(g) == SetLanguage(g) \/ LockLoadMutex(g) \/ LoadTranslations(g) \/ LoadPanics(g)
=============================================================================
