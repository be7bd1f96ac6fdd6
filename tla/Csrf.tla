-------------------------------- MODULE Csrf --------------------------------
(***************************************************************************)
(* src/core/middleware/csrf.go: one browser and the processes of an        *)
(* application that answer it, several replicas or one after the other.    *)
(* Each process has a salt; the token is a hash of the salt and the secret,*)
(* so a token stands for a salt.  The session is a cookie that a process   *)
(* with another key cannot read (a library): it sees a new session then.   *)
(***************************************************************************)
EXTENDS Integers, Sequences

CONSTANT Processes  \* numbers

ASSUME CsrfAssumption == Processes \subseteq Nat \ {0}

VARIABLES
    fixedSalt,  \* was a salt given to NewCSRF?  Engine.InitCSRF never gives one
    sharedKeys, \* do the processes share the keys of the session store?
    session, \* csrf_token in the session's values, and the process that wrote it
    page,    \* the last page rendered: the token in its form, and by whom
    foreign, \* history: was the session changed by something else since?
    verdict  \* what the last request got

deployment == <<fixedSalt, sharedKeys>>
csrfVars == <<deployment, session, page, foreign, verdict>>

NoToken == 0
Salt(p) == IF fixedSalt THEN 1 ELSE p
GenerateToken(p) == Salt(p)

\* Beside a token, the value may be empty or of another type, or absent.
No(kind) == [kind |-> kind, token |-> NoToken]
String(token) == [kind |-> "string", token |-> token]
Damaged == {No("absent"), No("empty"), No("other type")}
Values == Damaged \cup {String(Salt(p)) : p \in Processes}
Reasons == {"NoTokenInSession", "CannotStoreTokenInSession", "IncorrectTokenType", "EmptyToken", "TokenMismatch"}

CsrfTypeOK ==
    /\ fixedSalt \in BOOLEAN /\ sharedKeys \in BOOLEAN
    /\ session \in [value : Values, by : Processes]
    /\ page \in [token : {NoToken} \cup {Salt(p) : p \in Processes}, by : Processes]
    /\ foreign \in BOOLEAN
    /\ verdict \in Reasons \cup {"none", "rendered", "accepted"}

CsrfInit ==
    /\ fixedSalt \in BOOLEAN /\ sharedKeys \in BOOLEAN
    /\ session \in [value : {No("absent")}, by : Processes]
    /\ page \in [token : {NoToken}, by : Processes]
    /\ foreign = FALSE /\ verdict = "none"

\* store.Get, its error ignored.
StoredValue(p) == IF sharedKeys \/ session.by = p THEN session.value ELSE No("absent")
HasToken(value) == value.kind = "string"

\* The token of this request's fillToken, or one made again.
CSRFFromContext(p, ctx) == IF ctx # NoToken THEN ctx ELSE GenerateToken(p)

Faulty_Generate(p) ==
    IF StoredValue(p).kind # "absent"
    THEN [filled |-> FALSE, ctx |-> NoToken]
    ELSE [filled |-> TRUE, ctx |-> GenerateToken(p)]

\* The generator keeps a token it finds and fills in one for anything else.
Generate(p) ==
    IF HasToken(StoredValue(p))
    THEN [filled |-> FALSE, ctx |-> NoToken]
    ELSE [filled |-> TRUE, ctx |-> GenerateToken(p)]

\* p renders a page with a form, behind GenerateCSRFMiddleware.
Render(p) ==
    LET g == Generate(p)
    IN  /\ session' = IF g.filled THEN [value |-> String(g.ctx), by |-> p] ELSE session
        /\ page' = [token |-> CSRFFromContext(p, g.ctx), by |-> p]
        /\ foreign' = FALSE
        /\ verdict' = "rendered"
        /\ UNCHANGED deployment

\* The session cannot be saved: no page.
CannotStore(p) ==
    /\ Generate(p).filled
    /\ verdict' = "CannotStoreTokenInSession"
    /\ UNCHANGED <<deployment, session, page, foreign>>

\* DefaultCSRFTokenGetter: the query, two headers, and the form, whose body is put back.
Carriers == <<"query", "X-CSRF-Token", "X-XSRF-Token", "form">>
TokenGetter(request) ==
    LET filled == {i \in DOMAIN Carriers : request[i] # NoToken}
    IN  IF filled = {} THEN NoToken ELSE request[CHOOSE i \in filled : \A j \in filled : i <= j]

VerifyToken(p, request) ==
    LET value == StoredValue(p)
    IN  CASE value.kind = "absent" -> "NoTokenInSession"
          [] value.kind = "other type" -> "IncorrectTokenType"
          [] value.kind = "empty" -> "EmptyToken"
          [] HasToken(value) -> IF TokenGetter(request) = value.token THEN "accepted" ELSE "TokenMismatch"

\* The page is sent to p, with its token in one of the carriers or forgotten.
SentWith(token) == {[i \in DOMAIN Carriers |-> IF i = c THEN token ELSE NoToken] : c \in 0..Len(Carriers)}

Submit(p, ignored) ==
    /\ \E request \in SentWith(page.token) :
        verdict' = IF ignored THEN "accepted" ELSE VerifyToken(p, request)
    /\ UNCHANGED <<deployment, session, page, foreign>>

\* The cookie expires, or other code of the application writes to the session.
SessionChanges(p) ==
    /\ \E v \in Damaged : session' = [value |-> v, by |-> p]
    /\ foreign' = TRUE
    /\ UNCHANGED <<deployment, page, verdict>>

CsrfNext == \E p \in Processes :
    Render(p) \/ CannotStore(p) \/ SessionChanges(p) \/ \E ignored \in BOOLEAN : Submit(p, ignored)

CsrfSpec == CsrfInit /\ [][CsrfNext]_csrfVars

-----------------------------------------------------------------------------
\* A page is accepted by the process that rendered it, in whatever state it and the
\* others had found the session; with one salt and shared keys by every process.
\* (Shared keys with a salt of each process's own break it: the generator keeps the
\* token of another process and renders its own.)
PageIsAccepted ==
    LET sent == [i \in DOMAIN Carriers |-> IF i = 4 THEN page.token ELSE NoToken]
    IN  page.token # NoToken /\ ~foreign =>
            /\ fixedSalt \/ ~sharedKeys => VerifyToken(page.by, sent) = "accepted"
            /\ fixedSalt /\ sharedKeys => \A p \in Processes : VerifyToken(p, sent) = "accepted"
=============================================================================
