------------------------------- MODULE Scopes -------------------------------
(***************************************************************************)
(* GetAPIClient and checkScopes of src/core/util/utils.go: which of the    *)
(* required scopes an API key lacks.  The loop deletes from the array its  *)
(* range goes over; the slice is the first len elements of arr.            *)
(***************************************************************************)
EXTENDS Integers, Sequences, FiniteSets, SequencesExt

CONSTANTS
    ScopeNames,
    MaxScopes  \* bound: scopes in a list

ASSUME ScopesAssumption == MaxScopes \in Nat

VARIABLES
    given,  \* the scopes and credentials the API names, and those the caller requires
    client  \* what GetAPIClient returned: a client, an error or what is missing; or nothing yet

scopeVars == <<given, client>>

Lists == UNION {[1..n -> ScopeNames] : n \in 0..MaxScopes}

Slice(s) == SubSeq(s.arr, 1, s.len)

Faulty_Delete(s, k) ==
    [s EXCEPT !.arr = [i \in DOMAIN @ |-> IF i = k THEN @[s.len] ELSE @[i]], !.len = @ - 1]

\* append(rs[:k], rs[k+1:]...): the rest moves down, the last place keeps its value.
Delete(s, k) ==
    [s EXCEPT !.arr = [i \in DOMAIN @ |-> IF i \in k..(s.len - 1) THEN @[i + 1] ELSE @[i]], !.len = @ - 1]

\* One scope of the key: the range has the length the slice had at its start.
RemoveScope(s, scope) ==
    LET Step(t, k) ==
            IF t.stop \/ t.arr[k] # scope THEN t
            ELSE IF t.len = 1 THEN [t EXCEPT !.len = 0, !.stop = TRUE] ELSE Delete(t, k)
        end == FoldLeft(Step, [s EXCEPT !.stop = FALSE], [k \in 1..s.len |-> k])
    IN  end

CheckScopes(scopes, required) ==
    Slice(FoldLeft(RemoveScope, [arr |-> required, len |-> Len(required), stop |-> FALSE], scopes))

\* With no scopes at all in the answer, the credentials the caller names decide.
GetAPIClient(scopes, credentials, required, requiredCredentials) ==
    LET missing == CheckScopes(scopes, required)
    IN  CASE missing = <<>> -> [got |-> "client", missing |-> <<>>]
          [] missing # <<>> /\ (requiredCredentials = <<>> \/ scopes # <<>>) ->
                [got |-> "insufficient", missing |-> missing]
          [] OTHER ->
                LET m == CheckScopes(credentials, requiredCredentials[1])
                IN  [got |-> IF m = <<>> THEN "client" ELSE "insufficient", missing |-> m]

ScopesInit ==
    /\ given \in [scopes : Lists, required : {l \in Lists : IsInjective(l)}]
    /\ client = [got |-> "nothing", missing |-> <<>>]

\* The API answers, or does not.
Credentials(credentials, requiredCredentials) ==
    /\ client.got = "nothing"
    /\ client' = GetAPIClient(given.scopes, credentials, given.required, requiredCredentials)
    /\ UNCHANGED given

APIFails ==
    /\ client.got = "nothing"
    /\ client' = [got |-> "error", missing |-> <<>>]
    /\ UNCHANGED given

ScopesNext ==
    \/ \E c \in Lists, r \in {<<>>, <<<<>>>>} \cup {<<<<n>>>> : n \in ScopeNames} : Credentials(c, r)
    \/ APIFails

ScopesSpec == ScopesInit /\ [][ScopesNext]_scopeVars

-----------------------------------------------------------------------------
(* Properties. *)

\* The required scopes that the key does not have, in their order.
IsLacking(list) ==
    /\ Range(list) = Range(given.required) \ Range(given.scopes)
    /\ \A i, j \in DOMAIN list : i < j =>
        \E a, b \in DOMAIN given.required :
            a < b /\ given.required[a] = list[i] /\ given.required[b] = list[j]

\* The scopes reported as missing are those of the required ones, each named once,
\* that the key does not have, in their order; a client has them all.
MissingScopes ==
    given.scopes # <<>> =>
        /\ client.got = "insufficient" => IsLacking(client.missing)
        /\ client.got = "client" => Range(given.required) \subseteq Range(given.scopes)
=============================================================================
