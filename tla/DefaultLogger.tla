--------------------------- MODULE DefaultLogger ---------------------------
(***************************************************************************)
(* Default of src/core/logger/default.go: a logger derives others with     *)
(* With, ForHandler, ForConnection and ForAccount; the last three replace  *)
(* their own field when they are called again.  Each logger stays usable,  *)
(* so the state is one chain of calls.                                     *)
(***************************************************************************)
EXTENDS Integers, Sequences, FiniteSets, SequencesExt

CONSTANTS
    FieldValues,       \* what the fields are given
    MaxChain       \* bound: calls in the chain

Identities == {"handler", "connection", "account"}
Keys == Identities \cup {"other"}
NoLogger == <<[key |-> "none", value |-> "none"]>>

VARIABLES
    zap,      \* the fields of the embedded zap.Logger, in order
    parent,   \* the fields of parent, or NoLogger
    previous, \* the identity whose method made this logger, or "none"
    calls     \* history: the calls of the chain, a key and a value each

loggerVars == <<zap, parent, previous, calls>>

Fields == [key : Keys, value : FieldValues]

DefaultLoggerTypeOK ==
    /\ zap \in Seq(Fields) /\ calls \in Seq(Fields)
    /\ parent = NoLogger \/ parent \in Seq(Fields)
    /\ previous \in Identities \cup {"none"}

DefaultLoggerInit == zap = <<>> /\ parent = NoLogger /\ previous = "none" /\ calls = <<>>

Records(key, v) ==
    /\ Len(calls) < MaxChain
    /\ calls' = Append(calls, [key |-> key, value |-> v])

\* clone keeps the parent, or makes this logger the parent.
ParentOrCurrent == IF parent = NoLogger THEN zap ELSE parent

WithField(v) ==
    /\ Records("other", v)
    /\ zap' = Append(zap, [key |-> "other", value |-> v])
    /\ parent' = ParentOrCurrent
    /\ previous' = "none"

\* ForHandler, ForConnection and ForAccount: after the same method, with its parent.
For(key, v) ==
    /\ Records(key, v)
    /\ zap' = Append(IF previous = key THEN ParentOrCurrent ELSE zap, [key |-> key, value |-> v])
    /\ parent' = IF previous = key THEN ParentOrCurrent ELSE zap
    /\ previous' = key

DefaultLoggerNext == \E v \in FieldValues : WithField(v) \/ \E key \in Identities : For(key, v)

DefaultLoggerSpec == DefaultLoggerInit /\ [][DefaultLoggerNext]_loggerVars

-----------------------------------------------------------------------------
(* Properties. *)

\* The value of the last field with a key, the one a reader of the line keeps.
ValueOf(list, key) ==
    LET last == SelectLastInSeq(list, LAMBDA f : f.key = key)
    IN  IF last = 0 THEN "none" ELSE list[last].value

\* A key has the value it was given last.
LastValueWins == \A key \in Keys : ValueOf(zap, key) = ValueOf(calls, key)

\* The fields that With was given.
KeepsWith(kept, f) == IF f.key = "other" THEN Append(kept, f) ELSE kept
WithFields(list) == FoldLeft(KeepsWith, <<>>, list)

\* No field that With was given is lost.
WithIsKept == WithFields(zap) = WithFields(calls)

\* With, or another identity, is called before an identity is there twice.
NoneTwiceInRow ==
    \A i \in DOMAIN zap \ {Len(zap)} : zap[i].key \in Identities => zap[i + 1].key # zap[i].key

\* What a line says of its logger, whatever the chain of calls that made it.
LatestFieldLast == LastValueWins /\ WithIsKept /\ NoneTwiceInRow
=============================================================================
