------------------------------ MODULE LogLine ------------------------------
(***************************************************************************)
(* src/core/logger/json_with_context_encoder.go: how With and Log write    *)
(* fields into the buffers of an encoder.  A buffer is a sequence of       *)
(* tokens: the six of JSON, "text" for a quoted string and "value" for any *)
(* other scalar; LogText has what is inside the quotes.                    *)
(***************************************************************************)
EXTENDS Integers, Sequences, FiniteSets, SequencesExt

CONSTANTS
    LogFields,     \* the fields With and Log are called with, see FieldTypes
    MaxWithFields  \* bound: fields of the logger

VARIABLES
    encoder, \* the encoder of the logger: buf and openNamespaces
    withs,   \* the number of fields it has
    line     \* the line it has written

logVars == <<encoder, withs, line>>

\* A scalar with a key of its own, one without; a reflected value that cannot be
\* marshaled, an array and an object of such members, a namespace.
Members == {"scalar", "namespace"}
FieldTypes == [type : {"scalar", "context", "unmarshalable", "namespace"}, of : {<<>>}]
    \cup [type : {"array", "object"}, of : Seq(Members)]

ASSUME LogAssumption == LogFields \subseteq FieldTypes /\ MaxWithFields \in Nat

-----------------------------------------------------------------------------
Write(enc, tokens) == [enc EXCEPT !.buf = @ \o tokens]

\* A comma, unless the last byte shows that none is needed.
AddElementSeparator(enc) ==
    IF enc.buf = <<>> \/ Last(enc.buf) \in {"{", "[", ":", ","} THEN enc ELSE Write(enc, <<",">>)

AddKey(enc) == Write(AddElementSeparator(enc), <<"text", ":">>)
AppendScalar(enc) == Write(AddElementSeparator(enc), <<"value">>)
AppendString(enc) == Write(AddElementSeparator(enc), <<"text">>)

\* A time, level, name or caller goes through an encoder of the configuration; if that
\* writes nothing, a plain value is appended.
AppendEncoded(enc, writes) == IF writes THEN AppendString(enc) ELSE AppendScalar(enc)

AddScalar(enc) == AppendScalar(AddKey(enc))

\* A value is marshaled before anything is written.
AddReflected(enc, marshals) == IF marshals THEN AddScalar(enc) ELSE enc

OpenNamespace(enc) == [Write(AddKey(enc), <<"{">>) EXCEPT !.openNamespaces = @ + 1]

CloseOpenNamespaces(enc) ==
    [Write(enc, [i \in 1..enc.openNamespaces |-> "}"]) EXCEPT !.openNamespaces = 0]

AddMember(enc, m) == IF m = "namespace" THEN OpenNamespace(enc) ELSE AddScalar(enc)

Faulty_AppendObject(enc, members) ==
    LET opened == Write(AddElementSeparator(enc), <<"{">>)
    IN  CloseOpenNamespaces(Write(FoldLeft(AddMember, opened, members), <<"}">>))

\* Only the namespaces opened in the object are closed with it.
AppendObject(enc, members) ==
    LET opened == Write([AddElementSeparator(enc) EXCEPT !.openNamespaces = 0], <<"{">>)
        closed == CloseOpenNamespaces(Write(FoldLeft(AddMember, opened, members), <<"}">>))
    IN  [closed EXCEPT !.openNamespaces = enc.openNamespaces]

\* The elements of an array are scalars, or objects with a namespace.
AppendElement(enc, m) == IF m = "namespace" THEN AppendObject(enc, <<m, "scalar">>) ELSE AppendScalar(enc)

AppendArray(enc, members) ==
    Write(FoldLeft(AppendElement, Write(AddElementSeparator(enc), <<"[">>), members), <<"]">>)

\* zap's Field.AddTo (a library); an error of AddReflected becomes a string.
AddTo(enc, f) ==
    CASE f.type = "scalar" -> AddScalar(enc)
      [] f.type = "context" -> AddReflected(enc, TRUE)
      [] f.type = "unmarshalable" -> AppendString(AddKey(AddReflected(enc, FALSE)))
      [] f.type = "namespace" -> OpenNamespace(enc)
      [] f.type = "array" -> AppendArray(AddKey(enc), f.of)
      [] f.type = "object" -> AppendObject(AddKey(enc), f.of)

\* Of the fields of an entry the four identities stay as they are, all others become
\* one map, which is a reflected value; what is no string, error or number is lost.
AddIdentity(enc, f) == IF f.type = "scalar" THEN AddTo(enc, f) ELSE enc

AddFields(enc, fields) ==
    LET identified == FoldLeft(AddIdentity, enc, fields)
        entries == {fields[i].type : i \in DOMAIN fields} \ {"scalar"}
    IN  IF entries = {} THEN identified
        ELSE AddTo(identified, [type |-> IF "unmarshalable" \in entries THEN "unmarshalable" ELSE "context",
                                of |-> <<>>])

\* The parts an entry may have before the logger's fields; writes: do the encoders of
\* the configuration write something?
EntryParts(enc, parts, writes) ==
    LET EntryPart(e, i) == AppendEncoded(AddKey(e), writes)
    IN  FoldLeft(EntryPart, enc, [i \in 1..parts |-> i])

\* The clone starts with the open namespaces of the logger's encoder.
EncodeEntry(enc, parts, writes, fields, stack) ==
    LET entry == EntryParts([buf |-> <<"{">>, openNamespaces |-> enc.openNamespaces], parts, writes)
        logger == IF enc.buf = <<>> THEN entry ELSE Write(AddElementSeparator(entry), enc.buf)
        closed == CloseOpenNamespaces(AddFields(logger, fields))
    IN  (IF stack THEN AppendString(AddKey(closed)) ELSE closed).buf \o <<"}">>

-----------------------------------------------------------------------------
LogInit ==
    /\ encoder = [buf |-> <<>>, openNamespaces |-> 0]
    /\ withs = 0 /\ line = <<>>

\* A child of the logger: a clone of its encoder with one field more.
With(f) ==
    /\ withs < MaxWithFields
    /\ encoder' = AddTo(encoder, f)
    /\ withs' = withs + 1
    /\ line' = <<>>

\* One entry of each logger; writing it leaves the encoder as it was.
Log(parts, writes, fields, stack) ==
    /\ line = <<>>
    /\ line' = EncodeEntry(encoder, parts, writes, fields, stack)
    /\ UNCHANGED <<encoder, withs>>

LogNext ==
    \/ \E f \in LogFields : With(f)
    \/ \E f, g \in LogFields, n \in 0..2, parts \in {0, 2}, writes, stack \in BOOLEAN :
        Log(parts, writes, SubSeq(<<f, g>>, 1, n), stack)

LogSpec == LogInit /\ [][LogNext]_logVars

-----------------------------------------------------------------------------
(* Properties. *)

\* What may follow, after a token at the end of a legal prefix: where is the stack of
\* open brackets, and expects one of "key or end", "key", "colon", "element",
\* "element or end", "more".
Reads(p, t) ==
    LET inner == IF p.where = <<>> THEN "none" ELSE Last(p.where)
        open == [where |-> Append(p.where, t), expects |-> IF t = "{" THEN "key or end" ELSE "element or end"]
        close == [where |-> Front(p.where), expects |-> "more"]
        bad == [where |-> <<>>, expects |-> "nothing"]
        element == p.expects \in {"element", "element or end"}
    IN  CASE t \in {"{", "["} /\ element -> open
          [] t \in {"text", "value"} /\ element -> [p EXCEPT !.expects = "more"]
          [] t = "text" /\ p.expects \in {"key", "key or end"} -> [p EXCEPT !.expects = "colon"]
          [] t = ":" /\ p.expects = "colon" -> [p EXCEPT !.expects = "element"]
          [] t = "," /\ p.expects = "more" /\ inner # "none" ->
                [p EXCEPT !.expects = IF inner = "{" THEN "key" ELSE "element"]
          [] t = "}" /\ inner = "{" /\ p.expects \in {"more", "key or end"} -> close
          [] t = "]" /\ inner = "[" /\ p.expects \in {"more", "element or end"} -> close
          [] OTHER -> bad

\* Every line is one JSON object, whatever namespaces, nested values, failing values
\* and silent encoders went into the logger and the entry.
LineIsWellFormed ==
    /\ encoder.openNamespaces <= withs
    /\ line # <<>> => line[1] = "{" /\
        FoldLeft(Reads, [where |-> <<>>, expects |-> "element"], line) = [where |-> <<>>, expects |-> "more"]
=============================================================================
