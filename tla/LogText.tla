------------------------------ MODULE LogText ------------------------------
(***************************************************************************)
(* safeAppendStringLike of src/core/logger/json_with_context_encoder.go:   *)
(* what becomes of the bytes of a key or a string between its quotes.      *)
(***************************************************************************)
EXTENDS Integers, Sequences, SequencesExt

CONSTANT Texts  \* the strings to be written

VARIABLE text  \* the string, and what is written for it

\* A plain byte, a quote or backslash, a control character, and the two bytes of a
\* rune, each invalid without the other.
Bytes == {"a", "quote", "control", "lead", "tail"}

ASSUME TextsAssumption == Texts \subseteq Seq(Bytes)

\* The rune at position i, and its width; one byte of no rune is invalid.
Rune(s, i) ==
    IF s[i] = "lead" /\ i < Len(s) /\ s[i + 1] = "tail" THEN [kind |-> "rune", size |-> 2]
    ELSE [kind |-> IF s[i] \in {"lead", "tail"} THEN "invalid" ELSE s[i], size |-> 1]

Escapes(kind) == <<"backslash", kind>>

\* What has been skipped is copied, then the escape.
EscapeAt(s, loop, rune) ==
    [i |-> loop.i + 1, last |-> loop.i + 1,
     out |-> loop.out \o SubSeq(s, loop.last, loop.i - 1) \o Escapes(rune.kind)]

\* The loop skips what can be copied as it is, until it finds what cannot.
SafeAppend(s) ==
    LET Iteration(loop, k) ==
            IF loop.i > Len(s) THEN loop
            ELSE LET rune == Rune(s, loop.i)
                 IN  IF rune.kind \in {"a", "rune"} THEN [loop EXCEPT !.i = @ + rune.size]
                     ELSE EscapeAt(s, loop, rune)
        end == FoldLeft(Iteration, [i |-> 1, last |-> 1, out |-> <<>>], [k \in 1..Len(s) |-> k])
    IN  end.out \o SubSeq(s, end.last, Len(s))

-----------------------------------------------------------------------------
TextInit == text \in {[plain |-> s, written |-> <<>>] : s \in Texts}

WriteText == text' = [text EXCEPT !.written = SafeAppend(text.plain)]

TextSpec == TextInit /\ [][WriteText]_text

-----------------------------------------------------------------------------
(* Properties. *)

\* What a reader makes of one byte more.
Unescape(r, b) ==
    IF r.escaped THEN [escaped |-> FALSE, out |-> Append(r.out, <<"escaped", b>>)]
    ELSE IF b = "backslash" THEN [r EXCEPT !.escaped = TRUE]
    ELSE [r EXCEPT !.out = Append(r.out, <<"plain", b>>)]

\* A byte of no rune.
Alone(s, i) ==
    \/ s[i] = "lead" /\ (i = Len(s) \/ s[i + 1] # "tail")
    \/ s[i] = "tail" /\ (i = 1 \/ s[i - 1] # "lead")

Expected(s, i) ==
    CASE Alone(s, i) -> <<"escaped", "invalid">>
      [] s[i] \in {"quote", "control"} -> <<"escaped", s[i]>>
      [] OTHER -> <<"plain", s[i]>>

\* A reader gets back the bytes of the string, no quote ending it early, but for each
\* byte of no rune the replacement character.
TextSurvives ==
    text.written # <<>> =>
        FoldLeft(Unescape, [escaped |-> FALSE, out |-> <<>>], text.written)
            = [escaped |-> FALSE, out |-> [i \in DOMAIN text.plain |-> Expected(text.plain, i)]]
=============================================================================
