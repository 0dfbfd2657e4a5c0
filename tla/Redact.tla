-------------------------------- MODULE Redact --------------------------------
(****************************************************************************)
(* The backend's key taken out of what is recorded and shown:               *)
(* core/redact.ts.                                                          *)
(*                                                                          *)
(* A text is a sequence of letters; the mark that stands for the key is one *)
(* that is in no key.  A value is a text, a list, an object of keyed values *)
(* or something else.                                                       *)
(****************************************************************************)
EXTENDS Naturals, Sequences, FiniteSets

REDACT_MIN == 2    \* of 20
Mark == "redacted"
NoKeyValue == <<>>

StartsAt(s, i, key) == i + Len(key) - 1 <= Len(s) /\ SubSeq(s, i, i + Len(key) - 1) = key
\* split and join: from the left, each occurrence after the end of the last.
redactText(key, s) ==
  LET from[i \in 1 .. (Len(s) + 1)] ==
        IF i > Len(s) THEN <<>>
        ELSE IF StartsAt(s, i, key) THEN <<Mark>> \o from[i + Len(key)]
        ELSE <<s[i]>> \o from[i + 1]
  IN IF Len(key) < REDACT_MIN THEN s ELSE from[1]

Text(s)    == [kind |-> "text", text |-> s]
List(xs)   == [kind |-> "list", items |-> xs]
Object(fs) == [kind |-> "object", fields |-> fs]    \* from keys to values
Other      == [kind |-> "other"]

\* A copy: of two keys that become one, one value is left.
RECURSIVE deep(_, _)
deep(key, x) ==
  CASE x.kind = "text"   -> Text(redactText(key, x.text))
    [] x.kind = "list"   -> List([i \in DOMAIN x.items |-> deep(key, x.items[i])])
    [] x.kind = "object" ->
         LET became == [k \in DOMAIN x.fields |-> redactText(key, k)]
         IN Object([n \in {became[k] : k \in DOMAIN became} |->
                      deep(key, x.fields[CHOOSE k \in DOMAIN became : became[k] = n])])
    [] OTHER             -> x

(* ---- what must hold ---- *)

Letters == {"a", "b"}
SomeKeys == {NoKeyValue, <<"a">>} \cup [1 .. 2 -> Letters] \cup [1 .. 3 -> Letters]
SomeTexts == UNION {[1 .. n -> Letters] : n \in 0 .. 5}
Tells(s, key) == \E i \in DOMAIN s : StartsAt(s, i, key)
Back(s, key) ==
  LET upTo[n \in 0 .. Len(s)] == IF n = 0 THEN <<>> ELSE upTo[n - 1] \o (IF s[n] = Mark THEN key ELSE <<s[n]>>)
  IN upTo[Len(s)]

RECURSIVE StringsOf(_)
StringsOf(x) ==
  CASE x.kind = "text" -> {x.text}
    [] x.kind = "list" -> UNION {StringsOf(x.items[i]) : i \in DOMAIN x.items}
    [] x.kind = "object" -> DOMAIN x.fields \cup UNION {StringsOf(x.fields[k]) : k \in DOMAIN x.fields}
    [] OTHER -> {}
Nested(s, t) == List(<<Object([k \in {s} |-> List(<<Text(t), Other>>)]), Object([k \in {s, t} |-> Text(k)])>>)

\* However its occurrences overlap, the key is nowhere in what is left, at any depth
\* and in no field's name, and nothing else is changed; so it changes nothing to do
\* it again, as the events of a run and its notes do (redact.ts:9-27).
NothingOfTheKey ==
  \A key \in SomeKeys : \A s \in SomeTexts :
    LET out == redactText(key, s)
    IN /\ Back(out, key) = s /\ redactText(key, out) = out
       /\ Len(key) >= REDACT_MIN =>
            /\ ~Tells(out, key)
            /\ \A w \in StringsOf(deep(key, Nested(s, key))) : ~Tells(w, key)
=============================================================================
