------------------------------- MODULE Texts -------------------------------
(***************************************************************************)
(* Strings as the two services look at them: which value it is, how many   *)
(* bytes it has, which kinds of characters it starts with and contains,    *)
(* and what it parses to as a decimal number or as a URL.  A Result or an  *)
(* Option is a set: the value alone, or nothing.                           *)
(***************************************************************************)
EXTENDS Integers, Sequences

CONSTANT U64Max     \* largest u64 (and usize)

\* "hex" is a-f and "lower" g-z; "dash" is - and _; "wide" is not ASCII.
Char == {"hex", "lower", "upper", "digit", "dash", "slash", "backslash", "colon",
         "space", "other", "wide"}

ServiceIdStart == {"hex", "lower", "digit"}
ServiceIdChar == ServiceIdStart \cup {"dash"}
Base64url == ServiceIdChar \cup {"upper"}
Ascii == Char \ {"wide"}

\* start has the first two characters, or all there are.
Text(is, bytes, start, chars) ==
    [is |-> is, bytes |-> bytes, start |-> start, chars |-> chars, num |-> {}, url |-> {}]

Plain(is, bytes) == Text(is, bytes, <<"lower", "lower">>, {"lower"})
Empty == Text(<<"empty">>, 0, <<>>, {})
Number(n) == [Text(<<"number">>, 4, <<"digit", "digit">>, {"digit"}) EXCEPT !.num = {n}]
Link(is, url) ==
    [Text(is, 30, <<"lower", "lower">>, {"lower", "slash", "colon"}) EXCEPT !.url = {url}]

\* A URL: the query is a sequence of <<name, value>> pairs.
Url(scheme, host, query) == [scheme |-> scheme, host |-> host, query |-> query]

\* Bytes of the Base64 encodings, without and with padding.
Base64NoPad(n) == (4 * n + 2) \div 3
Base64Padded(n) == 4 * ((n + 2) \div 3)

\* 32 random bytes, or a SHA-256 digest, in URL_SAFE_NO_PAD.
Reference(is) == Text(is, Base64NoPad(32), <<"upper", "digit">>, Base64url)
Digest(t) == Reference(<<"sha256">> \o t.is)

\* Where a query, a form, a JSON object or a Cookie header has a name,
Occurs(pairs, name) == {i \in DOMAIN pairs : pairs[i][1] = name}

\* whether it has it exactly once or more than once, and its first value.
Once(pairs, name) == \E i \in DOMAIN pairs : Occurs(pairs, name) = {i}
Repeats(pairs, name) == \E i, j \in Occurs(pairs, name) : i # j
Field(pairs, name) ==
    LET first == CHOOSE i \in Occurs(pairs, name) : \A j \in Occurs(pairs, name) : i <= j IN
    pairs[first][2]

\* serde: every field of the struct exactly once; other names are ignored.
Deserializes(pairs, fields) == \A f \in fields : Once(pairs, f)
=============================================================================
