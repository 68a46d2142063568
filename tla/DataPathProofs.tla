--------------------------- MODULE DataPathProofs ---------------------------
(***************************************************************************)
(* Proofs about DataPath for any registered service, any person, any       *)
(* lifetimes and widths that the assumptions of its modules allow, and any *)
(* number of corruptions, alterations and delays: the readers of one row   *)
(* agree and a row that is not well formed is inert, with the exceptions   *)
(* that DataPath names, the scripts do what RedisState says of them, an    *)
(* ambiguous request is refused, and what reaches the portal is true of    *)
(* who logged in.                                                          *)
(***************************************************************************)
EXTENDS DataPath, FiniteSetTheorems, TLAPS

\* A stored string as the model keeps it: a record whose one field says of which
\* kind it is.
StringOK(v) ==
    \/ v = [num |-> v.num]
    \/ v = [lookup |-> v.lookup]
    \/ v = [word |-> v.word]
    \/ v = [text |-> v.text]
    \/ v = [binary |-> v.binary]

\* The kind of a stored string determines its shape.
LEMMA StringDomain ==
    ASSUME NEW v, StringOK(v)
    PROVE  /\ DOMAIN v = {"num"} => v = [num |-> v.num]
           /\ DOMAIN v = {"lookup"} => v = [lookup |-> v.lookup]
           /\ DOMAIN v = {"word"} => v = [word |-> v.word]
           /\ DOMAIN v = {"text"} => v = [text |-> v.text]
  BY DEF StringOK

\* The kind of a string just written is the one it was written with.
LEMMA LiteralDomain ==
    ASSUME NEW x
    PROVE  /\ DOMAIN [num |-> x] = {"num"}
           /\ DOMAIN [lookup |-> x] = {"lookup"}
           /\ DOMAIN [word |-> x] = {"word"}
           /\ DOMAIN [text |-> x] = {"text"}
           /\ DOMAIN [binary |-> x] = {"binary"}
  OBVIOUS

\* A key that holds a Redis string is a key that exists.
LEMMA NotAHashPresent == NotAHash # None
  BY AbsentAssumption DEF NotAHash

\* A hash exists, and has the fields it was made of.
LEMMA HashPresent ==
    ASSUME NEW f
    PROVE  Hash(f) # None /\ Hash(f).type = "hash" /\ Hash(f).fields = f
  BY AbsentAssumption DEF Hash

\* The fields that are stored as text without a format of their own.
TextFields ==
    {"service_id", "service_state", "handoff_code_challenge", "provider",
     "provider_verification_data", "code_challenge", "logout_return_uri"}

\* A stored value: a hash of strings, or a Redis string in its place. A text
\* field is text or bytes that are not UTF-8.
HashOK(value) ==
    /\ value # None
    /\ DOMAIN value = {"type", "fields"}
    /\ value.type = "hash" \/ (value.type = "string" /\ DOMAIN value.fields = {})
    /\ \A f \in DOMAIN value.fields :
          /\ StringOK(value.fields[f])
          /\ f \in TextFields => DOMAIN value.fields[f] \in {{"text"}, {"binary"}}

\* On strings that a Lua number holds exactly, the decoders of redis_state.rs
\* and the checks of its scripts accept the same formats.
LEMMA FormatsAgree ==
    ASSUME NEW family, NEW f, NEW v, StringOK(v), f # "status",
           DOMAIN v # {"binary"}, DOMAIN v = {"num"} => v.num <= LuaMax
    PROVE  Parses(family, f, v) <=> LuaFormat(f, v)
  <1>1. CASE f \in Times
    BY <1>1, WidthAssumption DEF Parses, LuaFormat, parse_u64, LuaUint, Times
  <1>2. CASE f = "internal_user_id"
    BY <1>2 DEF Parses, LuaFormat, Times
  <1>3. CASE f \in Lookups
    BY <1>3 DEF Parses, LuaFormat, Times, Lookups
  <1>4. CASE f \notin Times \cup {"internal_user_id"} \cup Lookups
    BY <1>4 DEF Parses, LuaFormat
  <1> QED
    BY <1>1, <1>2, <1>3, <1>4

\* A status is parsed when it is one of the family's words.
LEMMA StatusFormat ==
    ASSUME NEW family, NEW v, StringOK(v)
    PROVE  Parses(family, "status", v) <=>
              \E w \in Statuses(family) : v = [word |-> w]
  BY StringDomain, LiteralDomain DEF Parses, Times, Lookups

\* A hash is decoded when the scripts' validation accepts it and its status is
\* one of the family's words.
LEMMA DecodeFamily ==
    ASSUME NEW family \in Family, NEW value, HashOK(value), Exact(value)
    PROVE  (value.type = "hash" /\ Decode(family, value.fields) # {}) <=>
              /\ LuaAccepts(family, value)
              /\ "status" \in Fields[family] =>
                    \E w \in Statuses(family) : value.fields.status = [word |-> w]
  <1>1. Decode(family, value.fields) # {} <=>
           /\ DOMAIN value.fields = Fields[family]
           /\ \A f \in DOMAIN value.fields : Parses(family, f, value.fields[f])
    BY DEF Decode, validate_field_names
  <1>2. \A f \in DOMAIN value.fields : f # "status" =>
           (Parses(family, f, value.fields[f]) <=> LuaFormat(f, value.fields[f]))
    BY FormatsAgree DEF HashOK, Exact, Utf8, InLuaRange
  <1>3. "status" \in DOMAIN value.fields =>
           (Parses(family, "status", value.fields["status"]) <=>
              \E w \in Statuses(family) : value.fields.status = [word |-> w])
    BY StatusFormat DEF HashOK
  <1>4. LuaFormat("status", value.fields["status"])
    BY DEF LuaFormat, Times, Lookups
  <1> QED
    BY <1>1, <1>2, <1>3, <1>4 DEF LuaAccepts

\* A read answers Ok for a hash that decodes and has not expired.
LEMMA ReadStateOk ==
    ASSUME NEW family \in Family, NEW value, HashOK(value), Exact(value), NEW now \in Int,
           DOMAIN value.fields = Fields[family]
    PROVE  ReadState(family, value, now) = "Ok" <=>
              /\ value.type = "hash"
              /\ Decode(family, value.fields) # {}
              /\ now < value.fields.expires_at.num
  BY DEF ReadState, read_fields, HashOK, Exact, Utf8, IsUnexpired

\* Every family has the field expires_at.
LEMMA EveryRowExpires ==
    ASSUME NEW family \in Family
    PROVE  "expires_at" \in Fields[family]
  BY DEF Family, Fields, EXTERNAL_FIELDS, SESSION_FIELDS, HANDOFF_FIELDS, LOGOUT_FIELDS

\* The expiry of a row that a script accepts is a number.
LEMMA AcceptedTimes ==
    ASSUME NEW family \in Family, NEW value, LuaAccepts(family, value)
    PROVE  value.fields.expires_at.num \in Nat
  <1>1. LuaFormat("expires_at", value.fields["expires_at"])
    BY EveryRowExpires DEF LuaAccepts
  <1>2. LuaUint(value.fields["expires_at"])
    BY <1>1 DEF LuaFormat, LuaUint, Times, Lookups
  <1> QED
    BY <1>2, WidthAssumption DEF LuaUint

\* The read of redis_state.rs accepts what the scripts' validation accepts,
\* provided the status is a word of the family and the row has not expired.
LEMMA ReadersAgreeOnAccepted ==
    ASSUME NEW family \in Family, NEW value, HashOK(value), Exact(value), NEW now \in Int
    PROVE  ReadState(family, value, now) = "Ok" <=>
              /\ LuaAccepts(family, value)
              /\ "status" \in Fields[family] =>
                    \E w \in Statuses(family) : value.fields.status = [word |-> w]
              /\ ~(now >= value.fields.expires_at.num)
  <1>1. ReadState(family, value, now) = "Ok" =>
           value.type = "hash" /\ Decode(family, value.fields) # {}
    BY DEF ReadState, read_fields
  <1>2. Decode(family, value.fields) # {} => DOMAIN value.fields = Fields[family]
    BY DEF Decode, validate_field_names
  <1>3. LuaAccepts(family, value) => DOMAIN value.fields = Fields[family]
    BY DEF LuaAccepts
  <1> QED
    <2>1. CASE DOMAIN value.fields = Fields[family]
      <3>1. ReadState(family, value, now) = "Ok" <=>
               /\ value.type = "hash"
               /\ Decode(family, value.fields) # {}
               /\ now < value.fields.expires_at.num
        BY <2>1, ReadStateOk
      <3>2. LuaAccepts(family, value) => value.fields.expires_at.num \in Nat
        BY AcceptedTimes
      <3>3. LuaAccepts(family, value) =>
               (now < value.fields.expires_at.num <=> ~(now >= value.fields.expires_at.num))
        BY <3>2
      <3> QED
        BY <3>1, <3>3, DecodeFamily
    <2> QED
      BY <2>1, <1>1, <1>2, <1>3

\* The statuses of an external login transaction.
LEMMA ExternalStatus ==
    ASSUME NEW v
    PROVE  (\E w \in Statuses("external") : v = [word |-> w]) <=>
              v = [word |-> "waiting"] \/ v = [word |-> "processing"]
  BY DEF Statuses, external_status

\* The statuses of a handoff and of a logout transaction.
LEMMA UsageStatus ==
    ASSUME NEW v, NEW family \in {"handoff", "logout"}
    PROVE  (\E w \in Statuses(family) : v = [word |-> w]) <=>
              v = [word |-> "unused"] \/ v = [word |-> "used"]
  BY DEF Statuses, usage_status

\* The words of a status differ as stored strings.
LEMMA WordsDiffer ==
    /\ [word |-> "unused"] # [word |-> "used"]
    /\ [word |-> "waiting"] # [word |-> "processing"]
  OBVIOUS

\* What each script needs of a row to get past its checks of it.
LEMMA ScriptsRead ==
    ASSUME NEW family \in Family, NEW value, value # None,
           family = "handoff" /\ "service_id" \in DOMAIN value.fields =>
              value.fields.service_id # [text |-> Empty]
    PROVE  ScriptReads(family, value) <=>
              /\ LuaAccepts(family, value)
              /\ "status" \in Fields[family] =>
                    \E w \in Statuses(family) : value.fields.status = [word |-> w]
              /\ ~(clock >= value.fields.expires_at.num)
  <1>1. CASE family = "external"
    <2>1. ScriptReads(family, value) <=> claim_script(value, clock) \in {0, 4}
      BY <1>1 DEF ScriptReads
    <2>2. "status" \in Fields[family]
      BY <1>1 DEF Fields, EXTERNAL_FIELDS
    <2>3. claim_script(value, clock) \in {0, 4} <=>
             /\ LuaAccepts("external", value)
             /\ \/ value.fields.status = [word |-> "waiting"]
                \/ value.fields.status = [word |-> "processing"]
             /\ ~(clock >= value.fields.expires_at.num)
      BY DEF claim_script
    <2> QED
      BY <1>1, <2>1, <2>2, <2>3, ExternalStatus
  <1>2. CASE family = "session"
    <2>1. ScriptReads(family, value) <=> issue_script(value, NotAHash, Forged, <<>>, clock) = 9
      BY <1>2 DEF ScriptReads
    <2>2. "status" \notin Fields[family]
      BY <1>2 DEF Fields, SESSION_FIELDS
    <2>3. issue_script(value, NotAHash, Forged, <<>>, clock) = 9 <=>
             LuaAccepts("session", value) /\ ~(clock >= value.fields.expires_at.num)
      BY NotAHashPresent DEF issue_script
    <2> QED
      BY <1>2, <2>1, <2>2, <2>3
  <1>3. CASE family = "handoff"
    <2>1. ScriptReads(family, value) <=>
             exchange_script(value, None, Forged, Empty, Forged, clock) \in {5, 6}
      BY <1>3 DEF ScriptReads
    <2>2. "status" \in Fields[family]
      BY <1>3 DEF Fields, HANDOFF_FIELDS
    <2>3. LuaAccepts("handoff", value) => value.fields.service_id # [text |-> Empty]
      BY <1>3 DEF LuaAccepts, Fields, HANDOFF_FIELDS
    <2>4. exchange_script(value, None, Forged, Empty, Forged, clock) \in {5, 6} <=>
             /\ LuaAccepts("handoff", value)
             /\ \/ value.fields.status = [word |-> "unused"]
                \/ value.fields.status = [word |-> "used"]
             /\ ~(clock >= value.fields.expires_at.num)
      BY <2>3, WordsDiffer DEF exchange_script
    <2> QED
      BY <1>3, <2>1, <2>2, <2>4, UsageStatus
  <1>4. CASE family = "logout"
    <2>1. ScriptReads(family, value) <=> logout_script(value, CsrfToken, clock) \in {0, 5, 8}
      BY <1>4 DEF ScriptReads
    <2>2. "status" \in Fields[family]
      BY <1>4 DEF Fields, LOGOUT_FIELDS
    <2>3. logout_script(value, CsrfToken, clock) \in {0, 5, 8} <=>
             /\ LuaAccepts("logout", value)
             /\ \/ value.fields.status = [word |-> "unused"]
                \/ value.fields.status = [word |-> "used"]
             /\ ~(clock >= value.fields.expires_at.num)
      BY WordsDiffer DEF logout_script
    <2> QED
      BY <1>4, <2>1, <2>2, <2>3, UsageStatus
  <1> QED
    BY <1>1, <1>2, <1>3, <1>4 DEF Family, Fields

\* The Rust reader and the script that uses the family give the same verdict on
\* a row.
LEMMA ReadersAgreeOnRow ==
    ASSUME NEW family \in Family, NEW value, HashOK(value), Exact(value), clock \in Int,
           family = "handoff" /\ "service_id" \in DOMAIN value.fields =>
              value.fields.service_id # [text |-> Empty]
    PROVE  ReadState(family, value, clock) = "Ok" <=> ScriptReads(family, value)
  <1>1. value # None
    BY DEF HashOK
  <1> QED
    BY <1>1, ReadersAgreeOnAccepted, ScriptsRead

\* What Rust reads is UTF-8.
LEMMA ReadIsUtf8 ==
    ASSUME NEW family, NEW value, NEW now, ReadState(family, value, now) = "Ok"
    PROVE  Utf8(value)
  BY DEF ReadState, read_fields, Utf8

\* The fields of every family have one of five formats.
LEMMA FieldFormats ==
    ASSUME NEW family \in Family
    PROVE  Fields[family] \subseteq
              Times \cup {"internal_user_id", "status"} \cup Lookups \cup TextFields
  <1>1. /\ EXTERNAL_FIELDS \subseteq Times \cup {"status"} \cup TextFields
        /\ SESSION_FIELDS \subseteq Times \cup {"internal_user_id"}
        /\ HANDOFF_FIELDS \subseteq Times \cup {"internal_user_id", "status"} \cup Lookups \cup TextFields
        /\ LOGOUT_FIELDS \subseteq Times \cup {"status"} \cup Lookups \cup TextFields
    BY DEF EXTERNAL_FIELDS, SESSION_FIELDS, HANDOFF_FIELDS, LOGOUT_FIELDS, Times, Lookups,
           TextFields
  <1> QED
    BY <1>1 DEF Family, Fields

\* A row whose fields a script accepts and whose status is one of the family's
\* words has only numbers that Lua holds exactly.
LEMMA AcceptedInRange ==
    ASSUME NEW family \in Family, NEW value, HashOK(value), LuaAccepts(family, value),
           "status" \in Fields[family] =>
              \E w \in Statuses(family) : value.fields.status = [word |-> w]
    PROVE  InLuaRange(value)
  <1> SUFFICES ASSUME NEW f \in DOMAIN value.fields, DOMAIN value.fields[f] = {"num"}
               PROVE  value.fields[f].num <= LuaMax
    BY DEF InLuaRange
  <1>1. f \in Fields[family] /\ LuaFormat(f, value.fields[f])
    BY DEF LuaAccepts
  <1>2. CASE f \in Times
    <2>1. LuaUint(value.fields[f])
      BY <1>1, <1>2 DEF LuaFormat, Times, Lookups
    <2> QED
      BY <2>1 DEF LuaUint
  <1>3. CASE f = "internal_user_id"
    <2>1. parse_i32(value.fields[f])
      BY <1>1, <1>3 DEF LuaFormat, Times, Lookups
    <2>2. value.fields[f].num \in (-I32Max - 1)..I32Max
      BY <2>1 DEF parse_i32
    <2> QED
      BY <2>2, WidthAssumption
  <1>4. CASE f \in Lookups
    BY <1>1, <1>4 DEF LuaFormat, is_lookup, Times, Lookups
  <1>5. CASE f = "status"
    <2>1. PICK w \in Statuses(family) : value.fields["status"] = [word |-> w]
      BY <1>1, <1>5
    <2> QED
      BY <1>5, <2>1, LiteralDomain
  <1>6. CASE f \in TextFields
    BY <1>6 DEF HashOK
  <1> QED
    BY <1>1, <1>2, <1>3, <1>4, <1>5, <1>6, FieldFormats

\* If such a row is UTF-8 as well, Rust decodes it.
LEMMA AcceptedDecodes ==
    ASSUME NEW family \in Family, NEW value, HashOK(value), LuaAccepts(family, value),
           "status" \in Fields[family] =>
              \E w \in Statuses(family) : value.fields.status = [word |-> w],
           Utf8(value)
    PROVE  Decode(family, value.fields) # {}
  <1>1. Exact(value)
    BY AcceptedInRange DEF Exact
  <1> QED
    BY <1>1, DecodeFamily

\* Rust and the script that uses the family differ on a row in two cases only: a
\* number that Lua does not hold exactly, and bytes that are not UTF-8.
LEMMA ReadersDifferOnRow ==
    ASSUME NEW family \in Family, NEW value, HashOK(value), clock \in Int,
           family = "handoff" /\ "service_id" \in DOMAIN value.fields =>
              value.fields.service_id # [text |-> Empty]
    PROVE  /\ ReadState(family, value, clock) = "Ok" =>
                 (ScriptReads(family, value) <=> InLuaRange(value))
           /\ ScriptReads(family, value) =>
                 (ReadState(family, value, clock) = "Ok" <=> Utf8(value))
  <1>1. value # None
    BY DEF HashOK
  <1>2. ScriptReads(family, value) => InLuaRange(value)
    BY <1>1, ScriptsRead, AcceptedInRange
  <1>3. ReadState(family, value, clock) = "Ok" => Utf8(value)
    BY ReadIsUtf8
  <1>4. Utf8(value) /\ InLuaRange(value) =>
           (ReadState(family, value, clock) = "Ok" <=> ScriptReads(family, value))
    BY ReadersAgreeOnRow DEF Exact
  <1> QED
    BY <1>2, <1>3, <1>4

\* What Decode takes from a stored string.
Part(v) == v[CHOOSE kind \in DOMAIN v : TRUE]

\* What decodes has the family's fields, in formats the scripts accept, and the
\* decoded state takes each field's value from the hash.
LEMMA DecodedRow ==
    ASSUME NEW family \in Family, NEW value, HashOK(value), Exact(value),
           Decode(family, value.fields) # {}
    PROVE  /\ LuaAccepts(family, value)
           /\ "status" \in Fields[family] =>
                 \E w \in Statuses(family) : value.fields.status = [word |-> w]
           /\ DOMAIN value.fields = Fields[family]
           /\ \A f \in Fields[family] : The(Decode(family, value.fields))[f] = Part(value.fields[f])
  <1>1. DOMAIN value.fields = Fields[family]
    BY DEF Decode, validate_field_names
  <1>2. Fields[family] # {}
    BY EveryRowExpires
  <1>3. value.type = "hash"
    BY <1>1, <1>2 DEF HashOK
  <1>4. Decode(family, value.fields) = {[f \in DOMAIN value.fields |-> Part(value.fields[f])]}
    BY DEF Decode, Part
  <1>5. The(Decode(family, value.fields)) = [f \in DOMAIN value.fields |-> Part(value.fields[f])]
    BY <1>4 DEF The
  <1> QED
    BY <1>1, <1>3, <1>5, DecodeFamily

\* What a stored string stands for, kind by kind.
LEMMA DecodedString ==
    ASSUME NEW v
    PROVE  /\ DOMAIN v = {"num"} => Part(v) = v.num
           /\ DOMAIN v = {"lookup"} => Part(v) = v.lookup
           /\ DOMAIN v = {"word"} => Part(v) = v.word
           /\ DOMAIN v = {"text"} => Part(v) = v.text
  BY DEF Part

\* A decoded time is the number stored.
LEMMA DecodedTime ==
    ASSUME NEW family \in Family, NEW value, HashOK(value), Exact(value),
           Decode(family, value.fields) # {}, NEW f \in Fields[family] \cap Times
    PROVE  /\ The(Decode(family, value.fields))[f] = value.fields[f].num
           /\ value.fields[f].num \in Nat
  <1>1. LuaFormat(f, value.fields[f])
    BY DecodedRow DEF LuaAccepts
  <1>2. DOMAIN value.fields[f] = {"num"} /\ value.fields[f].num \in 0..LuaMax
    BY <1>1 DEF LuaFormat, LuaUint, Times, Lookups
  <1>3. The(Decode(family, value.fields))[f] = Part(value.fields[f])
    BY DecodedRow
  <1>4. Part(value.fields[f]) = value.fields[f].num
    BY <1>2, DecodedString
  <1> QED
    BY <1>2, <1>3, <1>4, WidthAssumption

\* A decoded user is the number stored.
LEMMA DecodedUser ==
    ASSUME NEW family \in Family, NEW value, HashOK(value), Exact(value),
           Decode(family, value.fields) # {}, "internal_user_id" \in Fields[family]
    PROVE  The(Decode(family, value.fields)).internal_user_id = value.fields.internal_user_id.num
  <1>1. LuaFormat("internal_user_id", value.fields["internal_user_id"])
    BY DecodedRow DEF LuaAccepts
  <1>2. DOMAIN value.fields["internal_user_id"] = {"num"}
    BY <1>1 DEF LuaFormat, parse_i32, Times, Lookups
  <1>3. The(Decode(family, value.fields))["internal_user_id"]
           = Part(value.fields["internal_user_id"])
    BY DecodedRow
  <1>4. Part(value.fields["internal_user_id"]) = value.fields["internal_user_id"].num
    BY <1>2, DecodedString
  <1> QED
    BY <1>3, <1>4

\* A decoded reference is the lookup stored.
LEMMA DecodedLookup ==
    ASSUME NEW family \in Family, NEW value, HashOK(value), Exact(value),
           Decode(family, value.fields) # {}, NEW f \in Fields[family] \cap Lookups
    PROVE  /\ The(Decode(family, value.fields))[f] = value.fields[f].lookup
           /\ value.fields[f] = [lookup |-> The(Decode(family, value.fields))[f]]
  <1>1. LuaFormat(f, value.fields[f])
    BY DecodedRow DEF LuaAccepts
  <1>2. DOMAIN value.fields[f] = {"lookup"}
    BY <1>1 DEF LuaFormat, is_lookup, Times, Lookups
  <1>3. StringOK(value.fields[f])
    BY DecodedRow DEF HashOK
  <1>4. The(Decode(family, value.fields))[f] = Part(value.fields[f])
    BY DecodedRow
  <1>5. Part(value.fields[f]) = value.fields[f].lookup
    BY <1>2, DecodedString
  <1>6. value.fields[f] = [lookup |-> value.fields[f].lookup]
    BY <1>2, <1>3, StringDomain
  <1> QED
    BY <1>4, <1>5, <1>6

\* A decoded text is the text stored.
LEMMA DecodedText ==
    ASSUME NEW family \in Family, NEW value, HashOK(value), Exact(value),
           Decode(family, value.fields) # {}, NEW f \in Fields[family] \cap TextFields
    PROVE  /\ The(Decode(family, value.fields))[f] = value.fields[f].text
           /\ value.fields[f] = [text |-> The(Decode(family, value.fields))[f]]
  <1>1. DOMAIN value.fields[f] = {"text"}
    <2>1. f \in DOMAIN value.fields
      BY DecodedRow
    <2> QED
      BY <2>1 DEF HashOK, Exact, Utf8
  <1>2. StringOK(value.fields[f])
    BY DecodedRow DEF HashOK
  <1>3. The(Decode(family, value.fields))[f] = Part(value.fields[f])
    BY DecodedRow
  <1>4. Part(value.fields[f]) = value.fields[f].text
    BY <1>1, DecodedString
  <1>5. value.fields[f] = [text |-> value.fields[f].text]
    BY <1>1, <1>2, StringDomain
  <1> QED
    BY <1>3, <1>4, <1>5

\* A decoded status is the word stored, one of the family's.
LEMMA DecodedStatus ==
    ASSUME NEW family \in Family, NEW value, HashOK(value), Exact(value),
           Decode(family, value.fields) # {}, "status" \in Fields[family]
    PROVE  /\ The(Decode(family, value.fields)).status \in Statuses(family)
           /\ value.fields.status = [word |-> The(Decode(family, value.fields)).status]
  <1>1. PICK w \in Statuses(family) : value.fields.status = [word |-> w]
    BY DecodedRow
  <1>2. The(Decode(family, value.fields)).status = w
    BY <1>1, DecodedRow, DecodedString, LiteralDomain
  <1> QED
    BY <1>1, <1>2

\* On a transaction that decodes, the claim script answers as ClaimReply of
\* RedisState.tla does on the decoded transaction.
LEMMA ClaimScript ==
    ASSUME NEW value, HashOK(value), Exact(value), NEW now \in Int,
           Decode("external", value.fields) # {}
    PROVE  LET s == The(Decode("external", value.fields)) IN
           script_error(claim_script(value, now))
              = ClaimReply([expires |-> s.expires_at, status |-> s.status], now)
  <1> DEFINE s == The(Decode("external", value.fields))
             row == [expires |-> s.expires_at, status |-> s.status]
  <1>1. "external" \in Family /\ "status" \in Fields["external"]
        /\ "expires_at" \in Fields["external"] \cap Times
    BY DEF Family, Fields, EXTERNAL_FIELDS, Times
  <1>2. s.expires_at = value.fields.expires_at.num
    BY <1>1, DecodedTime
  <1>3. s.status \in {"waiting", "processing"} /\ value.fields.status = [word |-> s.status]
    BY <1>1, DecodedStatus DEF Statuses, external_status
  <1>4. LuaAccepts("external", value)
    BY <1>1, DecodedRow
  <1>5. row # None
    BY AbsentAssumption
  <1>6. value # None
    BY DEF HashOK
  <1> HIDE DEF s
  <1>7. script_error(claim_script(value, now)) =
           IF now >= s.expires_at THEN "Expired"
           ELSE IF s.status = "processing" THEN "AlreadyClaimed" ELSE "Ok"
    BY <1>2, <1>3, <1>4, <1>6 DEF claim_script, script_error
  <1> QED
    <2>1. ClaimReply(row, now) =
             IF now >= s.expires_at THEN "Expired"
             ELSE IF s.status = "processing" THEN "AlreadyClaimed" ELSE "Ok"
      BY <1>5 DEF ClaimReply
    <2> QED
      BY <1>7, <2>1 DEF s

\* On a logout transaction that decodes, the logout script answers as
\* LogoutReply of RedisState.tla does.
LEMMA LogoutScript ==
    ASSUME NEW value, HashOK(value), Exact(value), NEW now \in Int, NEW csrf,
           Decode("logout", value.fields) # {}
    PROVE  LET s == The(Decode("logout", value.fields)) IN
           script_error(logout_script(value, csrf, now))
              = LogoutReply([csrf |-> s.csrf_lookup, expires |-> s.expires_at,
                             status |-> s.status], csrf, now)
  <1> DEFINE s == The(Decode("logout", value.fields))
             row == [csrf |-> s.csrf_lookup, expires |-> s.expires_at, status |-> s.status]
             reply == IF now >= s.expires_at THEN "Expired"
                      ELSE IF s.status = "used" THEN "AlreadyUsed"
                      ELSE IF s.csrf_lookup # csrf THEN "CsrfMismatch" ELSE "Ok"
  <1>1. /\ "logout" \in Family /\ "status" \in Fields["logout"]
        /\ "expires_at" \in Fields["logout"] \cap Times
        /\ "csrf_lookup" \in Fields["logout"] \cap Lookups
    BY DEF Family, Fields, LOGOUT_FIELDS, Times, Lookups
  <1>2. s.expires_at = value.fields.expires_at.num
    BY <1>1, DecodedTime
  <1>3. s.status \in {"unused", "used"} /\ value.fields.status = [word |-> s.status]
    BY <1>1, DecodedStatus DEF Statuses, usage_status
  <1>4. value.fields.csrf_lookup = [lookup |-> s.csrf_lookup]
    <2>1. \A f \in Fields["logout"] \cap Lookups : value.fields[f] = [lookup |-> s[f]]
      BY <1>1, DecodedLookup
    <2> QED
      BY <1>1, <2>1
  <1>5. LuaAccepts("logout", value) /\ value # None
    BY <1>1, DecodedRow DEF HashOK
  <1>6. row # None
    BY AbsentAssumption
  <1> HIDE DEF s
  <1>7. script_error(logout_script(value, csrf, now)) = reply
    BY <1>2, <1>3, <1>4, <1>5 DEF logout_script, script_error
  <1>8. LogoutReply(row, csrf, now) = reply
    BY <1>6 DEF LogoutReply
  <1> QED
    BY <1>7, <1>8 DEF s

\* The rows of RedisState.tla that a decoded handoff and a decoded session are.
HandoffOf(s) ==
    [service |-> s.service_id, user |-> s.internal_user_id,
     session |-> s.common_session_lookup, challenge |-> s.code_challenge,
     at |-> s.authenticated_at, expires |-> s.expires_at, status |-> s.status]
SessionOf(s) ==
    [user |-> s.internal_user_id, at |-> s.authenticated_at, expires |-> s.expires_at]

\* The comparisons that both readers of a handoff make first.
LEMMA HandoffFields ==
    ASSUME NEW value, HashOK(value), Exact(value), Decode("handoff", value.fields) # {}
    PROVE  LET s == The(Decode("handoff", value.fields)) IN
           /\ s.expires_at = value.fields.expires_at.num
           /\ s.authenticated_at = value.fields.authenticated_at.num
           /\ s.internal_user_id = value.fields.internal_user_id.num
           /\ s.status \in {"unused", "used"} /\ value.fields.status = [word |-> s.status]
           /\ value.fields.service_id = [text |-> s.service_id]
           /\ value.fields.code_challenge = [text |-> s.code_challenge]
           /\ value.fields.common_session_lookup = [lookup |-> s.common_session_lookup]
           /\ LuaAccepts("handoff", value) /\ value # None
  <1> DEFINE s == The(Decode("handoff", value.fields))
  <1>1. /\ "handoff" \in Family /\ "status" \in Fields["handoff"]
        /\ "internal_user_id" \in Fields["handoff"]
        /\ {"expires_at", "authenticated_at"} \subseteq Fields["handoff"] \cap Times
        /\ "common_session_lookup" \in Fields["handoff"] \cap Lookups
        /\ {"service_id", "code_challenge"} \subseteq Fields["handoff"] \cap TextFields
    BY DEF Family, Fields, HANDOFF_FIELDS, Times, Lookups, TextFields
  <1>2. /\ s.expires_at = value.fields.expires_at.num
        /\ s.authenticated_at = value.fields.authenticated_at.num
    BY <1>1, DecodedTime
  <1>3. s.status \in {"unused", "used"} /\ value.fields.status = [word |-> s.status]
    BY <1>1, DecodedStatus DEF Statuses, usage_status
  <1>4. value.fields.common_session_lookup = [lookup |-> s.common_session_lookup]
    <2>1. \A f \in Fields["handoff"] \cap Lookups : value.fields[f] = [lookup |-> s[f]]
      BY <1>1, DecodedLookup
    <2> QED
      BY <1>1, <2>1
  <1>5. s.internal_user_id = value.fields.internal_user_id.num
    BY <1>1, DecodedUser
  <1>6. \A f \in Fields["handoff"] \cap TextFields : value.fields[f] = [text |-> s[f]]
    BY <1>1, DecodedText
  <1>7. /\ value.fields.service_id = [text |-> s.service_id]
        /\ value.fields.code_challenge = [text |-> s.code_challenge]
    BY <1>1, <1>6
  <1>8. LuaAccepts("handoff", value) /\ value # None
    BY <1>1, DecodedRow DEF HashOK
  <1> QED
    BY <1>2, <1>3, <1>4, <1>5, <1>7, <1>8

\* What a decoded session holds.
LEMMA SessionFields ==
    ASSUME NEW value, HashOK(value), Exact(value), Decode("session", value.fields) # {}
    PROVE  LET s == The(Decode("session", value.fields)) IN
           /\ s.expires_at = value.fields.expires_at.num
           /\ s.authenticated_at = value.fields.authenticated_at.num
           /\ s.internal_user_id = value.fields.internal_user_id.num
           /\ LuaAccepts("session", value) /\ value # None
  <1> DEFINE s == The(Decode("session", value.fields))
  <1>1. /\ "session" \in Family /\ "internal_user_id" \in Fields["session"]
        /\ {"expires_at", "authenticated_at"} \subseteq Fields["session"] \cap Times
    BY DEF Family, Fields, SESSION_FIELDS, Times
  <1>2. /\ s.expires_at = value.fields.expires_at.num
        /\ s.authenticated_at = value.fields.authenticated_at.num
    BY <1>1, DecodedTime
  <1>3. s.internal_user_id = value.fields.internal_user_id.num
    BY <1>1, DecodedUser
  <1>4. LuaAccepts("session", value) /\ value # None
    BY <1>1, DecodedRow DEF HashOK
  <1> QED
    BY <1>2, <1>3, <1>4

\* On a handoff that decodes and without a session, the exchange script answers
\* as ExchangeReply of RedisState.tla does.
LEMMA ExchangeScriptWithoutSession ==
    ASSUME NEW value, HashOK(value), Exact(value), NEW now \in Int,
           NEW lookup, NEW service, NEW challenge, Decode("handoff", value.fields) # {}
    PROVE  LET reply == ExchangeReply(HandoffOf(The(Decode("handoff", value.fields))), None,
                                      lookup, service, challenge, now) IN
           /\ reply # "SessionExpired"
           /\ script_error(exchange_script(value, None, lookup, service, challenge, now)) = reply
  <1> DEFINE s == The(Decode("handoff", value.fields))
             reply == IF now >= s.expires_at THEN "Expired"
                      ELSE IF s.status = "used" THEN "AlreadyUsed"
                      ELSE IF s.service_id # service THEN "ServiceMismatch"
                      ELSE IF s.code_challenge # challenge THEN "ChallengeMismatch"
                      ELSE IF s.common_session_lookup # lookup THEN "InvalidStoredState"
                      ELSE "NotFound"
  <1>1. /\ s.expires_at = value.fields.expires_at.num
        /\ s.status \in {"unused", "used"} /\ value.fields.status = [word |-> s.status]
        /\ value.fields.service_id = [text |-> s.service_id]
        /\ value.fields.code_challenge = [text |-> s.code_challenge]
        /\ value.fields.common_session_lookup = [lookup |-> s.common_session_lookup]
        /\ LuaAccepts("handoff", value) /\ value # None
    BY HandoffFields
  <1>2. HandoffOf(s) # None
    BY AbsentAssumption DEF HandoffOf
  <1> HIDE DEF s
  <1>3. ExchangeReply(HandoffOf(s), None, lookup, service, challenge, now) = reply
    BY <1>2 DEF ExchangeReply, HandoffOf
  <1>4. script_error(exchange_script(value, None, lookup, service, challenge, now)) = reply
    BY <1>1 DEF exchange_script, script_error
  <1> QED
    BY <1>3, <1>4 DEF s

\* With a session that decodes as well, the exchange script answers as
\* ExchangeReply does, and its code for an expired session is 12.
LEMMA ExchangeScriptWithSession ==
    ASSUME NEW value, HashOK(value), Exact(value), NEW now \in Int,
           NEW lookup, NEW service, NEW challenge, Decode("handoff", value.fields) # {},
           NEW session, HashOK(session), Exact(session), Decode("session", session.fields) # {}
    PROVE  LET code == exchange_script(value, session, lookup, service, challenge, now)
               reply == ExchangeReply(HandoffOf(The(Decode("handoff", value.fields))),
                                      SessionOf(The(Decode("session", session.fields))),
                                      lookup, service, challenge, now) IN
           IF reply = "SessionExpired" THEN code = 12 ELSE script_error(code) = reply
  <1> DEFINE s == The(Decode("handoff", value.fields))
             t == The(Decode("session", session.fields))
             code == exchange_script(value, session, lookup, service, challenge, now)
             same == s.internal_user_id = t.internal_user_id /\ s.authenticated_at = t.authenticated_at
             answered == IF now >= s.expires_at THEN 2
                         ELSE IF s.status = "used" THEN 5
                         ELSE IF s.service_id # service THEN 6
                         ELSE IF s.code_challenge # challenge THEN 7
                         ELSE IF s.common_session_lookup # lookup THEN 3
                         ELSE IF now >= t.expires_at THEN 12
                         ELSE IF ~same THEN 3 ELSE 0
  <1>1. /\ s.expires_at = value.fields.expires_at.num
        /\ s.authenticated_at = value.fields.authenticated_at.num
        /\ s.internal_user_id = value.fields.internal_user_id.num
        /\ s.status \in {"unused", "used"} /\ value.fields.status = [word |-> s.status]
        /\ value.fields.service_id = [text |-> s.service_id]
        /\ value.fields.code_challenge = [text |-> s.code_challenge]
        /\ value.fields.common_session_lookup = [lookup |-> s.common_session_lookup]
        /\ LuaAccepts("handoff", value) /\ value # None
    BY HandoffFields
  <1>2. /\ t.expires_at = session.fields.expires_at.num
        /\ t.authenticated_at = session.fields.authenticated_at.num
        /\ t.internal_user_id = session.fields.internal_user_id.num
        /\ LuaAccepts("session", session) /\ session # None
    BY SessionFields
  <1>3. HandoffOf(s) # None /\ SessionOf(t) # None
    BY AbsentAssumption DEF HandoffOf, SessionOf
  <1> HIDE DEF s, t
  <1>4. SameLogin(value.fields, session.fields) <=> same
    BY <1>1, <1>2 DEF SameLogin
  <1>5. /\ value.fields.status = [word |-> "used"] <=> s.status = "used"
        /\ value.fields.status # [word |-> "unused"] => s.status = "used"
        /\ value.fields.service_id # [text |-> service] <=> s.service_id # service
        /\ value.fields.code_challenge # [text |-> challenge] <=> s.code_challenge # challenge
        /\ value.fields.common_session_lookup # [lookup |-> lookup]
              <=> s.common_session_lookup # lookup
    BY <1>1
  <1>6. code = answered
    BY <1>1, <1>2, <1>4, <1>5 DEF exchange_script
  <1>7. ExchangeReply(HandoffOf(s), SessionOf(t), lookup, service, challenge, now) =
           IF answered = 12 THEN "SessionExpired" ELSE script_error(answered)
    BY <1>3 DEF ExchangeReply, HandoffOf, SessionOf, script_error
  <1>8. script_error(answered) # "SessionExpired"
    BY DEF script_error
  <1> QED
    BY <1>6, <1>7, <1>8 DEF s, t

-----------------------------------------------------------------------------
\* A row: a key, a value and the expiry of the key. Only a service_id that
\* passed validate_service_id is ever stored, so it is not empty.
RowOK(family, row) ==
    /\ DOMAIN row = {"key", "value", "expireat"}
    /\ HashOK(row.value)
    /\ family \in {"external", "handoff"} /\ "service_id" \in DOMAIN row.value.fields =>
          row.value.fields.service_id # [text |-> Empty]

\* The store has a row or nothing for each family.
StoreInv ==
    /\ clock \in Int
    /\ redis = [f \in Family |-> redis[f]]
    /\ \A f \in Family : redis[f] # None => RowOK(f, redis[f])

\* In a store of such rows the readers agree but for their two differences.
LEMMA StoreImpliesReadersAgree ==
    ASSUME StoreInv
    PROVE  ReadersAgree
  <1> SUFFICES ASSUME NEW f \in Family, redis[f] # None
               PROVE  /\ ReadState(f, redis[f].value, clock) = "Ok" =>
                            (ScriptReads(f, redis[f].value) <=> InLuaRange(redis[f].value))
                      /\ ScriptReads(f, redis[f].value) =>
                            (ReadState(f, redis[f].value, clock) = "Ok" <=> Utf8(redis[f].value))
    BY DEF ReadersAgree
  <1> QED
    BY ReadersDifferOnRow DEF StoreInv, RowOK

\* In a store of such rows, if they decode, the scripts that use them up answer
\* as their models in RedisState.tla do.
LEMMA UsingScripts ==
    ASSUME StoreInv, \A f \in Family : redis[f] # None => Decodes(f) /\ Exact(redis[f].value)
    PROVE  UsingScriptsAgree
  <1>1. clock \in Int
    BY DEF StoreInv
  <1>2. \A f \in Family : redis[f] # None =>
           /\ HashOK(redis[f].value) /\ Exact(redis[f].value)
           /\ Decode(f, redis[f].value.fields) # {}
    BY DEF StoreInv, RowOK, Decodes
  <1>3. {"external", "session", "handoff", "logout"} = Family
    BY DEF Family, Fields
  <1>4. script_error(claim_script(Value("external"), clock)) = ClaimReply(Abstract("external"), clock)
    <2>1. CASE redis["external"] = None
      BY <2>1 DEF Value, Abstract, claim_script, script_error, ClaimReply
    <2>2. CASE redis["external"] # None
      BY <2>2, <1>1, <1>2, <1>3, ClaimScript DEF Value, Abstract, AbstractState, Stored
    <2> QED
      BY <2>1, <2>2
  <1>5. ASSUME NEW csrf
        PROVE  script_error(logout_script(Value("logout"), csrf, clock))
                  = LogoutReply(Abstract("logout"), csrf, clock)
    <2>1. CASE redis["logout"] = None
      BY <2>1 DEF Value, Abstract, logout_script, script_error, LogoutReply
    <2>2. CASE redis["logout"] # None
      BY <2>2, <1>1, <1>2, <1>3, LogoutScript DEF Value, Abstract, AbstractState, Stored
    <2> QED
      BY <2>1, <2>2
  <1>6. ASSUME redis["handoff"] # None, NEW service, NEW challenge, NEW lookup
        PROVE  LET code == exchange_script(Value("handoff"), At("session", lookup), lookup,
                                           service, challenge, clock)
                   reply == ExchangeReply(Abstract("handoff"),
                               IF At("session", lookup) = None THEN None ELSE Abstract("session"),
                               lookup, service, challenge, clock) IN
               IF reply = "SessionExpired" THEN code = 12 ELSE script_error(code) = reply
    <2>1. /\ Value("handoff") = redis["handoff"].value
          /\ Abstract("handoff") = HandoffOf(The(Decode("handoff", redis["handoff"].value.fields)))
      BY <1>6 DEF Value, Abstract, AbstractState, Stored, HandoffOf
    <2>2. /\ HashOK(redis["handoff"].value) /\ Exact(redis["handoff"].value)
          /\ Decode("handoff", redis["handoff"].value.fields) # {}
      BY <1>2, <1>3, <1>6
    <2>3. CASE At("session", lookup) = None
      BY <1>1, <2>1, <2>2, <2>3, ExchangeScriptWithoutSession
    <2>4. CASE At("session", lookup) # None
      <3>1. redis["session"] # None /\ At("session", lookup) = redis["session"].value
        BY <2>4 DEF At
      <3>2. /\ HashOK(redis["session"].value) /\ Exact(redis["session"].value)
            /\ Decode("session", redis["session"].value.fields) # {}
        BY <1>2, <1>3, <3>1
      <3>3. Abstract("session") = SessionOf(The(Decode("session", redis["session"].value.fields)))
        BY <3>1 DEF Abstract, AbstractState, Stored, SessionOf
      <3> QED
        BY <1>1, <2>1, <2>2, <2>4, <3>1, <3>2, <3>3, ExchangeScriptWithSession
    <2> QED
      BY <2>3, <2>4
  <1> QED
    BY <1>4, <1>5, <1>6 DEF UsingScriptsAgree

-----------------------------------------------------------------------------

\* How a field of a state is stored.
LEMMA EncodedField ==
    ASSUME NEW state, NEW f \in DOMAIN state
    PROVE  /\ StringOK(Encode(state)[f])
           /\ f \in TextFields => Encode(state)[f] = [text |-> state[f]]
           /\ f \in Times \cup {"internal_user_id"} => Encode(state)[f] = [num |-> state[f]]
           /\ f \in Lookups => Encode(state)[f] = [lookup |-> state[f]]
           /\ f = "status" => Encode(state)[f] = [word |-> state[f]]
           /\ f \notin Times \cup {"internal_user_id", "status"} \cup Lookups =>
                 Encode(state)[f] = [text |-> state[f]]
  <1>1. /\ f \in Times \cup {"internal_user_id"} => Encode(state)[f] = [num |-> state[f]]
        /\ f \in Lookups => Encode(state)[f] = [lookup |-> state[f]]
        /\ f = "status" => Encode(state)[f] = [word |-> state[f]]
        /\ f \notin Times \cup {"internal_user_id", "status"} \cup Lookups =>
              Encode(state)[f] = [text |-> state[f]]
    BY DEF Encode, Times, Lookups
  <1>2. f \in TextFields => f \notin Times \cup {"internal_user_id", "status"} \cup Lookups
    BY DEF TextFields, Times, Lookups
  <1>3. StringOK(Encode(state)[f])
    BY <1>1 DEF StringOK
  <1> QED
    BY <1>1, <1>2, <1>3

\* A state is stored with all its fields and no other.
LEMMA EncodedDomain ==
    ASSUME NEW state
    PROVE  DOMAIN Encode(state) = DOMAIN state
  BY DEF Encode

\* What a newly created key holds.
LEMMA NewKeyParts ==
    ASSUME NEW k, NEW state
    PROVE  /\ NewKey(k, state).key = k
           /\ NewKey(k, state).value = Hash(Encode(state))
           /\ NewKey(k, state).value.type = "hash"
           /\ NewKey(k, state).value.fields = Encode(state)
  BY DEF NewKey, Hash

\* A newly created key is a row, when the service_id it stores is not empty.
LEMMA NewKeyOK ==
    ASSUME NEW family, NEW k, NEW state,
           family \in {"external", "handoff"} /\ "service_id" \in DOMAIN state =>
              state.service_id # Empty
    PROVE  RowOK(family, NewKey(k, state))
  <1>1. DOMAIN NewKey(k, state) = {"key", "value", "expireat"}
    BY DEF NewKey
  <1>2. HashOK(Hash(Encode(state)))
    <2>1. DOMAIN Hash(Encode(state)) = {"type", "fields"}
      BY DEF Hash
    <2>2. \A f \in DOMAIN state :
             /\ StringOK(Encode(state)[f])
             /\ f \in TextFields => DOMAIN Encode(state)[f] \in {{"text"}, {"binary"}}
      <3> TAKE f \in DOMAIN state
      <3>1. /\ StringOK(Encode(state)[f])
            /\ f \in TextFields => Encode(state)[f] = [text |-> state[f]]
        BY EncodedField
      <3>2. DOMAIN [text |-> state[f]] = {"text"}
        OBVIOUS
      <3> QED
        BY <3>1, <3>2
    <2> QED
      BY <2>1, <2>2, HashPresent, EncodedDomain DEF HashOK
  <1>3. "service_id" \in DOMAIN state => Encode(state)["service_id"] = [text |-> state["service_id"]]
    BY EncodedField DEF TextFields
  <1>4. "service_id" \in DOMAIN state /\ state.service_id # Empty =>
           Encode(state)["service_id"] # [text |-> Empty]
    BY <1>3
  <1> QED
    BY <1>1, <1>2, <1>4, NewKeyParts, EncodedDomain DEF RowOK

\* A change of the status leaves a row a row, under the same key.
LEMMA RestatedOK ==
    ASSUME NEW family, NEW row, RowOK(family, row), NEW status
    PROVE  /\ RowOK(family, [row EXCEPT !.value.fields.status = [word |-> status]])
           /\ [row EXCEPT !.value.fields.status = [word |-> status]].key = row.key
  <1> DEFINE new == [row EXCEPT !.value.fields.status = [word |-> status]]
  <1>1. /\ DOMAIN new = {"key", "value", "expireat"}
        /\ new.key = row.key
        /\ new.value = [row.value EXCEPT !.fields.status = [word |-> status]]
    BY DEF RowOK
  <1>2. /\ DOMAIN new.value = {"type", "fields"}
        /\ new.value.type = row.value.type
        /\ new.value.fields = [row.value.fields EXCEPT !.status = [word |-> status]]
    BY <1>1 DEF RowOK, HashOK
  <1>3. /\ DOMAIN new.value.fields = DOMAIN row.value.fields
        /\ \A f \in DOMAIN row.value.fields :
              new.value.fields[f] = IF f = "status" THEN [word |-> status] ELSE row.value.fields[f]
    BY <1>2
  <1> HIDE DEF new
  <1>4. new.value # None
    BY <1>2, AbsentAssumption
  <1>5. HashOK(new.value)
    <2>1. \A f \in DOMAIN row.value.fields :
             StringOK(row.value.fields[f]) => StringOK(new.value.fields[f])
      BY <1>3 DEF StringOK
    <2>2. "status" \notin TextFields
      BY DEF TextFields
    <2>3. /\ row.value.type = "hash" \/ (row.value.type = "string" /\ DOMAIN row.value.fields = {})
          /\ \A f \in DOMAIN row.value.fields :
                /\ StringOK(row.value.fields[f])
                /\ f \in TextFields => DOMAIN row.value.fields[f] \in {{"text"}, {"binary"}}
      BY DEF RowOK, HashOK
    <2>4. \A f \in DOMAIN row.value.fields : f \in TextFields =>
             new.value.fields[f] = row.value.fields[f]
      BY <1>3, <2>2
    <2>5. /\ new.value.type = "hash" \/ (new.value.type = "string" /\ DOMAIN new.value.fields = {})
          /\ \A f \in DOMAIN new.value.fields :
                /\ StringOK(new.value.fields[f])
                /\ f \in TextFields => DOMAIN new.value.fields[f] \in {{"text"}, {"binary"}}
      BY <1>2, <1>3, <2>1, <2>3, <2>4
    <2> QED
      BY <1>2, <1>4, <2>5 DEF HashOK
  <1>6. RowOK(family, new)
    BY <1>1, <1>3, <1>5 DEF RowOK
  <1> QED
    BY <1>1, <1>6 DEF new

\* What a corruption leaves of a field: it is gone, as it was, or junk.
LEMMA CorruptedFields ==
    ASSUME NEW value, HashOK(value), value.type = "hash", NEW v \in Corrupted(value)
    PROVE  /\ v \in {NotAHash} \cup {Hash(v.fields)}
           /\ \A f \in DOMAIN v.fields :
                 \/ f \in DOMAIN value.fields /\ v.fields[f] = value.fields[f]
                 \/ f \in DOMAIN value.fields /\ v.fields[f] \in Junk(f)
                 \/ f = "extra" /\ v.fields[f] = [word |-> "junk"]
  <1> DEFINE more == [g \in DOMAIN value.fields \cup {"extra"} |->
                        IF g = "extra" THEN [word |-> "junk"] ELSE value.fields[g]]
             less(g) == [h \in DOMAIN value.fields \ {g} |-> value.fields[h]]
             worse(g, junk) == [value EXCEPT !.fields[g] = junk]
  <1>1. CASE v = NotAHash
    BY <1>1 DEF NotAHash
  <1>2. CASE v = Hash(more)
    <2>1. v.fields = more
      BY <1>2, HashPresent
    <2> QED
      BY <1>2, <2>1
  <1>3. ASSUME NEW g \in DOMAIN value.fields,
               v = Hash(less(g))
        PROVE  /\ v \in {NotAHash} \cup {Hash(v.fields)}
               /\ \A f \in DOMAIN v.fields :
                     f \in DOMAIN value.fields /\ v.fields[f] = value.fields[f]
    <2>1. v.fields = less(g)
      BY <1>3, HashPresent
    <2> QED
      BY <1>3, <2>1
  <1>4. ASSUME NEW g \in DOMAIN value.fields, NEW junk \in Junk(g),
               v = worse(g, junk)
        PROVE  /\ v \in {NotAHash} \cup {Hash(v.fields)}
               /\ \A f \in DOMAIN v.fields : f \in DOMAIN value.fields /\
                     v.fields[f] = IF f = g THEN junk ELSE value.fields[f]
    <2>1. v.fields = [value.fields EXCEPT ![g] = junk] /\ v.type = "hash"
      BY <1>4 DEF HashOK
    <2>2. v = [type |-> "hash", fields |-> v.fields]
      BY <1>4, <2>1 DEF HashOK
    <2> QED
      BY <2>1, <2>2 DEF Hash
  <1>5. \/ v = NotAHash
        \/ v = Hash(more)
        \/ \E g \in DOMAIN value.fields : v = Hash(less(g))
        \/ \E g \in DOMAIN value.fields : \E junk \in Junk(g) : v = worse(g, junk)
    <2>1. Corrupted(value) =
             {NotAHash, Hash(more)} \cup {Hash(less(g)) : g \in DOMAIN value.fields}
             \cup UNION {{worse(g, junk) : junk \in Junk(g)} : g \in DOMAIN value.fields}
      BY DEF Corrupted
    <2> HIDE DEF more, less, worse
    <2> QED
      BY <2>1
  <1>6. CASE \E g \in DOMAIN value.fields : v = Hash(less(g))
    <2>1. PICK g \in DOMAIN value.fields : v = Hash(less(g))
      BY <1>6
    <2> HIDE DEF less
    <2> QED
      BY <1>3, <2>1
  <1>7. CASE \E g \in DOMAIN value.fields : \E junk \in Junk(g) : v = worse(g, junk)
    <2>0. PICK g \in DOMAIN value.fields : \E junk \in Junk(g) : v = worse(g, junk)
      BY <1>7
    <2>1. PICK junk \in Junk(g) : v = worse(g, junk)
      BY <2>0
    <2> HIDE DEF worse
    <2>2. /\ v \in {NotAHash} \cup {Hash(v.fields)}
          /\ \A f \in DOMAIN v.fields : f \in DOMAIN value.fields /\
                v.fields[f] = IF f = g THEN junk ELSE value.fields[f]
      BY <1>4, <2>1
    <2> QED
      BY <2>2
  <1> HIDE DEF more, less, worse
  <1> QED
    BY <1>1, <1>2, <1>5, <1>6, <1>7

\* What a corruption writes is a string, never the empty text, and in a text
\* field never text.
LEMMA JunkStrings ==
    ASSUME NEW f, NEW v \in Junk(f)
    PROVE  /\ StringOK(v)
           /\ f \in TextFields => v = [binary |-> 0]
           /\ v # [text |-> Empty]
  <1>1. v \in {[binary |-> 0], [word |-> "junk"], [num |-> -I32Max - 2],
               [num |-> LuaMax + 1], [num |-> U64Max + 1]}
    BY DEF Junk
  <1>2. StringOK(v) /\ v # [text |-> Empty]
    BY <1>1 DEF StringOK
  <1>3. f \in TextFields => v = [binary |-> 0]
    BY DEF Junk, TextFields, Times, Lookups
  <1> QED
    BY <1>2, <1>3

\* A corrupted value is still a value, and its service_id is the old one or is
\* not empty.
LEMMA CorruptedOK ==
    ASSUME NEW value, HashOK(value), value.type = "hash", NEW v \in Corrupted(value)
    PROVE  /\ HashOK(v)
           /\ "service_id" \in DOMAIN v.fields =>
                 /\ "service_id" \in DOMAIN value.fields
                 /\ \/ v.fields.service_id = value.fields.service_id
                    \/ v.fields.service_id # [text |-> Empty]
  <1>1. /\ v \in {NotAHash} \cup {Hash(v.fields)}
        /\ \A f \in DOMAIN v.fields :
              \/ f \in DOMAIN value.fields /\ v.fields[f] = value.fields[f]
              \/ f \in DOMAIN value.fields /\ v.fields[f] \in Junk(f)
              \/ f = "extra" /\ v.fields[f] = [word |-> "junk"]
    BY CorruptedFields
  <1>2. /\ v # None /\ DOMAIN v = {"type", "fields"}
        /\ v.type = "hash" \/ (v.type = "string" /\ DOMAIN v.fields = {})
    <2>1. CASE v = NotAHash
      BY <2>1, NotAHashPresent DEF NotAHash
    <2>2. CASE v = Hash(v.fields)
      BY <2>2, HashPresent DEF Hash
    <2> QED
      BY <1>1, <2>1, <2>2
  <1>3. ASSUME NEW f \in DOMAIN v.fields
        PROVE  /\ StringOK(v.fields[f])
               /\ f \in TextFields => DOMAIN v.fields[f] \in {{"text"}, {"binary"}}
    <2>1. CASE f \in DOMAIN value.fields /\ v.fields[f] = value.fields[f]
      BY <2>1 DEF HashOK
    <2>2. CASE v.fields[f] \in Junk(f)
      BY <2>2, JunkStrings, LiteralDomain
    <2>3. CASE f = "extra" /\ v.fields[f] = [word |-> "junk"]
      BY <2>3 DEF StringOK, TextFields
    <2> QED
      BY <1>1, <2>1, <2>2, <2>3
  <1>4. HashOK(v)
    BY <1>2, <1>3 DEF HashOK
  <1>5. "service_id" \in DOMAIN v.fields =>
           /\ "service_id" \in DOMAIN value.fields
           /\ \/ v.fields["service_id"] = value.fields["service_id"]
              \/ v.fields["service_id"] \in Junk("service_id")
    BY <1>1
  <1> QED
    BY <1>4, <1>5, JunkStrings

-----------------------------------------------------------------------------

\* A step keeps the store in shape when it keeps, drops or replaces each row by
\* a row.
LEMMA StoreStep ==
    ASSUME StoreInv, clock' \in Int, redis' = [f \in Family |-> redis'[f]],
           \A f \in Family : redis'[f] = redis[f] \/ redis'[f] = None \/ RowOK(f, redis'[f])
    PROVE  StoreInv'
  BY DEF StoreInv

\* The four families of keys.
LEMMA FamilyNames == Family = {"external", "session", "handoff", "logout"}
  BY DEF Family, Fields

\* validate_service_id refuses the empty string.
LEMMA ValidServiceId ==
    ASSUME NEW value, validate_service_id(value)
    PROVE  value # Empty
  BY DEF validate_service_id, validate_nonempty_max_bytes, Empty, Text

\* A login that goes on has passed the checks of its input.
LEMMA LoginGoesOn ==
    ASSUME NEW q, NEW cookie, login_result(q, cookie) \in {"google", "sso"}
    PROVE  Deserializes(q, LoginQuery) /\ login_input_is_valid(q)
           /\ ServiceIsUsable(Field(q, "service_id")) /\ unix_seconds(clock) # {}
  BY DEF login_result

\* The outcomes of a login that goes to Google.
LEMMA GoogleLoginResults ==
    ASSUME NEW q
    PROVE  start_google_login(q) \in {"google", "503"}
  BY DEF start_google_login

\* The outcomes of a login with a common session.
LEMMA SsoLoginResults ==
    ASSUME NEW q, NEW reference
    PROVE  sso_login(q, reference) \in {"google", "sso", "403", "503"}
  BY GoogleLoginResults DEF sso_login

\* The outcomes of a login request.
LEMMA LoginResults ==
    ASSUME NEW q, NEW cookie
    PROVE  login_result(q, cookie) \in {"google", "sso", "400", "403", "503"}
  BY GoogleLoginResults, SsoLoginResults DEF login_result

\* The reply Ok of issue_handoff is the script's code 0.
LEMMA IssueCodes ==
    ASSUME NEW value, NEW old, NEW reference, NEW handoff, NEW now,
           script_error(issue_script(value, old, reference, handoff, now)) = "Ok"
    PROVE  issue_script(value, old, reference, handoff, now) = 0
  <1>1. issue_script(value, old, reference, handoff, now) \in {0, 1, 2, 3, 9}
    BY DEF issue_script
  <1> QED
    BY <1>1 DEF script_error

\* What single sign-on has found out when it issues a handoff.
LEMMA SsoGranted ==
    ASSUME NEW q, NEW cookie, login_result(q, cookie) = "sso"
    PROVE  LET reference == The(cookie)
               value == At("session", reference) IN
           /\ ReadState("session", value, clock) = "Ok"
           /\ value.fields.internal_user_id.num = world.user
           /\ checked_expires_at(clock, HandoffTTL) # {}
           /\ issue_script(value, At("handoff", HandoffCode), reference,
                           Encode(SsoHandoffState(q, reference)), clock) = 0
  <1>1. sso_login(q, The(cookie)) = "sso"
    BY GoogleLoginResults DEF login_result
  <1> DEFINE value == At("session", The(cookie))
             code == issue_script(value, At("handoff", HandoffCode), The(cookie),
                           Encode(SsoHandoffState(q, The(cookie))), clock)
  <1>2. /\ ReadState("session", value, clock) = "Ok"
        /\ value.fields.internal_user_id.num = world.user
        /\ checked_expires_at(clock, HandoffTTL) # {}
        /\ script_error(code) = "Ok"
    <2> HIDE DEF value
    <2> QED
      BY <1>1, GoogleLoginResults DEF sso_login, value
  <1> QED
    BY <1>2, IssueCodes

-----------------------------------------------------------------------------
\* The rows of these families are what they were.
Same(families) == \A f \in families : redis'[f] = redis[f]
\* The row of this family is what it was, or is dropped.
Kept(f) == redis'[f] = redis[f] \/ redis'[f] = None
\* The session reference that the browser presents to the foundation.
SessionCookie == request_cookie(mail.cookies, AUTH_SESSION)

\* The effect of a login that stores a transaction and goes to Google.
LoginToGoogle ==
    /\ Deserializes(mail.pairs, LoginQuery) /\ login_input_is_valid(mail.pairs)
    /\ answer' = [at |-> "login", status |-> "302"]
    /\ mail' = Mail("google", <<<<"state", OauthState>>>>, <<>>, <<>>)
    /\ redis'["external"] = NewKey(OauthState, NewExternalState(mail.pairs, clock + ExternalTTL))
    /\ Kept("session") /\ Same({"handoff", "logout"})

\* The effect of a login that a common session answers.
LoginBySession ==
    /\ login_result(mail.pairs, SessionCookie) = "sso"
    /\ answer' = [at |-> "login", status |-> "302"]
    /\ mail' = Mail("portal_callback",
                    SsoRedirect(The(world.service.login_callback_uri.url), HandoffCode,
                                Field(mail.pairs, "state")),
                    PortalCookies(jar), <<>>)
    /\ redis'["handoff"] = NewKey(HandoffCode, SsoHandoffState(mail.pairs, The(SessionCookie)))
    /\ Same({"external", "session", "logout"})

\* The effect of a login that is refused. A query that does not deserialize
\* leaves the store alone.
LoginRefused ==
    /\ answer' \in [at : {"login"}, status : {"400", "403", "503"}]
    /\ mail' = None
    /\ Kept("session") /\ Same({"external", "handoff", "logout"})
    /\ ~Deserializes(mail.pairs, LoginQuery) => Same({"session"})

\* A login request goes to Google, is answered by the session, or is refused.
LEMMA LoginEffect ==
    ASSUME StoreInv, FoundationLogin
    PROVE  /\ mail # None /\ mail.at = "login"
           /\ UNCHANGED <<world, foundation, portal, clock, starts, sessions, jar,
                          authenticated, faults>>
           /\ redis' = [f \in Family |-> redis'[f]]
           /\ LoginToGoogle \/ LoginBySession \/ LoginRefused
  <1> DEFINE result == login_result(mail.pairs, SessionCookie)
             reads == /\ reads_session(mail.pairs, SessionCookie)
                      /\ ReadState("session", At("session", The(SessionCookie)), clock) = "Expired"
             read == IF reads THEN [redis EXCEPT !["session"] = None] ELSE redis
  <1>1. /\ mail # None /\ mail.at = "login"
        /\ UNCHANGED <<world, foundation, portal, clock, starts, sessions, jar,
                       authenticated, faults>>
    BY DEF FoundationLogin, hosts
  <1>2. redis = [f \in Family |-> redis[f]]
    BY DEF StoreInv
  <1>3. /\ read = [f \in Family |-> read[f]]
        /\ read["session"] = redis["session"] \/ read["session"] = None
        /\ \A f \in {"external", "handoff", "logout"} : read[f] = redis[f]
        /\ ~reads => read = redis
    BY <1>2, FamilyNames
  <1>4. ~Deserializes(mail.pairs, LoginQuery) => ~reads
    BY DEF reads_session
  <1> HIDE DEF read, reads
  <1>5. CASE result = "google" /\ Answer("302")
             /\ redis' = [read EXCEPT
                   !["external"] = NewKey(OauthState, NewExternalState(mail.pairs, clock + ExternalTTL))]
             /\ mail' = Mail("google", <<<<"state", OauthState>>>>, <<>>, <<>>)
    <2>1. /\ redis' = [f \in Family |-> redis'[f]]
          /\ redis'["external"] = NewKey(OauthState, NewExternalState(mail.pairs, clock + ExternalTTL))
          /\ \A f \in {"session", "handoff", "logout"} : redis'[f] = read[f]
      BY <1>3, <1>5, FamilyNames
    <2>2. Kept("session") /\ Same({"handoff", "logout"})
      BY <1>3, <2>1 DEF Kept, Same
    <2>3. LoginToGoogle
      BY <1>1, <1>5, <2>1, <2>2, LoginGoesOn DEF LoginToGoogle, Answer
    <2> QED
      BY <1>1, <2>1, <2>3
  <1>6. CASE result = "sso" /\ Answer("302")
             /\ redis' = [redis EXCEPT !["handoff"] =
                            NewKey(HandoffCode, SsoHandoffState(mail.pairs, The(SessionCookie)))]
             /\ mail' = Mail("portal_callback",
                    SsoRedirect(The(world.service.login_callback_uri.url), HandoffCode,
                                Field(mail.pairs, "state")),
                    PortalCookies(jar), <<>>)
    <2>1. /\ redis' = [f \in Family |-> redis'[f]]
          /\ redis'["handoff"] = NewKey(HandoffCode, SsoHandoffState(mail.pairs, The(SessionCookie)))
          /\ Same({"external", "session", "logout"})
      BY <1>2, <1>6, FamilyNames DEF Same
    <2>2. LoginBySession
      BY <1>1, <1>6, <2>1 DEF LoginBySession, Answer
    <2> QED
      BY <1>1, <2>1, <2>2
  <1>7. CASE result \notin {"google", "sso"} /\ Answer(result) /\ mail' = None /\ redis' = read
    <2>1. result \in {"400", "403", "503"}
      BY <1>7, LoginResults
    <2>2. answer' \in [at : {"login"}, status : {"400", "403", "503"}]
      BY <1>1, <1>7, <2>1 DEF Answer
    <2>3. LoginRefused
      BY <1>3, <1>4, <1>7, <2>2 DEF LoginRefused, Kept, Same
    <2> QED
      BY <1>1, <1>3, <1>7, <2>3
  <1> QED
    BY <1>5, <1>6, <1>7 DEF FoundationLogin, SessionCookie, read, reads

\* The row of this family gets another status and is otherwise what it was.
Restated(family, status) ==
    redis'[family] = [redis[family] EXCEPT !.value.fields.status = [word |-> status]]

\* The transaction that Google's callback names.
CallbackValue == At("external", Field(mail.pairs, "state"))
\* What the claim of it decodes.
CallbackTxns == decode_claim(claim_reply(CallbackValue.fields))

\* The effect of a callback that makes a common session and a handoff.
CallbackGranted ==
    /\ Deserializes(mail.pairs, CallbackQuery)
    /\ claim_script(CallbackValue, clock) = 0
    /\ CallbackTxns # {}
    /\ claimed_result(The(CallbackTxns)) = "302"
    /\ answer' = [at |-> "google_callback", status |-> "302"]
    /\ mail' = Mail("portal_callback",
                    GoogleRedirect(The(world.service.login_callback_uri.url), HandoffCode,
                                   The(CallbackTxns).service_state),
                    PortalCookies(jar), <<>>)
    /\ Restated("external", "processing")
    /\ redis'["session"] = NewKey(SessionReference, NewSessionState)
    /\ redis'["handoff"] = NewKey(HandoffCode, CallbackHandoff(The(CallbackTxns)))
    /\ Same({"logout"})
    /\ jar' = [jar EXCEPT ![AUTH_SESSION] = {SessionReference}]
    /\ authenticated' = {clock}

\* The effect of a callback that is refused: the transaction may have been
\* claimed, and nothing else is written.
CallbackRefused ==
    /\ answer' \in [at : {"google_callback"}, status : {"400", "403", "500", "502", "503"}]
    /\ mail' = None
    /\ \/ Kept("external")
       \/ claim_script(CallbackValue, clock) = 0 /\ Restated("external", "processing")
    /\ Same({"session", "handoff", "logout"})
    /\ ~Deserializes(mail.pairs, CallbackQuery) => Same({"external"})
    /\ UNCHANGED <<jar, authenticated>>

\* The outcomes of a callback whose transaction is claimed.
LEMMA ClaimedResults ==
    ASSUME NEW txn
    PROVE  claimed_result(txn) \in {"302", "403", "500", "502", "503"}
  BY DEF claimed_result

\* The outcomes of a callback, and what a successful one has found.
LEMMA ClaimResults ==
    ASSUME NEW code, NEW decoded
    PROVE  /\ claim_external_callback(code, decoded) \in {"302", "400", "403", "500", "502", "503"}
           /\ claim_external_callback(code, decoded) = "302" =>
                 code = 0 /\ decoded # {} /\ claimed_result(The(decoded)) = "302"
  BY ClaimedResults DEF claim_external_callback

\* Google's callback is granted or refused.
LEMMA CallbackEffect ==
    ASSUME StoreInv, GoogleAuthCallback
    PROVE  /\ mail # None /\ mail.at = "google_callback"
           /\ UNCHANGED <<world, foundation, portal, clock, starts, sessions, faults>>
           /\ redis' = [f \in Family |-> redis'[f]]
           /\ CallbackGranted \/ CallbackRefused
  <1> DEFINE valid == Deserializes(mail.pairs, CallbackQuery) /\ callback_input_is_valid(mail.pairs)
             code == claim_script(CallbackValue, clock)
             decoded == IF code = 0 THEN CallbackTxns ELSE {}
             status == IF valid THEN claim_external_callback(code, decoded) ELSE "400"
             claimed == IF code = 0 THEN WithStatus("external", "processing")
                        ELSE IF code = 2 THEN [redis EXCEPT !["external"] = None]
                        ELSE redis
             restated == [redis["external"] EXCEPT !.value.fields.status = [word |-> "processing"]]
  <1>1. /\ mail # None /\ mail.at = "google_callback"
        /\ UNCHANGED <<world, foundation, portal, clock, starts, sessions, faults>>
    BY DEF GoogleAuthCallback, hosts
  <1>2. redis = [f \in Family |-> redis[f]]
    BY DEF StoreInv
  <1>3. /\ WithStatus("external", "processing")
              = [f \in Family |-> WithStatus("external", "processing")[f]]
        /\ WithStatus("external", "processing")["external"] = restated
        /\ \A f \in {"session", "handoff", "logout"} :
              WithStatus("external", "processing")[f] = redis[f]
    BY <1>2, FamilyNames DEF WithStatus
  <1> HIDE DEF restated
  <1>4. /\ claimed = [f \in Family |-> claimed[f]]
        /\ \A f \in {"session", "handoff", "logout"} : claimed[f] = redis[f]
        /\ code = 0 => claimed["external"] = restated
        /\ code # 0 => claimed["external"] = redis["external"] \/ claimed["external"] = None
    BY <1>2, <1>3, FamilyNames
  <1>5. /\ status \in {"302", "400", "403", "500", "502", "503"}
        /\ status = "302" => /\ valid /\ code = 0 /\ CallbackTxns # {}
                             /\ claimed_result(The(CallbackTxns)) = "302"
    BY ClaimResults
  <1>6. \/ /\ status = "302"
           /\ redis' = [claimed EXCEPT
                 !["session"] = NewKey(SessionReference, NewSessionState),
                 !["handoff"] = NewKey(HandoffCode, CallbackHandoff(The(decoded)))]
           /\ mail' = Mail("portal_callback",
                 GoogleRedirect(The(world.service.login_callback_uri.url), HandoffCode,
                                The(decoded).service_state),
                 PortalCookies(jar), <<>>)
           /\ jar' = [jar EXCEPT ![AUTH_SESSION] = {SessionReference}]
           /\ authenticated' = {clock}
        \/ /\ status # "302"
           /\ redis' = IF valid THEN claimed ELSE redis
           /\ mail' = None
           /\ UNCHANGED <<jar, authenticated>>
    BY DEF GoogleAuthCallback, CallbackValue, CallbackTxns
  <1>7. answer' = [at |-> "google_callback", status |-> status]
    BY <1>1 DEF GoogleAuthCallback, CallbackValue, CallbackTxns, Answer
  <1> HIDE DEF status, claimed, code
  <1>8. CASE status = "302"
    <2>1. decoded = CallbackTxns
      BY <1>5, <1>8
    <2>2. /\ redis' = [f \in Family |-> redis'[f]]
          /\ redis'["session"] = NewKey(SessionReference, NewSessionState)
          /\ redis'["handoff"] = NewKey(HandoffCode, CallbackHandoff(The(CallbackTxns)))
          /\ redis'["external"] = restated
          /\ redis'["logout"] = redis["logout"]
      BY <1>4, <1>5, <1>6, <1>8, <2>1, FamilyNames
    <2>3. CallbackGranted
      BY <1>5, <1>6, <1>7, <1>8, <2>1, <2>2 DEF CallbackGranted, Restated, Same, restated, code
    <2> QED
      BY <1>1, <2>2, <2>3
  <1>9. CASE status # "302"
    <2>1. answer' \in [at : {"google_callback"}, status : {"400", "403", "500", "502", "503"}]
      BY <1>5, <1>7, <1>9
    <2>2. CallbackRefused
      BY <1>4, <1>6, <1>9, <2>1 DEF CallbackRefused, Kept, Restated, Same, restated, code
    <2> QED
      BY <1>1, <1>2, <1>4, <1>6, <1>9, <2>2
  <1> QED
    BY <1>8, <1>9

\* The handoff that an exchange names.
HandoffValue == At("handoff", Field(mail.pairs, "code"))
\* The session reference that is stored in it.
HandoffLookup == HandoffValue.fields.common_session_lookup.lookup
\* The service that the exchange's credentials name.
PresentedId == The(basic_credentials(mail.headers)).id
\* The challenge computed from the verifier that was sent.
PresentedChallenge == The(pkce_s256_challenge(Field(mail.pairs, "code_verifier")))

\* The effect of an exchange that the script grants.
ExchangeGranted ==
    /\ exchange_script(HandoffValue, At("session", HandoffLookup), HandoffLookup,
                       PresentedId, PresentedChallenge, clock) = 0
    /\ exchange_refusal(mail.pairs, mail.headers) = "none"
    /\ answer' = [at |-> "exchange", status |-> "200"]
    /\ mail' = Mail("exchanged",
                 <<<<"internal_user_id", Number(HandoffValue.fields.internal_user_id.num)>>,
                   <<"authenticated_at", Number(HandoffValue.fields.authenticated_at.num)>>>>,
                 <<>>, <<>>)
    /\ Restated("handoff", "used")
    /\ Same({"external", "session", "logout"})

\* The effect of an exchange that is refused. What is refused before the script
\* runs leaves the store alone.
ExchangeRefused ==
    /\ answer' \in [at : {"exchange"}, status : {"400", "401", "403", "503"}]
    /\ mail' = Mail("exchanged", <<>>, <<>>, <<>>)
    /\ Kept("handoff") /\ Kept("session") /\ Same({"external", "logout"})
    /\ exchange_refusal(mail.pairs, mail.headers) # "none" => Same({"handoff", "session"})

\* The refusals of an exchange before its script runs.
LEMMA ExchangeRefusals ==
    ASSUME NEW body, NEW authorization
    PROVE  exchange_refusal(body, authorization) \in {"none", "400", "401", "403", "503"}
  BY DEF exchange_refusal

\* The statuses that the script's codes become; 200 is code 0.
LEMMA ExchangeStatuses ==
    ASSUME NEW code
    PROVE  /\ exchange_status(code) \in {"200", "400", "503"}
           /\ exchange_status(code) = "200" <=> code = 0
  BY DEF exchange_status

\* An exchange that answers 0 had the script run with the session the handoff
\* names.
LEMMA ExchangeCodeZero ==
    ASSUME NEW value, NEW service_id, NEW challenge,
           exchange_handoff(value, service_id, challenge) = 0
    PROVE  LET lookup == value.fields.common_session_lookup.lookup IN
           exchange_script(value, At("session", lookup), lookup, service_id, challenge, clock) = 0
  BY DEF exchange_handoff

\* An exchange is granted or refused.
LEMMA ExchangeEffect ==
    ASSUME StoreInv, ExchangeAuthHandoff
    PROVE  /\ mail # None /\ mail.at = "exchange"
           /\ UNCHANGED <<world, foundation, portal, clock, starts, sessions, jar,
                          authenticated, faults>>
           /\ redis' = [f \in Family |-> redis'[f]]
           /\ ExchangeGranted \/ ExchangeRefused
  <1> DEFINE refusal == exchange_refusal(mail.pairs, mail.headers)
             code == exchange_handoff(HandoffValue, PresentedId, PresentedChallenge)
             used == [redis["handoff"] EXCEPT !.value.fields.status = [word |-> "used"]]
  <1>1. /\ mail # None /\ mail.at = "exchange"
        /\ UNCHANGED <<world, foundation, portal, clock, starts, sessions, jar,
                       authenticated, faults>>
    BY DEF ExchangeAuthHandoff, hosts
  <1>2. redis = [f \in Family |-> redis[f]]
    BY DEF StoreInv
  <1>3. /\ WithStatus("handoff", "used") = [f \in Family |-> WithStatus("handoff", "used")[f]]
        /\ WithStatus("handoff", "used")["handoff"] = used
        /\ \A f \in {"external", "session", "logout"} : WithStatus("handoff", "used")[f] = redis[f]
    BY <1>2, FamilyNames DEF WithStatus
  <1> HIDE DEF used
  <1>4. CASE /\ refusal # "none"
             /\ Answer(refusal)
             /\ mail' = Mail("exchanged", <<>>, <<>>, <<>>)
             /\ UNCHANGED redis
    <2>1. answer' \in [at : {"exchange"}, status : {"400", "401", "403", "503"}]
      BY <1>1, <1>4, ExchangeRefusals DEF Answer
    <2>2. ExchangeRefused
      BY <1>4, <2>1 DEF ExchangeRefused, Kept, Same
    <2> QED
      BY <1>1, <1>2, <1>4, <2>2
  <1>5. CASE /\ refusal = "none"
             /\ code = 0
             /\ Answer(exchange_status(code))
             /\ mail' = Mail("exchanged",
                   <<<<"internal_user_id", Number(HandoffValue.fields.internal_user_id.num)>>,
                     <<"authenticated_at", Number(HandoffValue.fields.authenticated_at.num)>>>>,
                   <<>>, <<>>)
             /\ redis' = WithStatus("handoff", "used")
    <2>1. answer' = [at |-> "exchange", status |-> "200"]
      BY <1>1, <1>5, ExchangeStatuses DEF Answer
    <2>2. /\ redis' = [f \in Family |-> redis'[f]]
          /\ redis'["handoff"] = used
          /\ Same({"external", "session", "logout"})
      BY <1>3, <1>5 DEF Same
    <2>3. exchange_script(HandoffValue, At("session", HandoffLookup), HandoffLookup,
                          PresentedId, PresentedChallenge, clock) = 0
      BY <1>5, ExchangeCodeZero DEF HandoffLookup
    <2>4. ExchangeGranted
      BY <1>5, <2>1, <2>2, <2>3 DEF ExchangeGranted, Restated, used
    <2> QED
      BY <1>1, <2>2, <2>4
  <1>6. CASE /\ refusal = "none"
             /\ code # 0
             /\ Answer(exchange_status(code))
             /\ mail' = Mail("exchanged", <<>>, <<>>, <<>>)
             /\ redis' = IF code = 2 THEN [redis EXCEPT !["handoff"] = None]
                         ELSE IF code = 12 THEN [redis EXCEPT !["session"] = None]
                         ELSE redis
    <2>1. answer' \in [at : {"exchange"}, status : {"400", "401", "403", "503"}]
      BY <1>1, <1>6, ExchangeStatuses DEF Answer
    <2>2. /\ redis' = [f \in Family |-> redis'[f]]
          /\ Kept("handoff") /\ Kept("session") /\ Same({"external", "logout"})
      BY <1>2, <1>6, FamilyNames DEF Same, Kept
    <2>3. ExchangeRefused
      BY <1>6, <2>1, <2>2 DEF ExchangeRefused
    <2> QED
      BY <1>1, <2>2, <2>3
  <1> QED
    <2> HIDE DEF code, refusal
    <2>1. \/ /\ refusal # "none"
             /\ Answer(refusal)
             /\ mail' = Mail("exchanged", <<>>, <<>>, <<>>)
             /\ UNCHANGED redis
          \/ /\ refusal = "none"
             /\ Answer(exchange_status(code))
             /\ mail' = Mail("exchanged",
                   IF code = 0
                   THEN <<<<"internal_user_id", Number(HandoffValue.fields.internal_user_id.num)>>,
                          <<"authenticated_at", Number(HandoffValue.fields.authenticated_at.num)>>>>
                   ELSE <<>>, <<>>, <<>>)
             /\ redis' = IF code = 0 THEN WithStatus("handoff", "used")
                         ELSE IF code = 2 THEN [redis EXCEPT !["handoff"] = None]
                         ELSE IF code = 12 THEN [redis EXCEPT !["session"] = None]
                         ELSE redis
      BY DEF ExchangeAuthHandoff, code, refusal, HandoffValue, PresentedId, PresentedChallenge,
             exchange_reply
    <2> QED
      BY <1>4, <1>5, <1>6, <2>1

\* The effect of a logout page that is shown: a logout transaction is stored.
LogoutShown ==
    /\ Deserializes(mail.pairs, LogoutQuery)
    /\ answer' = [at |-> "logout_get", status |-> "200"]
    /\ mail' = Mail("logout_post",
                    <<<<"logout_reference", LogoutReference>>, <<"csrf_token", CsrfToken>>>>,
                    FoundationCookies(jar), <<>>)
    /\ redis'["logout"] = NewKey(LogoutReference, NewLogoutState(Field(mail.pairs, "service_id")))
    /\ Same({"external", "session", "handoff"})

\* The effect of a logout page that is not shown.
LogoutNotShown ==
    /\ answer' \in [at : {"logout_get"}, status : {"302", "400", "403", "500", "503"}]
    /\ ~Deserializes(mail.pairs, LogoutQuery) => answer'.status = "400"
    /\ mail' = None
    /\ UNCHANGED redis

\* The outcomes of the logout page; a query that does not deserialize is a 400.
LEMMA LogoutGetResults ==
    ASSUME NEW q, NEW cookie
    PROVE  /\ logout_get_result(q, cookie) \in {"200", "302", "400", "403", "500", "503"}
           /\ ~Deserializes(q, LogoutQuery) => logout_get_result(q, cookie) = "400"
  BY DEF logout_get_result

\* The logout page is shown or not.
LEMMA LogoutGetEffect ==
    ASSUME StoreInv, LogoutGet
    PROVE  /\ mail # None /\ mail.at = "logout_get"
           /\ UNCHANGED <<world, foundation, portal, clock, starts, sessions, jar,
                          authenticated, faults>>
           /\ redis' = [f \in Family |-> redis'[f]]
           /\ LogoutShown \/ LogoutNotShown
  <1> DEFINE status == logout_get_result(mail.pairs, SessionCookie)
  <1>1. /\ mail # None /\ mail.at = "logout_get"
        /\ UNCHANGED <<world, foundation, portal, clock, starts, sessions, jar,
                       authenticated, faults>>
    BY DEF LogoutGet, hosts
  <1>2. redis = [f \in Family |-> redis[f]]
    BY DEF StoreInv
  <1>3. CASE /\ Answer(status) /\ status = "200"
             /\ redis' = [redis EXCEPT !["logout"] =
                   NewKey(LogoutReference, NewLogoutState(Field(mail.pairs, "service_id")))]
             /\ mail' = Mail("logout_post",
                   <<<<"logout_reference", LogoutReference>>, <<"csrf_token", CsrfToken>>>>,
                   FoundationCookies(jar), <<>>)
    <2>1. Deserializes(mail.pairs, LogoutQuery)
      BY <1>3, LogoutGetResults
    <2>2. /\ redis' = [f \in Family |-> redis'[f]]
          /\ redis'["logout"] = NewKey(LogoutReference, NewLogoutState(Field(mail.pairs, "service_id")))
          /\ Same({"external", "session", "handoff"})
      BY <1>2, <1>3, FamilyNames DEF Same
    <2>3. LogoutShown
      BY <1>1, <1>3, <2>1, <2>2 DEF LogoutShown, Answer
    <2> QED
      BY <1>1, <2>2, <2>3
  <1>4. CASE Answer(status) /\ status # "200" /\ mail' = None /\ UNCHANGED redis
    <2>1. LogoutNotShown
      BY <1>1, <1>4, LogoutGetResults DEF LogoutNotShown, Answer
    <2> QED
      BY <1>1, <1>2, <1>4, <2>1
  <1> QED
    BY <1>3, <1>4 DEF LogoutGet, SessionCookie

\* The logout transaction that the form names.
LogoutValue == At("logout", Field(mail.pairs, "logout_reference"))

\* The effect of a logout whose transaction the script uses up.
LogoutDone ==
    /\ Deserializes(mail.pairs, LogoutForm)
    /\ logout_script(LogoutValue, Field(mail.pairs, "csrf_token"), clock) = 0
    /\ answer' \in [at : {"logout_post"}, status : {"303", "503"}]
    /\ answer'.status = logout_post_status(0, LogoutValue)
    /\ Restated("logout", "used")
    /\ Kept("session") /\ Same({"external", "handoff"})

\* The effect of a logout form that is refused.
LogoutRefused ==
    /\ answer' \in [at : {"logout_post"}, status : {"400", "403", "503"}]
    /\ Kept("logout") /\ Same({"external", "session", "handoff"})
    /\ ~Deserializes(mail.pairs, LogoutForm) => Same({"logout"})

\* The statuses that the logout script's codes become.
LEMMA LogoutPostStatuses ==
    ASSUME NEW code, NEW value
    PROVE  /\ code = 0 => logout_post_status(code, value) \in {"303", "503"}
           /\ code # 0 => logout_post_status(code, value) \in {"400", "403", "503"}
  BY DEF logout_post_status

\* A logout form uses its transaction up or is refused.
LEMMA LogoutPostEffect ==
    ASSUME StoreInv, LogoutPost
    PROVE  /\ mail # None /\ mail.at = "logout_post"
           /\ mail' = None
           /\ UNCHANGED <<world, foundation, portal, clock, starts, sessions, authenticated, faults>>
           /\ redis' = [f \in Family |-> redis'[f]]
           /\ LogoutDone \/ LogoutRefused
  <1> DEFINE valid == logout_post_input_is_valid(mail.pairs, SessionCookie)
             code == logout_script(LogoutValue, Field(mail.pairs, "csrf_token"), clock)
             gone == At("session", The(SessionCookie)) # None
             used == [redis["logout"] EXCEPT !.value.fields.status = [word |-> "used"]]
             done == [WithStatus("logout", "used") EXCEPT !["session"] = IF gone THEN None ELSE @]
  <1>1. /\ mail # None /\ mail.at = "logout_post" /\ mail' = None
        /\ UNCHANGED <<world, foundation, portal, clock, starts, sessions, authenticated, faults>>
    BY DEF LogoutPost, hosts
  <1>2. redis = [f \in Family |-> redis[f]]
    BY DEF StoreInv
  <1>3. /\ WithStatus("logout", "used") = [f \in Family |-> WithStatus("logout", "used")[f]]
        /\ WithStatus("logout", "used")["logout"] = used
        /\ \A f \in {"external", "session", "handoff"} : WithStatus("logout", "used")[f] = redis[f]
    BY <1>2, FamilyNames DEF WithStatus
  <1> HIDE DEF used, gone
  <1>4. /\ done = [f \in Family |-> done[f]]
        /\ done["logout"] = used
        /\ done["session"] = redis["session"] \/ done["session"] = None
        /\ \A f \in {"external", "handoff"} : done[f] = redis[f]
    BY <1>3, FamilyNames
  <1> HIDE DEF done
  <1>5. CASE ~valid /\ Answer("400") /\ UNCHANGED redis
    <2>1. LogoutRefused
      BY <1>1, <1>5 DEF LogoutRefused, Answer, Kept, Same
    <2> QED
      BY <1>1, <1>2, <1>5, <2>1
  <1>6. CASE valid /\ code = 0 /\ Answer(logout_post_status(code, LogoutValue)) /\ redis' = done
    <2>1. Deserializes(mail.pairs, LogoutForm)
      BY <1>6 DEF logout_post_input_is_valid
    <2>2. /\ answer' \in [at : {"logout_post"}, status : {"303", "503"}]
          /\ answer'.status = logout_post_status(0, LogoutValue)
      BY <1>1, <1>6, LogoutPostStatuses DEF Answer
    <2>3. Restated("logout", "used") /\ Kept("session") /\ Same({"external", "handoff"})
      BY <1>4, <1>6 DEF Restated, Kept, Same, used
    <2>4. LogoutDone
      BY <1>6, <2>1, <2>2, <2>3 DEF LogoutDone
    <2> QED
      BY <1>1, <1>4, <1>6, <2>4
  <1>7. CASE /\ valid /\ code # 0 /\ Answer(logout_post_status(code, LogoutValue))
             /\ redis' = IF code = 2 THEN [redis EXCEPT !["logout"] = None] ELSE redis
    <2>1. answer' \in [at : {"logout_post"}, status : {"400", "403", "503"}]
      BY <1>1, <1>7, LogoutPostStatuses DEF Answer
    <2>2. /\ redis' = [f \in Family |-> redis'[f]]
          /\ Kept("logout") /\ Same({"external", "session", "handoff"})
      BY <1>2, <1>7, FamilyNames DEF Kept, Same
    <2>3. LogoutRefused
      BY <1>7, <2>1, <2>2 DEF LogoutRefused, logout_post_input_is_valid
    <2> QED
      BY <1>1, <2>2, <2>3
  <1> QED
    <2> HIDE DEF code, valid
    <2>1. \/ ~valid /\ Answer("400") /\ UNCHANGED redis
          \/ /\ valid
             /\ Answer(logout_post_status(code, LogoutValue))
             /\ redis' = IF code = 0 THEN done
                         ELSE IF code = 2 THEN [redis EXCEPT !["logout"] = None] ELSE redis
      BY DEF LogoutPost, code, valid, done, gone, LogoutValue, SessionCookie
    <2> QED
      BY <1>5, <1>6, <1>7, <2>1

-----------------------------------------------------------------------------

\* A corruption changes the value of one row and nothing else.
LEMMA CorruptEffect ==
    ASSUME StoreInv, NEW family \in Family, Corrupt(family)
    PROVE  /\ redis[family] # None /\ redis[family].value.type = "hash"
           /\ redis' = [f \in Family |-> redis'[f]]
           /\ \E v \in Corrupted(redis[family].value) :
                 redis'[family] = [redis[family] EXCEPT !.value = v]
           /\ Same(Family \ {family})
           /\ faults' = faults + 1
           /\ UNCHANGED <<world, foundation, portal, clock, starts, sessions, jar, mail, answer,
                          authenticated>>
  <1>1. /\ redis[family] # None /\ redis[family].value.type = "hash" /\ faults' = faults + 1
        /\ UNCHANGED <<world, foundation, portal, clock, starts, sessions, jar, mail, answer,
                       authenticated>>
    BY DEF Corrupt, hosts
  <1>2. PICK v \in Corrupted(redis[family].value) : redis' = [redis EXCEPT ![family].value = v]
    BY DEF Corrupt
  <1>3. redis = [f \in Family |-> redis[f]]
    BY DEF StoreInv
  <1>4. /\ redis' = [f \in Family |-> redis'[f]]
        /\ redis'[family] = [redis[family] EXCEPT !.value = v]
        /\ Same(Family \ {family})
    BY <1>2, <1>3 DEF Same
  <1> QED
    BY <1>1, <1>4

\* The passage of time drops rows at most.
LEMMA WaitEffect ==
    ASSUME StoreInv, Wait
    PROVE  /\ redis' = [f \in Family |-> redis'[f]]
           /\ \A f \in Family : Kept(f)
           /\ clock' \in Int /\ mail # None
           /\ faults' = faults + 1
           /\ UNCHANGED <<world, foundation, portal, starts, sessions, jar, mail, answer,
                          authenticated>>
  <1>1. /\ faults' = faults + 1 /\ mail # None
        /\ UNCHANGED <<world, foundation, portal, starts, sessions, jar, mail, answer,
                       authenticated>>
    BY DEF Wait, hosts
  <1>2. clock' \in Int
    BY TTLAssumption DEF Wait, StoreInv
  <1>3. PICK gone \in SUBSET {f \in Family : redis[f] # None} :
           redis' = [f \in Family |-> IF f \in gone THEN None ELSE redis[f]]
    BY DEF Wait
  <1>4. redis' = [f \in Family |-> redis'[f]] /\ \A f \in Family : Kept(f)
    BY <1>3 DEF Kept
  <1> QED
    BY <1>1, <1>2, <1>4

\* The actions that do not touch the store.
Elsewhere ==
    \/ StartFoundation \/ StartPortal \/ PortalLogin \/ GoogleConsent \/ PortalCallback
    \/ PortalSession \/ Browse \/ GetMe \/ PortalLogout \/ Alter

\* They leave the store, the clock and the person's login alone.
LEMMA ElsewhereEffect ==
    ASSUME Elsewhere
    PROVE  UNCHANGED <<world, redis, clock, authenticated>>
  BY DEF Elsewhere, StartFoundation, StartPortal, PortalLogin, GoogleConsent, PortalCallback,
         PortalSession, Browse, GetMe, PortalLogout, Alter, hosts

\* Every step is one of the actions that the lemmas above describe.
LEMMA Steps ==
    ASSUME Next
    PROVE  \/ Elsewhere \/ FoundationLogin \/ GoogleAuthCallback \/ ExchangeAuthHandoff
           \/ LogoutGet \/ LogoutPost \/ Wait \/ \E family \in Family : Corrupt(family)
  BY DEF Next, Elsewhere

\* The store begins in shape.
LEMMA StoreInit ==
    ASSUME Init
    PROVE  StoreInv
  <1>1. clock \in Int
    BY WorldAssumption DEF Init
  <1>2. PICK returning \in BOOLEAN :
           redis = [f \in Family |->
                      IF returning /\ f = "session"
                      THEN NewKey(Reference(<<"session">>), NewSessionState) ELSE None]
    BY DEF Init
  <1>3. RowOK("session", NewKey(Reference(<<"session">>), NewSessionState))
    BY NewKeyOK
  <1>4. redis = [f \in Family |-> redis[f]]
    BY <1>2
  <1>5. \A f \in Family : redis[f] # None =>
           f = "session" /\ redis[f] = NewKey(Reference(<<"session">>), NewSessionState)
    BY <1>2
  <1> QED
    BY <1>1, <1>3, <1>4, <1>5 DEF StoreInv

\* A service_id that a login has accepted is not empty.
LEMMA LoginStates ==
    ASSUME NEW q, login_input_is_valid(q), NEW e, NEW reference
    PROVE  /\ RowOK("external", NewKey(OauthState, NewExternalState(q, e)))
           /\ RowOK("handoff", NewKey(HandoffCode, SsoHandoffState(q, reference)))
  <1>1. Field(q, "service_id") # Empty
    BY ValidServiceId DEF login_input_is_valid
  <1>2. NewExternalState(q, e).service_id # Empty
    BY <1>1 DEF NewExternalState
  <1>3. SsoHandoffState(q, reference).service_id # Empty
    BY <1>1 DEF SsoHandoffState, NewHandoffState
  <1> QED
    BY <1>2, <1>3, NewKeyOK

\* The transaction that a claim decodes has the stored service_id.
LEMMA ClaimedServiceId ==
    ASSUME NEW row, RowOK("external", row), claim_script(row.value, clock) = 0,
           decode_claim(claim_reply(row.value.fields)) # {}
    PROVE  The(decode_claim(claim_reply(row.value.fields))).service_id # Empty
  <1> DEFINE fields == row.value.fields
             reply == claim_reply(fields)
             read == [service_id |-> reply[1], service_state |-> reply[2],
                      handoff_code_challenge |-> reply[3], provider |-> reply[4],
                      provider_verification_data |-> reply[5], created_at |-> reply[6],
                      expires_at |-> reply[7], status |-> reply[8]]
  <1>1. LuaAccepts("external", row.value)
    BY DEF claim_script
  <1>2. "service_id" \in DOMAIN fields
    BY <1>1 DEF LuaAccepts, Fields, EXTERNAL_FIELDS
  <1>3. /\ StringOK(fields["service_id"])
        /\ DOMAIN fields["service_id"] \in {{"text"}, {"binary"}}
        /\ fields["service_id"] # [text |-> Empty]
    BY <1>2 DEF RowOK, HashOK, TextFields
  <1>4. read["service_id"] = fields["service_id"]
    BY DEF claim_reply
  <1> HIDE DEF read
  <1>5. /\ decode_claim(reply) =
              {[f \in DOMAIN read |-> LET v == read[f] IN v[CHOOSE kind \in DOMAIN v : TRUE]]}
        /\ Parses("external", "service_id", read["service_id"])
    <2>1. decode_claim(reply) = Decode("external", read)
      BY DEF decode_claim, read
    <2>2. Decode("external", read) # {}
      BY <2>1
    <2>3. "service_id" \in DOMAIN read
      BY DEF read
    <2> QED
      BY <2>1, <2>2, <2>3 DEF Decode
  <1>6. DOMAIN fields["service_id"] = {"text"}
    BY <1>3, <1>4, <1>5 DEF Parses, Times, Lookups
  <1>7. fields["service_id"] = [text |-> fields["service_id"].text]
    BY <1>3, <1>6, StringDomain
  <1>8. fields["service_id"].text # Empty
    BY <1>3, <1>7
  <1>9. (CHOOSE kind \in DOMAIN fields["service_id"] : TRUE) = "text"
    BY <1>6
  <1>10. "service_id" \in DOMAIN read
    BY DEF read
  <1>11. The(decode_claim(reply)) =
           [f \in DOMAIN read |-> LET v == read[f] IN v[CHOOSE kind \in DOMAIN v : TRUE]]
    BY <1>5 DEF The
  <1>12. The(decode_claim(reply)).service_id = fields["service_id"].text
    BY <1>4, <1>9, <1>10, <1>11
  <1> QED
    BY <1>8, <1>12

\* A row whose status a script changes stays a row.
LEMMA RestatedRow ==
    ASSUME StoreInv, NEW family \in Family, NEW status, Restated(family, status),
           redis[family] # None
    PROVE  RowOK(family, redis'[family])
  <1>1. RowOK(family, redis[family])
    BY DEF StoreInv
  <1> QED
    BY <1>1, RestatedOK DEF Restated

\* A value that was found is the one of its family's row.
LEMMA AtRow ==
    ASSUME NEW family, NEW reference, At(family, reference) # None
    PROVE  redis[family] # None /\ At(family, reference) = redis[family].value
  BY DEF At

\* A claim that succeeds has found the row.
LEMMA ClaimedRow ==
    ASSUME claim_script(CallbackValue, clock) = 0
    PROVE  redis["external"] # None /\ CallbackValue = redis["external"].value
  <1>1. CallbackValue # None
    BY DEF claim_script
  <1> QED
    BY <1>1, AtRow DEF CallbackValue

\* A login keeps the store in shape.
LEMMA LoginStore ==
    ASSUME StoreInv, FoundationLogin
    PROVE  StoreInv'
  <1>1. clock' \in Int /\ redis' = [f \in Family |-> redis'[f]]
    BY LoginEffect DEF StoreInv
  <1>2. CASE LoginToGoogle
    <2>1. RowOK("external", redis'["external"])
      BY <1>2, LoginStates DEF LoginToGoogle
    <2> QED
      BY <1>1, <1>2, <2>1, FamilyNames, StoreStep DEF LoginToGoogle, Kept, Same
  <1>3. CASE LoginBySession
    <2>1. login_input_is_valid(mail.pairs)
      BY <1>3, LoginGoesOn DEF LoginBySession
    <2>2. RowOK("handoff", redis'["handoff"])
      BY <1>3, <2>1, LoginStates DEF LoginBySession
    <2> QED
      BY <1>1, <1>3, <2>2, FamilyNames, StoreStep DEF LoginBySession, Same
  <1>4. CASE LoginRefused
    BY <1>1, <1>4, FamilyNames, StoreStep DEF LoginRefused, Kept, Same
  <1> QED
    BY <1>2, <1>3, <1>4, LoginEffect

\* Google's callback keeps the store in shape.
LEMMA CallbackStore ==
    ASSUME StoreInv, GoogleAuthCallback
    PROVE  StoreInv'
  <1>1. clock' \in Int /\ redis' = [f \in Family |-> redis'[f]]
    BY CallbackEffect DEF StoreInv
  <1>2. ASSUME claim_script(CallbackValue, clock) = 0, Restated("external", "processing")
        PROVE  RowOK("external", redis'["external"])
    BY <1>2, ClaimedRow, RestatedRow, FamilyNames
  <1>3. CASE CallbackGranted
    <2>1. RowOK("external", redis["external"]) /\ CallbackValue = redis["external"].value
      BY <1>3, ClaimedRow, FamilyNames DEF CallbackGranted, StoreInv
    <2>2. The(CallbackTxns).service_id # Empty
      BY <1>3, <2>1, ClaimedServiceId DEF CallbackGranted, CallbackTxns
    <2>3. RowOK("handoff", redis'["handoff"])
      <3>1. CallbackHandoff(The(CallbackTxns)).service_id # Empty
        BY <2>2 DEF CallbackHandoff, NewHandoffState
      <3>2. RowOK("handoff", NewKey(HandoffCode, CallbackHandoff(The(CallbackTxns))))
        BY <3>1, NewKeyOK
      <3> QED
        BY <1>3, <3>2 DEF CallbackGranted
    <2>4. RowOK("session", redis'["session"])
      BY <1>3, NewKeyOK DEF CallbackGranted
    <2>5. RowOK("external", redis'["external"]) /\ redis'["logout"] = redis["logout"]
      BY <1>2, <1>3 DEF CallbackGranted, Same
    <2> QED
      BY <1>1, <2>3, <2>4, <2>5, FamilyNames, StoreStep
  <1>4. CASE CallbackRefused
    BY <1>1, <1>2, <1>4, FamilyNames, StoreStep DEF CallbackRefused, Kept, Same
  <1> QED
    BY <1>3, <1>4, CallbackEffect

\* An exchange that is granted has found the row.
LEMMA ExchangedRow ==
    ASSUME ExchangeGranted
    PROVE  redis["handoff"] # None /\ HandoffValue = redis["handoff"].value
  <1>1. HandoffValue # None
    BY DEF ExchangeGranted, exchange_script
  <1> QED
    BY <1>1, AtRow DEF HandoffValue

\* An exchange keeps the store in shape.
LEMMA ExchangeStore ==
    ASSUME StoreInv, ExchangeAuthHandoff
    PROVE  StoreInv'
  <1>1. clock' \in Int /\ redis' = [f \in Family |-> redis'[f]]
    BY ExchangeEffect DEF StoreInv
  <1>2. CASE ExchangeGranted
    <2>1. RowOK("handoff", redis'["handoff"])
      BY <1>2, ExchangedRow, RestatedRow, FamilyNames DEF ExchangeGranted
    <2> QED
      BY <1>1, <1>2, <2>1, FamilyNames, StoreStep DEF ExchangeGranted, Same
  <1>3. CASE ExchangeRefused
    BY <1>1, <1>3, FamilyNames, StoreStep DEF ExchangeRefused, Kept, Same
  <1> QED
    BY <1>2, <1>3, ExchangeEffect

\* The logout page keeps the store in shape.
LEMMA LogoutGetStore ==
    ASSUME StoreInv, LogoutGet
    PROVE  StoreInv'
  <1>1. clock' \in Int /\ redis' = [f \in Family |-> redis'[f]]
    BY LogoutGetEffect DEF StoreInv
  <1>2. CASE LogoutShown
    <2>1. RowOK("logout", redis'["logout"])
      BY <1>2, NewKeyOK DEF LogoutShown
    <2> QED
      BY <1>1, <1>2, <2>1, FamilyNames, StoreStep DEF LogoutShown, Same
  <1>3. CASE LogoutNotShown
    BY <1>1, <1>3, StoreStep DEF LogoutNotShown
  <1> QED
    BY <1>2, <1>3, LogoutGetEffect

\* A logout that is done has found the row.
LEMMA LoggedOutRow ==
    ASSUME LogoutDone
    PROVE  redis["logout"] # None /\ LogoutValue = redis["logout"].value
  <1>1. LogoutValue # None
    BY DEF LogoutDone, logout_script
  <1> QED
    BY <1>1, AtRow DEF LogoutValue

\* The logout form keeps the store in shape.
LEMMA LogoutPostStore ==
    ASSUME StoreInv, LogoutPost
    PROVE  StoreInv'
  <1>1. clock' \in Int /\ redis' = [f \in Family |-> redis'[f]]
    BY LogoutPostEffect DEF StoreInv
  <1>2. CASE LogoutDone
    <2>1. RowOK("logout", redis'["logout"])
      BY <1>2, LoggedOutRow, RestatedRow, FamilyNames DEF LogoutDone
    <2> QED
      BY <1>1, <1>2, <2>1, FamilyNames, StoreStep DEF LogoutDone, Kept, Same
  <1>3. CASE LogoutRefused
    BY <1>1, <1>3, FamilyNames, StoreStep DEF LogoutRefused, Kept, Same
  <1> QED
    BY <1>2, <1>3, LogoutPostEffect

\* A corruption leaves rows of the same shape.
LEMMA CorruptStore ==
    ASSUME StoreInv, NEW family \in Family, Corrupt(family)
    PROVE  StoreInv'
  <1>1. /\ redis[family] # None /\ redis[family].value.type = "hash"
        /\ redis' = [f \in Family |-> redis'[f]]
        /\ Same(Family \ {family})
        /\ clock' \in Int
    BY CorruptEffect DEF StoreInv
  <1>2. PICK v \in Corrupted(redis[family].value) :
           redis'[family] = [redis[family] EXCEPT !.value = v]
    BY CorruptEffect
  <1>3. RowOK(family, redis[family])
    BY <1>1 DEF StoreInv
  <1>4. HashOK(redis[family].value)
    BY <1>3 DEF RowOK
  <1>5. /\ HashOK(v)
        /\ "service_id" \in DOMAIN v.fields =>
              /\ "service_id" \in DOMAIN redis[family].value.fields
              /\ \/ v.fields.service_id = redis[family].value.fields.service_id
                 \/ v.fields.service_id # [text |-> Empty]
    BY <1>1, <1>4, CorruptedOK
  <1>6. /\ DOMAIN redis'[family] = {"key", "value", "expireat"}
        /\ redis'[family].value = v
    BY <1>2, <1>3 DEF RowOK
  <1>7. RowOK(family, redis'[family])
    BY <1>3, <1>5, <1>6 DEF RowOK
  <1> QED
    BY <1>1, <1>7, StoreStep DEF Same

\* The passage of time keeps the store in shape.
LEMMA WaitStore ==
    ASSUME StoreInv, Wait
    PROVE  StoreInv'
  BY WaitEffect, StoreStep DEF Kept

\* Every step keeps the store in shape.
LEMMA StoreNext ==
    ASSUME StoreInv, [Next]_vars
    PROVE  StoreInv'
  <1>1. CASE Elsewhere
    BY <1>1, ElsewhereEffect DEF StoreInv
  <1>2. CASE UNCHANGED vars
    BY <1>2 DEF StoreInv, vars
  <1> QED
    BY <1>1, <1>2, Steps, LoginStore, CallbackStore, ExchangeStore, LogoutGetStore,
       LogoutPostStore, WaitStore, CorruptStore

\* What the handlers of the foundation write, what their scripts change and what
\* a corruption leaves are always rows of the shape that the readers of
\* redis_state.rs are written for.
THEOREM StoreIsWellFormed == Spec => []StoreInv
  BY StoreInit, StoreNext, PTL DEF Spec

\* Of every row that the store can hold, corrupted or not: if ReadState says Ok,
\* the script that would use the row accepts it exactly when it has no number
\* beyond 2^53 - 1, and if the script accepts it, ReadState says Ok exactly when
\* it is UTF-8.
THEOREM ReadersAlwaysAgree == Spec => []ReadersAgree
  BY StoreIsWellFormed, StoreImpliesReadersAgree, PTL

-----------------------------------------------------------------------------
\* The journey is a single thread: before it begins there is nothing of it in
\* the store, until Google has named the person there is no local session,
\* and nothing follows the request that uses a logout transaction up.
FlowInv ==
    /\ faults \in Nat
    /\ answer = NoAnswer =>
          mail = None /\ sessions = {} /\ redis["external"] = None /\ redis["logout"] = None
    /\ mail # None /\ mail.at \in {"login", "google", "google_callback"} => sessions = {}
    /\ mail # None /\ mail.at = "login" => redis["external"] = None
    /\ redis["logout"] # None =>
          IF mail = None THEN answer.at = "logout_post" ELSE mail.at = "logout_post"

\* The parameters that a handler asks for.
Asked ==
    [login |-> LoginQuery, google_callback |-> CallbackQuery, exchange |-> HandoffExchangeRequest,
     me |-> {}, portal_logout |-> {}, logout_get |-> LogoutQuery, logout_post |-> LogoutForm]

\* A sequence, whatever it is a sequence of.
IsSeq(s) == s \in Seq({s[i] : i \in DOMAIN s})
\* Pairs whose names are among these.
PairsNamed(pairs, names) ==
    \A i \in DOMAIN pairs : pairs[i] = <<pairs[i][1], pairs[i][2]>> /\ pairs[i][1] \in names

\* A message has the parts of one, is for one of the handlers, and carries no
\* parameter that nobody asked for but "extra". A reply of Google's or the
\* foundation's has each name once. Only two handlers are sent the headers that
\* the model keeps.
MailOK(m) ==
    /\ m = Mail(m.at, m.pairs, m.cookies, m.headers)
    /\ m.at \in DOMAIN Asked \cup {"google", "portal_callback", "exchanged"}
    /\ IsSeq(m.pairs)
    /\ m.at \in DOMAIN Asked => PairsNamed(m.pairs, Asked[m.at] \cup {"extra"})
    /\ m.at \in {"google", "exchanged"} =>
          \A i, j \in DOMAIN m.pairs : i # j => m.pairs[i][1] # m.pairs[j][1]
    /\ m.at \notin {"exchange", "portal_logout"} => m.headers = <<>>

\* What is under way is such a message.
MailInv == mail # None => MailOK(mail)

\* What the scripts would take for the person and for the time of the login.
RowTrue(row, user, times) ==
    LET f == row.value.fields IN
    /\ "internal_user_id" \in DOMAIN f /\ parse_i32(f.internal_user_id) =>
          f.internal_user_id.num = user
    /\ "authenticated_at" \in DOMAIN f /\ LuaUint(f.authenticated_at) =>
          {f.authenticated_at.num} = times

\* The foundation's reply to an exchange, with the person and the time of the
\* login.
TrueMail(pairs, user, times) ==
    \E a : /\ {a} = times
           /\ pairs = <<<<"internal_user_id", Number(user)>>, <<"authenticated_at", Number(a)>>>>

\* Whatever a script would take for the person or for the time of the login is
\* true, wherever it is stored or under way.
TruthInv ==
    /\ \A f \in {"session", "handoff"} :
          redis[f] # None => RowTrue(redis[f], world.user, authenticated)
    /\ mail # None /\ mail.at = "exchanged" /\ answer.status = "200" =>
          TrueMail(mail.pairs, world.user, authenticated)
    /\ ValuesArrive

\* A message has the parts it was made of.
LEMMA MailParts ==
    ASSUME NEW at, NEW pairs, NEW cookies, NEW headers
    PROVE  /\ Mail(at, pairs, cookies, headers) # None
           /\ Mail(at, pairs, cookies, headers).at = at
           /\ Mail(at, pairs, cookies, headers).pairs = pairs
           /\ Mail(at, pairs, cookies, headers).cookies = cookies
           /\ Mail(at, pairs, cookies, headers).headers = headers
  BY AbsentAssumption DEF Mail

\* An answer of a handler is not the absence of one.
LEMMA AnswerGiven ==
    ASSUME NEW at, NEW status, at # "none"
    PROVE  /\ [at |-> at, status |-> status] # NoAnswer
           /\ [at |-> at, status |-> status].at = at
           /\ [at |-> at, status |-> status].status = status
  BY DEF NoAnswer

\* The journey begins with nothing of it in the store.
LEMMA FlowInit ==
    ASSUME Init
    PROVE  FlowInv
  <1>1. redis["external"] = None /\ redis["logout"] = None
    BY FamilyNames DEF Init
  <1> QED
    BY <1>1 DEF Init, FlowInv

\* The portal's login begins the journey.
LEMMA PortalLoginFlow ==
    ASSUME FlowInv, PortalLogin
    PROVE  FlowInv'
  <1>1. /\ answer = NoAnswer
        /\ answer' = [at |-> "portal_login", status |-> login_start_status]
        /\ UNCHANGED <<redis, sessions, faults>>
        /\ \/ mail' = mail
           \/ \E pairs, cookies : mail' = Mail("login", pairs, cookies, <<>>)
    BY DEF PortalLogin
  <1>2. answer' # NoAnswer
    BY <1>1, AnswerGiven
  <1>3. /\ mail = None /\ sessions = {} /\ redis["external"] = None /\ redis["logout"] = None
        /\ faults \in Nat
    BY <1>1 DEF FlowInv
  <1> QED
    BY <1>1, <1>2, <1>3 DEF FlowInv

\* The foundation's login keeps the order of the journey.
LEMMA LoginFlow ==
    ASSUME StoreInv, FlowInv, FoundationLogin
    PROVE  FlowInv'
  <1>1. /\ mail # None /\ mail.at = "login"
        /\ UNCHANGED <<sessions, faults>>
    BY LoginEffect
  <1>2. redis["logout"] = None /\ sessions = {} /\ faults \in Nat
    BY <1>1 DEF FlowInv
  <1>3. CASE LoginToGoogle \/ LoginBySession
    <2>1. answer' # NoAnswer /\ redis'["logout"] = redis["logout"]
      BY <1>3, AnswerGiven DEF LoginToGoogle, LoginBySession, Same
    <2>2. mail' # None /\ mail'.at \in {"google", "portal_callback"}
      BY <1>3, MailParts DEF LoginToGoogle, LoginBySession
    <2> QED
      BY <1>1, <1>2, <2>1, <2>2 DEF FlowInv
  <1>4. CASE LoginRefused
    <2>1. answer' # NoAnswer /\ redis'["logout"] = redis["logout"] /\ mail' = None
      BY <1>4 DEF LoginRefused, Same, NoAnswer
    <2> QED
      BY <1>1, <1>2, <2>1 DEF FlowInv
  <1> QED
    BY <1>3, <1>4, LoginEffect

\* Google's consent keeps the order of the journey.
LEMMA ConsentFlow ==
    ASSUME FlowInv, GoogleConsent
    PROVE  FlowInv'
  <1>1. /\ mail # None /\ mail.at = "google"
        /\ UNCHANGED <<redis, sessions, faults>>
        /\ answer' = [at |-> "google", status |-> "302"]
    BY DEF GoogleConsent, Answer
  <1>2. mail' # None /\ mail'.at = "google_callback"
    BY MailParts DEF GoogleConsent
  <1>3. answer' # NoAnswer
    BY <1>1, AnswerGiven
  <1> QED
    BY <1>1, <1>2, <1>3 DEF FlowInv

\* Google's callback keeps the order of the journey.
LEMMA CallbackFlow ==
    ASSUME StoreInv, FlowInv, GoogleAuthCallback
    PROVE  FlowInv'
  <1>1. /\ mail # None /\ mail.at = "google_callback"
        /\ UNCHANGED <<sessions, faults>>
    BY CallbackEffect
  <1>2. redis["logout"] = None /\ sessions = {} /\ faults \in Nat
    BY <1>1 DEF FlowInv
  <1>3. CASE CallbackGranted
    <2>1. answer' # NoAnswer /\ redis'["logout"] = redis["logout"]
      BY <1>3, AnswerGiven DEF CallbackGranted, Same
    <2>2. mail' # None /\ mail'.at = "portal_callback"
      BY <1>3, MailParts DEF CallbackGranted
    <2> QED
      BY <1>1, <1>2, <2>1, <2>2 DEF FlowInv
  <1>4. CASE CallbackRefused
    <2>1. answer' # NoAnswer /\ redis'["logout"] = redis["logout"] /\ mail' = None
      BY <1>4 DEF CallbackRefused, Same, NoAnswer
    <2> QED
      BY <1>1, <1>2, <2>1 DEF FlowInv
  <1> QED
    BY <1>3, <1>4, CallbackEffect

\* The portal's callback keeps the order of the journey.
LEMMA PortalCallbackFlow ==
    ASSUME FlowInv, PortalCallback
    PROVE  FlowInv'
  <1>1. /\ mail # None /\ mail.at = "portal_callback"
        /\ UNCHANGED <<redis, sessions, faults>>
        /\ \/ mail' = None /\ answer' = [at |-> "portal_callback", status |-> "400"]
           \/ /\ answer' = answer
              /\ \E pairs, headers : mail' = Mail("exchange", pairs, <<>>, headers)
    BY DEF PortalCallback, Answer
  <1>2. redis["logout"] = None /\ faults \in Nat /\ answer # NoAnswer
    BY <1>1 DEF FlowInv
  <1>3. answer' # NoAnswer
    BY <1>1, <1>2, AnswerGiven
  <1>4. mail' # None => mail'.at = "exchange"
    BY <1>1, MailParts
  <1> QED
    BY <1>1, <1>2, <1>3, <1>4 DEF FlowInv

\* The exchange keeps the order of the journey.
LEMMA ExchangeFlow ==
    ASSUME StoreInv, FlowInv, ExchangeAuthHandoff
    PROVE  FlowInv'
  <1>1. /\ mail # None /\ mail.at = "exchange"
        /\ UNCHANGED <<sessions, faults>>
    BY ExchangeEffect
  <1>2. redis["logout"] = None /\ faults \in Nat
    BY <1>1 DEF FlowInv
  <1>3. /\ answer' # NoAnswer /\ redis'["logout"] = redis["logout"]
        /\ mail' # None /\ mail'.at = "exchanged"
    BY ExchangeEffect, MailParts, AnswerGiven DEF ExchangeGranted, ExchangeRefused, Same, NoAnswer
  <1> QED
    BY <1>1, <1>2, <1>3 DEF FlowInv

\* The requests of the portal that are answered without a further request.
LEMMA PortalFlow ==
    ASSUME FlowInv, PortalSession \/ GetMe \/ PortalLogout
    PROVE  FlowInv'
  <1>1. /\ mail # None /\ mail.at \in {"exchanged", "me", "portal_logout"}
        /\ mail' = None
        /\ UNCHANGED <<redis, faults>>
        /\ answer' = [at |-> mail.at, status |-> answer'.status]
    BY DEF PortalSession, GetMe, PortalLogout, Answer
  <1>2. answer' # NoAnswer
    BY <1>1, AnswerGiven
  <1>3. redis["logout"] = None /\ faults \in Nat
    BY <1>1 DEF FlowInv
  <1> QED
    BY <1>1, <1>2, <1>3 DEF FlowInv

\* The next request of the browser keeps the order of the journey.
LEMMA BrowseFlow ==
    ASSUME FlowInv, Browse
    PROVE  FlowInv'
  <1>1. /\ mail = None /\ answer.at \in {"exchanged", "me", "portal_logout"}
        /\ UNCHANGED <<redis, sessions, faults, answer>>
        /\ \E at \in {"me", "portal_logout", "logout_get"} :
              \E pairs, cookies, headers : mail' = Mail(at, pairs, cookies, headers)
    BY DEF Browse, NextVisit
  <1>2. mail' # None /\ mail'.at \in {"me", "portal_logout", "logout_get"}
    BY <1>1, MailParts
  <1>3. answer # NoAnswer
    BY <1>1 DEF NoAnswer
  <1>4. redis["logout"] = None /\ faults \in Nat
    BY <1>1 DEF FlowInv
  <1> QED
    BY <1>1, <1>2, <1>3, <1>4 DEF FlowInv

\* The logout page comes before any logout transaction.
LEMMA LogoutGetFlow ==
    ASSUME StoreInv, FlowInv, LogoutGet
    PROVE  FlowInv'
  <1>1. /\ mail # None /\ mail.at = "logout_get"
        /\ UNCHANGED <<sessions, faults>>
    BY LogoutGetEffect
  <1>2. redis["logout"] = None /\ faults \in Nat
    BY <1>1 DEF FlowInv
  <1>3. CASE LogoutShown
    <2>1. answer' # NoAnswer /\ mail' # None /\ mail'.at = "logout_post"
      BY <1>3, AnswerGiven, MailParts DEF LogoutShown
    <2> QED
      BY <1>1, <1>2, <2>1 DEF FlowInv
  <1>4. CASE LogoutNotShown
    <2>1. answer' # NoAnswer /\ redis'["logout"] = redis["logout"] /\ mail' = None
      BY <1>4 DEF LogoutNotShown, NoAnswer
    <2> QED
      BY <1>1, <1>2, <2>1 DEF FlowInv
  <1> QED
    BY <1>3, <1>4, LogoutGetEffect

\* Nothing follows the logout form.
LEMMA LogoutPostFlow ==
    ASSUME StoreInv, FlowInv, LogoutPost
    PROVE  FlowInv'
  <1>1. mail' = None /\ UNCHANGED faults
    BY LogoutPostEffect
  <1>2. answer'.at = "logout_post"
    BY LogoutPostEffect DEF LogoutDone, LogoutRefused
  <1>3. answer' # NoAnswer
    BY <1>2 DEF NoAnswer
  <1> QED
    BY <1>1, <1>2, <1>3 DEF FlowInv

\* An alteration changes the contents of a message, not its place in the
\* journey.
LEMMA AlterFlow ==
    ASSUME FlowInv, MailInv, Alter
    PROVE  FlowInv'
  <1>1. /\ mail # None
        /\ faults' = faults + 1
        /\ UNCHANGED <<redis, sessions, answer>>
        /\ \/ \E p : mail' = [mail EXCEPT !.pairs = p]
           \/ \E c : mail' = [mail EXCEPT !.cookies = c]
           \/ \E h : mail' = [mail EXCEPT !.headers = h]
    BY DEF Alter
  <1>2. mail = Mail(mail.at, mail.pairs, mail.cookies, mail.headers)
    BY <1>1 DEF MailInv, MailOK
  <1>3. "at" \in DOMAIN mail' /\ mail'.at = mail.at
    BY <1>1, <1>2 DEF Mail
  <1>4. mail' # None
    BY <1>3, AbsentAssumption
  <1> QED
    BY <1>1, <1>3, <1>4 DEF FlowInv

\* A corruption and the passage of time bring nothing new into the store.
LEMMA FaultFlow ==
    ASSUME StoreInv, FlowInv, Wait \/ \E family \in Family : Corrupt(family)
    PROVE  FlowInv'
  <1>1. /\ faults' = faults + 1
        /\ UNCHANGED <<sessions, mail, answer>>
        /\ \A f \in Family : redis[f] = None => redis'[f] = None
    BY WaitEffect, CorruptEffect DEF Kept, Same
  <1> QED
    BY <1>1, FamilyNames DEF FlowInv

\* Every step keeps the order of the journey.
LEMMA FlowNext ==
    ASSUME StoreInv, FlowInv, MailInv, [Next]_vars
    PROVE  FlowInv'
  <1>1. CASE StartFoundation \/ StartPortal \/ UNCHANGED vars
    BY <1>1 DEF FlowInv, StartFoundation, StartPortal, vars
  <1> QED
    BY <1>1, PortalLoginFlow, LoginFlow, ConsentFlow, CallbackFlow, PortalCallbackFlow,
       ExchangeFlow, PortalFlow, BrowseFlow, LogoutGetFlow, LogoutPostFlow, AlterFlow, FaultFlow
       DEF Next

-----------------------------------------------------------------------------

\* A sequence is a sequence of its own elements.
LEMMA OwnSeq ==
    ASSUME NEW S, NEW s \in Seq(S)
    PROVE  IsSeq(s)
  BY DEF IsSeq

\* The sequences that the handlers write out are sequences.
LEMMA ShortSeqs ==
    /\ IsSeq(<<>>) /\ DOMAIN <<>> = {}
    /\ \A a : IsSeq(<<a>>)
    /\ \A a, b : IsSeq(<<a, b>>)
    /\ \A a, b, c, d : IsSeq(<<a, b, c, d>>)
  <1>1. IsSeq(<<>>) /\ DOMAIN <<>> = {}
    BY DEF IsSeq
  <1>2. ASSUME NEW a PROVE IsSeq(<<a>>)
    BY DEF IsSeq
  <1>3. ASSUME NEW a, NEW b PROVE IsSeq(<<a, b>>)
    BY DEF IsSeq
  <1>4. ASSUME NEW a, NEW b, NEW c, NEW d PROVE IsSeq(<<a, b, c, d>>)
    BY DEF IsSeq
  <1> QED
    BY <1>1, <1>2, <1>3, <1>4

\* The elements of a sequence to which one has been appended.
LEMMA Appended ==
    ASSUME NEW S, NEW s \in Seq(S), NEW e
    PROVE  \A i \in DOMAIN Append(s, e) :
              Append(s, e)[i] = e \/ (i \in DOMAIN s /\ Append(s, e)[i] = s[i])
  <1>1. Append(s, e) \in Seq(S \cup {e}) /\ Len(Append(s, e)) = Len(s) + 1
    OBVIOUS
  <1>2. DOMAIN Append(s, e) = 1..(Len(s) + 1) /\ DOMAIN s = 1..Len(s) /\ Len(s) \in Nat
    BY <1>1
  <1>3. \A i \in 1..Len(s) : Append(s, e)[i] = s[i]
    OBVIOUS
  <1>4. Append(s, e)[Len(s) + 1] = e
    OBVIOUS
  <1> QED
    BY <1>2, <1>3, <1>4

\* An alteration of the parameters invents no name but "extra".
LEMMA AlteredNames ==
    ASSUME NEW pairs, IsSeq(pairs), NEW p \in AlteredPairs(pairs)
    PROVE  /\ IsSeq(p)
           /\ \A names : "extra" \in names /\ PairsNamed(pairs, names) => PairsNamed(p, names)
  <1> DEFINE S == {pairs[i] : i \in DOMAIN pairs}
  <1>0. pairs \in Seq(S)
    BY DEF IsSeq
  <1>1. CASE p = Append(pairs, <<"extra", Empty>>)
    <2>1. p \in Seq(S \cup {<<"extra", Empty>>})
      BY <1>0, <1>1
    <2>2. \A i \in DOMAIN p : p[i] = <<"extra", Empty>> \/ (i \in DOMAIN pairs /\ p[i] = pairs[i])
      BY <1>0, <1>1, Appended
    <2>3. <<"extra", Empty>> = <<<<"extra", Empty>>[1], <<"extra", Empty>>[2]>>
          /\ <<"extra", Empty>>[1] = "extra"
      OBVIOUS
    <2>4. ASSUME NEW names, "extra" \in names, PairsNamed(pairs, names)
          PROVE  PairsNamed(p, names)
      BY <2>2, <2>3, <2>4 DEF PairsNamed
    <2>5. IsSeq(p)
      BY <2>1, OwnSeq
    <2> QED
      BY <2>4, <2>5
  <1>2. ASSUME NEW k \in DOMAIN pairs, p = Append(pairs, pairs[k])
        PROVE  IsSeq(p) /\ \A names : PairsNamed(pairs, names) => PairsNamed(p, names)
    <2>1. p \in Seq(S)
      BY <1>0, <1>2
    <2>2. \A i \in DOMAIN p : p[i] = pairs[k] \/ (i \in DOMAIN pairs /\ p[i] = pairs[i])
      BY <1>0, <1>2, Appended
    <2>3. ASSUME NEW names, PairsNamed(pairs, names)
          PROVE  PairsNamed(p, names)
      BY <2>2, <2>3 DEF PairsNamed
    <2> QED
      BY <2>1, <2>3, OwnSeq
  <1>3. ASSUME NEW k \in DOMAIN pairs, p = Without(pairs, k)
        PROVE  IsSeq(p) /\ \A names : PairsNamed(pairs, names) => PairsNamed(p, names)
    <2>1. p \in Seq(S) /\ \A j \in DOMAIN p : \E i \in DOMAIN pairs : p[j] = pairs[i]
      <3>1. Len(pairs) \in Nat /\ DOMAIN pairs = 1..Len(pairs) /\ k \in 1..Len(pairs)
        BY <1>0, <1>3
      <3>2. Len(pairs) - 1 \in Nat
        BY <3>1
      <3>3. \A j \in 1..(Len(pairs) - 1) : (IF j < k THEN j ELSE j + 1) \in DOMAIN pairs
        BY <3>1
      <3>4. \A j \in 1..(Len(pairs) - 1) : p[j] = pairs[IF j < k THEN j ELSE j + 1] /\ p[j] \in S
        BY <1>0, <1>3, <3>3 DEF Without
      <3>5. p = [j \in 1..(Len(pairs) - 1) |-> p[j]]
        BY <1>3 DEF Without
      <3>6. p \in Seq(S)
        BY <3>2, <3>4, <3>5
      <3> QED
        BY <3>3, <3>4, <3>5, <3>6
    <2>2. ASSUME NEW names, PairsNamed(pairs, names)
          PROVE  PairsNamed(p, names)
      BY <2>1, <2>2 DEF PairsNamed
    <2> QED
      BY <2>1, <2>2, OwnSeq
  <1>4. ASSUME NEW k \in DOMAIN pairs, NEW t, p = [pairs EXCEPT ![k][2] = t]
        PROVE  IsSeq(p) /\ \A names : PairsNamed(pairs, names) => PairsNamed(p, names)
    <2>1. p \in Seq(S \cup {[pairs[k] EXCEPT ![2] = t]})
      BY <1>0, <1>4
    <2>2. ASSUME NEW names, PairsNamed(pairs, names)
          PROVE  PairsNamed(p, names)
      BY <1>4, <2>2 DEF PairsNamed
    <2> QED
      BY <2>1, <2>2, OwnSeq
  <1>5. \/ p = Append(pairs, <<"extra", Empty>>)
        \/ \E k \in DOMAIN pairs : p = Append(pairs, pairs[k])
        \/ \E k \in DOMAIN pairs : p = Without(pairs, k)
        \/ \E k \in DOMAIN pairs : \E t : p = [pairs EXCEPT ![k][2] = t]
    BY DEF AlteredPairs
  <1> QED
    BY <1>1, <1>2, <1>3, <1>4, <1>5

\* A message to a handler that asks for parameters.
LEMMA AskedMail ==
    ASSUME NEW at \in DOMAIN Asked, NEW pairs, IsSeq(pairs),
           PairsNamed(pairs, Asked[at] \cup {"extra"}), NEW cookies, NEW headers,
           at \notin {"exchange", "portal_logout"} => headers = <<>>
    PROVE  MailOK(Mail(at, pairs, cookies, headers))
  <1>1. at \notin {"google", "exchanged"}
    BY DEF Asked
  <1> DEFINE m == Mail(at, pairs, cookies, headers)
  <1>2. /\ m.at = at /\ m.pairs = pairs /\ m.cookies = cookies /\ m.headers = headers
        /\ m = Mail(m.at, m.pairs, m.cookies, m.headers)
    BY MailParts
  <1> HIDE DEF m
  <1>3. MailOK(m)
    BY <1>1, <1>2 DEF MailOK
  <1> QED
    BY <1>3 DEF m

\* A message that is redirected to Google or to the portal, or is a reply.
LEMMA OtherMail ==
    ASSUME NEW at \in {"google", "portal_callback", "exchanged"}, NEW pairs, IsSeq(pairs),
           at # "portal_callback" =>
              \A i, j \in DOMAIN pairs : i # j => pairs[i][1] # pairs[j][1],
           NEW cookies
    PROVE  MailOK(Mail(at, pairs, cookies, <<>>))
  <1>1. at \notin DOMAIN Asked
    BY DEF Asked
  <1> DEFINE m == Mail(at, pairs, cookies, <<>>)
  <1>2. /\ m.at = at /\ m.pairs = pairs /\ m.cookies = cookies /\ m.headers = <<>>
        /\ m = Mail(m.at, m.pairs, m.cookies, m.headers)
    BY MailParts
  <1>3. at \in {"google", "exchanged"} => at # "portal_callback"
    OBVIOUS
  <1> HIDE DEF m
  <1>4. MailOK(m)
    BY <1>1, <1>2, <1>3 DEF MailOK
  <1> QED
    BY <1>4 DEF m

\* The parameters that the handlers write out have the names they are written
\* with.
LEMMA NamedPairs ==
    ASSUME NEW names
    PROVE  /\ PairsNamed(<<>>, names)
           /\ \A a \in names : \A x : PairsNamed(<<<<a, x>>>>, names)
           /\ \A a, b \in names : \A x, y : PairsNamed(<<<<a, x>>, <<b, y>>>>, names)
           /\ \A a, b, c, d \in names : \A x, y, z, w :
                 PairsNamed(<<<<a, x>>, <<b, y>>, <<c, z>>, <<d, w>>>>, names)
  <1>1. PairsNamed(<<>>, names)
    BY DEF PairsNamed
  <1>2. ASSUME NEW a \in names, NEW x PROVE PairsNamed(<<<<a, x>>>>, names)
    BY DEF PairsNamed
  <1>3. ASSUME NEW a \in names, NEW b \in names, NEW x, NEW y
        PROVE  PairsNamed(<<<<a, x>>, <<b, y>>>>, names)
    BY DEF PairsNamed
  <1>4. ASSUME NEW a \in names, NEW b \in names, NEW c \in names, NEW d \in names,
               NEW x, NEW y, NEW z, NEW w
        PROVE  PairsNamed(<<<<a, x>>, <<b, y>>, <<c, z>>, <<d, w>>>>, names)
    BY DEF PairsNamed
  <1> QED
    BY <1>1, <1>2, <1>3, <1>4

\* The portal's login sends a message of the right form.
LEMMA PortalLoginMail ==
    ASSUME MailInv, PortalLogin
    PROVE  MailInv'
  <1>1. PICK state, challenge :
           \/ mail' = mail
           \/ mail' = Mail("login",
                 [auth_foundation_endpoint(Config.base_url) EXCEPT !.query = @ \o
                    <<<<"service_id", Config.service_id>>, <<"state", state>>,
                      <<"code_challenge", challenge>>, <<"code_challenge_method", S256>>>>].query,
                 FoundationCookies(jar), <<>>)
    BY DEF PortalLogin
  <1> DEFINE four == <<<<"service_id", Config.service_id>>, <<"state", state>>,
                       <<"code_challenge", challenge>>, <<"code_challenge_method", S256>>>>
  <1>2. [auth_foundation_endpoint(Config.base_url) EXCEPT !.query = @ \o four].query = <<>> \o four
    BY DEF auth_foundation_endpoint, Url
  <1>3. <<>> \o four = four
    OBVIOUS
  <1>4. IsSeq(four) /\ PairsNamed(four, LoginQuery \cup {"extra"})
    <2>1. IsSeq(four)
      BY ShortSeqs
    <2>2. {"service_id", "state", "code_challenge", "code_challenge_method"}
             \subseteq LoginQuery \cup {"extra"}
      BY DEF LoginQuery
    <2>3. PairsNamed(four, LoginQuery \cup {"extra"})
      BY <2>2, NamedPairs
    <2> QED
      BY <2>1, <2>3
  <1> HIDE DEF four
  <1>5. MailOK(Mail("login", four, FoundationCookies(jar), <<>>))
    <2>1. "login" \in DOMAIN Asked /\ Asked["login"] = LoginQuery
      BY DEF Asked
    <2> QED
      BY <1>4, <2>1, AskedMail
  <1>6. mail' = mail \/ mail' = Mail("login", four, FoundationCookies(jar), <<>>)
    BY <1>1, <1>2, <1>3 DEF four
  <1> QED
    BY <1>5, <1>6 DEF MailInv

\* Redirections to the portal, and to Google.
LEMMA Redirects ==
    ASSUME NEW a, NEW b, NEW cookies
    PROVE  /\ MailOK(Mail("google", <<<<"state", a>>>>, <<>>, <<>>))
           /\ MailOK(Mail("portal_callback", GoogleRedirect(cookies, a, b), cookies, <<>>))
           /\ MailOK(Mail("exchanged", <<>>, <<>>, <<>>))
           /\ MailOK(Mail("exchanged", <<<<"internal_user_id", a>>, <<"authenticated_at", b>>>>,
                          <<>>, <<>>))
           /\ MailOK(Mail("google_callback", <<<<"code", a>>, <<"state", b>>>>, <<>>, <<>>))
           /\ MailOK(Mail("logout_post", <<<<"logout_reference", a>>, <<"csrf_token", b>>>>,
                          cookies, <<>>))
           /\ MailOK(Mail("exchange", <<<<"code", a>>, <<"code_verifier", b>>>>, <<>>, cookies))
           /\ MailOK(Mail("logout_get", <<<<"service_id", a>>>>, cookies, <<>>))
           /\ MailOK(Mail("me", <<>>, cookies, <<>>))
           /\ MailOK(Mail("portal_logout", <<>>, cookies, a))
  <1>1. MailOK(Mail("google", <<<<"state", a>>>>, <<>>, <<>>))
    BY ShortSeqs, OtherMail
  <1>2. MailOK(Mail("portal_callback", GoogleRedirect(cookies, a, b), cookies, <<>>))
    BY ShortSeqs, OtherMail DEF GoogleRedirect
  <1>3. MailOK(Mail("exchanged", <<>>, <<>>, <<>>))
    BY ShortSeqs, OtherMail
  <1>4. MailOK(Mail("exchanged", <<<<"internal_user_id", a>>, <<"authenticated_at", b>>>>,
                    <<>>, <<>>))
    <2> DEFINE two == <<<<"internal_user_id", a>>, <<"authenticated_at", b>>>>
    <2>1. \A i, j \in DOMAIN two : i # j => two[i][1] # two[j][1]
      OBVIOUS
    <2>2. IsSeq(two)
      BY ShortSeqs
    <2> HIDE DEF two
    <2>3. MailOK(Mail("exchanged", two, <<>>, <<>>))
      BY <2>1, <2>2, OtherMail
    <2> QED
      BY <2>3 DEF two
  <1>5. /\ {"google_callback", "logout_post", "exchange", "logout_get", "me", "portal_logout"}
              \subseteq DOMAIN Asked
        /\ {"code", "state"} \subseteq Asked["google_callback"] \cup {"extra"}
        /\ {"logout_reference", "csrf_token"} \subseteq Asked["logout_post"] \cup {"extra"}
        /\ {"code", "code_verifier"} \subseteq Asked["exchange"] \cup {"extra"}
        /\ {"service_id"} \subseteq Asked["logout_get"] \cup {"extra"}
    BY DEF Asked, CallbackQuery, LogoutForm, HandoffExchangeRequest, LogoutQuery
  <1>6. MailOK(Mail("google_callback", <<<<"code", a>>, <<"state", b>>>>, <<>>, <<>>))
    <2>1. PairsNamed(<<<<"code", a>>, <<"state", b>>>>, Asked["google_callback"] \cup {"extra"})
      BY <1>5, NamedPairs
    <2> QED
      BY <1>5, <2>1, ShortSeqs, AskedMail
  <1>7. MailOK(Mail("logout_post", <<<<"logout_reference", a>>, <<"csrf_token", b>>>>,
                    cookies, <<>>))
    <2>1. PairsNamed(<<<<"logout_reference", a>>, <<"csrf_token", b>>>>,
                     Asked["logout_post"] \cup {"extra"})
      BY <1>5, NamedPairs
    <2> QED
      BY <1>5, <2>1, ShortSeqs, AskedMail
  <1>8. MailOK(Mail("exchange", <<<<"code", a>>, <<"code_verifier", b>>>>, <<>>, cookies))
    <2>1. PairsNamed(<<<<"code", a>>, <<"code_verifier", b>>>>, Asked["exchange"] \cup {"extra"})
      BY <1>5, NamedPairs
    <2> QED
      BY <1>5, <2>1, ShortSeqs, AskedMail
  <1>9. MailOK(Mail("logout_get", <<<<"service_id", a>>>>, cookies, <<>>))
    <2>1. PairsNamed(<<<<"service_id", a>>>>, Asked["logout_get"] \cup {"extra"})
      BY <1>5, NamedPairs
    <2> QED
      BY <1>5, <2>1, ShortSeqs, AskedMail
  <1>10. MailOK(Mail("me", <<>>, cookies, <<>>)) /\ MailOK(Mail("portal_logout", <<>>, cookies, a))
    BY <1>5, NamedPairs, ShortSeqs, AskedMail
  <1> QED
    BY <1>1, <1>2, <1>3, <1>4, <1>6, <1>7, <1>8, <1>9, <1>10

\* The registered callback URI has a query of its own on the single sign-on path.
LEMMA LoginMail ==
    ASSUME StoreInv, world \in Worlds, FoundationLogin
    PROVE  MailInv'
  <1>1. CASE LoginToGoogle
    BY <1>1, Redirects DEF LoginToGoogle, MailInv
  <1>2. CASE LoginBySession
    <2> DEFINE url == The(world.service.login_callback_uri.url)
               state == Field(mail.pairs, "state")
               two == <<<<"code", HandoffCode>>, <<"state", state>>>>
    <2>1. sso_login(mail.pairs, The(SessionCookie)) = "sso"
      BY <1>2, GoogleLoginResults DEF LoginBySession, login_result
    <2>2. valid_callback_url(world.service.login_callback_uri) # {}
      BY <2>1 DEF sso_login
    <2>3. url \in world.service.login_callback_uri.url
      BY <2>2 DEF The, valid_callback_url
    <2>4. url.query \in Seq({url.query[i] : i \in DOMAIN url.query})
      BY <2>3, WorldAssumption
    <2>5. two \in Seq({<<"code", HandoffCode>>, <<"state", state>>})
      OBVIOUS
    <2>6. SsoRedirect(url, HandoffCode, state) = url.query \o two
      BY DEF SsoRedirect
    <2> HIDE DEF url, two
    <2>7. url.query \o two \in Seq({url.query[i] : i \in DOMAIN url.query}
                                   \cup {<<"code", HandoffCode>>, <<"state", state>>})
      BY <2>4, <2>5
    <2>8. IsSeq(SsoRedirect(url, HandoffCode, state))
      BY <2>6, <2>7, OwnSeq
    <2>9. MailOK(Mail("portal_callback", SsoRedirect(url, HandoffCode, state),
                      PortalCookies(jar), <<>>))
      BY <2>8, OtherMail
    <2> QED
      BY <1>2, <2>9 DEF LoginBySession, MailInv, url
  <1>3. CASE LoginRefused
    BY <1>3 DEF LoginRefused, MailInv
  <1> QED
    BY <1>1, <1>2, <1>3, LoginEffect

\* Google's callback sends a message of the right form.
LEMMA CallbackMail ==
    ASSUME StoreInv, GoogleAuthCallback
    PROVE  MailInv'
  <1>1. CASE CallbackGranted
    <2>1. MailOK(Mail("portal_callback",
             GoogleRedirect(PortalCookies(jar), HandoffCode, The(CallbackTxns).service_state),
             PortalCookies(jar), <<>>))
      BY Redirects
    <2>2. GoogleRedirect(PortalCookies(jar), HandoffCode, The(CallbackTxns).service_state)
            = GoogleRedirect(The(world.service.login_callback_uri.url), HandoffCode,
                             The(CallbackTxns).service_state)
      BY DEF GoogleRedirect
    <2> QED
      BY <1>1, <2>1, <2>2 DEF CallbackGranted, MailInv
  <1>2. CASE CallbackRefused
    BY <1>2 DEF CallbackRefused, MailInv
  <1> QED
    BY <1>1, <1>2, CallbackEffect

\* The exchange replies with a message of the right form.
LEMMA ExchangeMail ==
    ASSUME StoreInv, ExchangeAuthHandoff
    PROVE  MailInv'
  BY ExchangeEffect, Redirects DEF ExchangeGranted, ExchangeRefused, MailInv

\* The logout page and form send messages of the right form.
LEMMA LogoutMail ==
    ASSUME StoreInv, LogoutGet \/ LogoutPost
    PROVE  MailInv'
  BY LogoutGetEffect, LogoutPostEffect, Redirects DEF LogoutShown, LogoutNotShown, MailInv

\* Google's consent sends a message of the right form.
LEMMA ConsentMail ==
    ASSUME GoogleConsent
    PROVE  MailInv'
  BY Redirects DEF GoogleConsent, MailInv

\* The portal's callback sends a message of the right form.
LEMMA PortalCallbackMail ==
    ASSUME PortalCallback
    PROVE  MailInv'
  <1>1. \/ mail' = None
        \/ \E a, b, h : mail' = Mail("exchange", <<<<"code", a>>, <<"code_verifier", b>>>>, <<>>, h)
    BY DEF PortalCallback
  <1> QED
    BY <1>1, Redirects DEF MailInv

\* The browser's next request has the right form.
LEMMA BrowseMail ==
    ASSUME Browse
    PROVE  MailInv'
  <1>1. \/ \E a, c : mail' = Mail("logout_get", <<<<"service_id", a>>>>, c, <<>>)
        \/ \E c : mail' = Mail("me", <<>>, c, <<>>)
        \/ \E c, h : mail' = Mail("portal_logout", <<>>, c, h)
    <2> DEFINE at == NextVisit[answer.at]
    <2>1. mail' = Mail(at,
                    IF at = "logout_get" THEN <<<<"service_id", Config.service_id>>>> ELSE <<>>,
                    IF at = "logout_get" THEN FoundationCookies(jar) ELSE PortalCookies(jar),
                    IF at = "portal_logout" /\ jar[PORTAL_CSRF] # {}
                    THEN <<The(jar[PORTAL_CSRF])>> ELSE <<>>)
      BY DEF Browse
    <2>2. at \in {"me", "portal_logout", "logout_get"}
      BY DEF Browse, NextVisit
    <2> HIDE DEF at
    <2>3. CASE at = "me"
      BY <2>1, <2>3
    <2>4. CASE at = "logout_get"
      BY <2>1, <2>4
    <2>5. CASE at = "portal_logout"
      BY <2>1, <2>5
    <2> QED
      BY <2>2, <2>3, <2>4, <2>5
  <1> QED
    BY <1>1, Redirects DEF MailInv

\* A message with other contents of the same names has the right form.
LEMMA AlteredMail ==
    ASSUME NEW m, MailOK(m), m.at \notin {"google", "exchanged"}, NEW p, IsSeq(p),
           m.at \in DOMAIN Asked => PairsNamed(p, Asked[m.at] \cup {"extra"}),
           NEW c, NEW h, m.headers = <<>> => h = <<>>
    PROVE  MailOK(Mail(m.at, p, c, h))
  <1>1. /\ m.at \in DOMAIN Asked \cup {"google", "portal_callback", "exchanged"}
        /\ m.at \notin {"exchange", "portal_logout"} => h = <<>>
    BY DEF MailOK
  <1>2. CASE m.at \in DOMAIN Asked
    BY <1>1, <1>2, AskedMail
  <1>3. CASE m.at = "portal_callback"
    <2>1. h = <<>>
      BY <1>1, <1>3
    <2> QED
      BY <1>3, <2>1, OtherMail
  <1> QED
    BY <1>1, <1>2, <1>3

\* An altered message has the right form.
LEMMA AlterMail ==
    ASSUME MailInv, Alter
    PROVE  MailInv'
  <1>1. MailOK(mail) /\ mail.at \notin {"google", "exchanged"}
    BY DEF Alter, MailInv
  <1>2. mail = Mail(mail.at, mail.pairs, mail.cookies, mail.headers) /\ IsSeq(mail.pairs)
    BY <1>1 DEF MailOK
  <1>6. mail.at \in DOMAIN Asked => PairsNamed(mail.pairs, Asked[mail.at] \cup {"extra"})
    BY <1>1 DEF MailOK
  <1>3. CASE \E p \in AlteredPairs(mail.pairs) : mail' = [mail EXCEPT !.pairs = p]
    <2>1. PICK p \in AlteredPairs(mail.pairs) : mail' = [mail EXCEPT !.pairs = p]
      BY <1>3
    <2>2. mail' = Mail(mail.at, p, mail.cookies, mail.headers)
      BY <1>2, <2>1 DEF Mail
    <2>3. IsSeq(p) /\ (mail.at \in DOMAIN Asked => PairsNamed(p, Asked[mail.at] \cup {"extra"}))
      BY <1>1, <1>2, AlteredNames DEF MailOK
    <2>4. MailOK(mail')
      BY <1>1, <2>2, <2>3, AlteredMail
    <2> QED
      BY <2>4 DEF MailInv
  <1>4. CASE \E c : mail' = [mail EXCEPT !.cookies = c]
    <2>1. PICK c : mail' = Mail(mail.at, mail.pairs, c, mail.headers)
      BY <1>2, <1>4 DEF Mail
    <2>2. MailOK(mail')
      BY <1>1, <1>2, <1>6, <2>1, AlteredMail
    <2> QED
      BY <2>2 DEF MailInv
  <1>5. CASE mail.headers # <<>> /\ mail' = [mail EXCEPT !.headers = @ \o @]
    <2>1. mail' = Mail(mail.at, mail.pairs, mail.cookies, mail.headers \o mail.headers)
      BY <1>2, <1>5 DEF Mail
    <2>2. MailOK(Mail(mail.at, mail.pairs, mail.cookies, mail.headers \o mail.headers))
      <3> DEFINE h == mail.headers \o mail.headers
      <3>1. mail.headers = <<>> => h = <<>>
        BY <1>5
      <3> HIDE DEF h
      <3>2. MailOK(Mail(mail.at, mail.pairs, mail.cookies, h))
        BY <1>1, <1>2, <1>6, <3>1, AlteredMail
      <3> QED
        BY <3>2 DEF h
    <2> QED
      BY <2>1, <2>2 DEF MailInv
  <1> QED
    BY <1>3, <1>4, <1>5 DEF Alter

\* Every message has the right form.
LEMMA MailNext ==
    ASSUME StoreInv, MailInv, world \in Worlds, [Next]_vars
    PROVE  MailInv'
  <1>1. CASE StartFoundation \/ StartPortal \/ UNCHANGED vars
    BY <1>1 DEF MailInv, StartFoundation, StartPortal, vars
  <1>2. CASE PortalSession \/ GetMe \/ PortalLogout
    BY <1>2 DEF MailInv, PortalSession, GetMe, PortalLogout
  <1>3. CASE Wait \/ \E family \in Family : Corrupt(family)
    <2>1. mail' = mail
      BY <1>3, WaitEffect, CorruptEffect
    <2> QED
      BY <2>1 DEF MailInv
  <1> QED
    BY <1>1, <1>2, <1>3, PortalLoginMail, LoginMail, ConsentMail, CallbackMail,
       PortalCallbackMail, ExchangeMail, BrowseMail, LogoutMail, AlterMail DEF Next

-----------------------------------------------------------------------------

\* A key created with the person and the time of the login is true.
LEMMA NewKeyTrue ==
    ASSUME NEW k, NEW state, NEW user, NEW times,
           "internal_user_id" \in DOMAIN state, state.internal_user_id = user,
           "authenticated_at" \in DOMAIN state, {state.authenticated_at} = times
    PROVE  RowTrue(NewKey(k, state), user, times)
  <1>1. /\ Encode(state)["internal_user_id"] = [num |-> user]
        /\ Encode(state)["authenticated_at"] = [num |-> state.authenticated_at]
    BY EncodedField DEF Times
  <1> QED
    BY <1>1, NewKeyParts DEF RowTrue

\* A change of the status leaves a row true.
LEMMA RestatedTrue ==
    ASSUME NEW family, NEW row, RowOK(family, row), NEW status, NEW user, NEW times,
           RowTrue(row, user, times)
    PROVE  RowTrue([row EXCEPT !.value.fields.status = [word |-> status]], user, times)
  <1> DEFINE new == [row EXCEPT !.value.fields.status = [word |-> status]]
  <1>1. new.value.fields = [row.value.fields EXCEPT !.status = [word |-> status]]
    BY DEF RowOK, HashOK
  <1>2. /\ DOMAIN new.value.fields = DOMAIN row.value.fields
        /\ \A f \in DOMAIN row.value.fields :
              f # "status" => new.value.fields[f] = row.value.fields[f]
    BY <1>1
  <1> HIDE DEF new
  <1>3. RowTrue(new, user, times)
    BY <1>2 DEF RowTrue
  <1> QED
    BY <1>3 DEF new

\* Junk is neither a user nor a time.
LEMMA JunkIsNoLogin ==
    /\ \A v \in Junk("internal_user_id") : ~parse_i32(v)
    /\ \A v \in Junk("authenticated_at") : ~LuaUint(v)
  <1> DEFINE junk == {[binary |-> 0], [word |-> "junk"], [num |-> -I32Max - 2],
                      [num |-> LuaMax + 1], [num |-> U64Max + 1]}
  <1>1. Junk("internal_user_id") = junk /\ Junk("authenticated_at") = junk
    BY DEF Junk, Times
  <1>2. \A n : [num |-> n].num = n
    OBVIOUS
  <1>3. \A v \in junk : ~parse_i32(v) /\ ~LuaUint(v)
    BY <1>2, LiteralDomain, WidthAssumption DEF parse_i32, LuaUint
  <1> QED
    BY <1>1, <1>3

\* A corruption leaves a row true: what it writes is taken for nobody.
LEMMA CorruptedTrue ==
    ASSUME NEW row, HashOK(row.value), row.value.type = "hash", NEW v \in Corrupted(row.value),
           DOMAIN row = {"key", "value", "expireat"},
           NEW user, NEW times, RowTrue(row, user, times)
    PROVE  RowTrue([row EXCEPT !.value = v], user, times)
  <1>1. \A f \in {"internal_user_id", "authenticated_at"} : f \in DOMAIN v.fields =>
           /\ f \in DOMAIN row.value.fields
           /\ v.fields[f] = row.value.fields[f] \/ v.fields[f] \in Junk(f)
    BY CorruptedFields
  <1>2. [row EXCEPT !.value = v].value = v
    OBVIOUS
  <1> QED
    BY <1>1, <1>2, JunkIsNoLogin DEF RowTrue

\* What a script takes for the person and the time is true.
LEMMA AcceptedLogin ==
    ASSUME NEW family \in {"session", "handoff"}, NEW row, LuaAccepts(family, row.value),
           NEW user, NEW times, RowTrue(row, user, times)
    PROVE  /\ row.value.fields.internal_user_id.num = user
           /\ {row.value.fields.authenticated_at.num} = times
  <1>1. /\ "internal_user_id" \in Fields[family] /\ "authenticated_at" \in Fields[family]
    BY DEF Fields, SESSION_FIELDS, HANDOFF_FIELDS
  <1>2. /\ LuaFormat("internal_user_id", row.value.fields["internal_user_id"])
        /\ LuaFormat("authenticated_at", row.value.fields["authenticated_at"])
        /\ DOMAIN row.value.fields = Fields[family]
    BY <1>1 DEF LuaAccepts
  <1>3. /\ parse_i32(row.value.fields["internal_user_id"])
        /\ LuaUint(row.value.fields["authenticated_at"])
    BY <1>2 DEF LuaFormat, Times, Lookups, LuaUint, parse_i32
  <1> QED
    BY <1>1, <1>2, <1>3 DEF RowTrue

\* Nothing is claimed of anybody at the start.
LEMMA TruthInit ==
    ASSUME Init
    PROVE  TruthInv
  <1>1. PICK returning \in BOOLEAN :
           /\ authenticated = IF returning THEN {clock} ELSE {}
           /\ redis = [f \in Family |->
                         IF returning /\ f = "session"
                         THEN NewKey(Reference(<<"session">>), NewSessionState) ELSE None]
    BY DEF Init
  <1>2. redis["handoff"] = None
    BY <1>1, FamilyNames
  <1>3. redis["session"] # None => RowTrue(redis["session"], world.user, authenticated)
    <2>1. SUFFICES ASSUME redis["session"] # None
                   PROVE  RowTrue(redis["session"], world.user, authenticated)
      OBVIOUS
    <2>2. authenticated = {clock} /\
          redis["session"] = NewKey(Reference(<<"session">>), NewSessionState)
      BY <1>1, <2>1, FamilyNames
    <2>3. /\ "internal_user_id" \in DOMAIN NewSessionState
          /\ NewSessionState.internal_user_id = world.user
          /\ "authenticated_at" \in DOMAIN NewSessionState
          /\ NewSessionState.authenticated_at = clock
      BY DEF NewSessionState
    <2> QED
      BY <2>2, <2>3, NewKeyTrue
  <1>4. mail = None /\ sessions = {}
    BY DEF Init
  <1> QED
    BY <1>2, <1>3, <1>4 DEF TruthInv, ValuesArrive

\* A step that stores only what is true and adds no local session keeps the
\* invariant.
LEMMA TruthKept ==
    ASSUME TruthInv, UNCHANGED <<world, authenticated>>,
           \A f \in {"session", "handoff"} :
              Kept(f) \/ RowTrue(redis'[f], world.user, authenticated),
           mail' # None /\ mail'.at = "exchanged" => mail' = mail /\ answer' = answer,
           sessions' \subseteq sessions
    PROVE  TruthInv'
  <1>1. \A f \in {"session", "handoff"} :
           redis'[f] # None => RowTrue(redis'[f], world'.user, authenticated')
    BY DEF TruthInv, Kept
  <1>2. mail' # None /\ mail'.at = "exchanged" /\ answer'.status = "200" =>
           TrueMail(mail'.pairs, world'.user, authenticated')
    BY DEF TruthInv
  <1>3. ValuesArrive'
    BY DEF TruthInv, ValuesArrive
  <1> QED
    BY <1>1, <1>2, <1>3 DEF TruthInv

\* The handoff of a single sign-on has the session's person and time.
LEMMA LoginTruth ==
    ASSUME StoreInv, TruthInv, FoundationLogin
    PROVE  TruthInv'
  <1>1. UNCHANGED <<world, authenticated, sessions>>
    BY LoginEffect
  <1>2. CASE LoginToGoogle
    <2>1. mail'.at = "google"
      BY <1>2, MailParts DEF LoginToGoogle
    <2> QED
      BY <1>1, <1>2, <2>1, TruthKept DEF LoginToGoogle, Kept, Same
  <1>3. CASE LoginBySession
    <2> DEFINE reference == The(SessionCookie)
               value == At("session", reference)
               state == SsoHandoffState(mail.pairs, reference)
    <2>1. mail'.at = "portal_callback"
      BY <1>3, MailParts DEF LoginBySession
    <2>2. issue_script(value, At("handoff", HandoffCode), reference, Encode(state), clock) = 0
      BY <1>3, SsoGranted DEF LoginBySession
    <2>3. value # None /\ LuaAccepts("session", value)
      BY <2>2 DEF issue_script
    <2>4. redis["session"] # None /\ value = redis["session"].value
      BY <2>3, AtRow
    <2>5. RowTrue(redis["session"], world.user, authenticated)
      BY <2>4 DEF TruthInv
    <2>6. /\ value.fields.internal_user_id.num = world.user
          /\ {value.fields.authenticated_at.num} = authenticated
      BY <2>3, <2>4, <2>5, AcceptedLogin
    <2>7. /\ "internal_user_id" \in DOMAIN state
          /\ state.internal_user_id = value.fields.internal_user_id.num
          /\ "authenticated_at" \in DOMAIN state
          /\ state.authenticated_at = value.fields.authenticated_at.num
      BY DEF SsoHandoffState, NewHandoffState
    <2> HIDE DEF state, value
    <2>8. RowTrue(NewKey(HandoffCode, state), world.user, authenticated)
      BY <2>6, <2>7, NewKeyTrue
    <2>9. RowTrue(redis'["handoff"], world.user, authenticated) /\ Kept("session")
      BY <1>3, <2>8 DEF LoginBySession, Same, Kept, state
    <2> QED
      BY <1>1, <2>1, <2>9, TruthKept
  <1>4. CASE LoginRefused
    BY <1>1, <1>4, TruthKept DEF LoginRefused, Kept, Same
  <1> QED
    BY <1>2, <1>3, <1>4, LoginEffect

\* The session and the handoff of a callback have the person whom Google named
\* and the time of it.
LEMMA CallbackTruth ==
    ASSUME StoreInv, FlowInv, TruthInv, GoogleAuthCallback
    PROVE  TruthInv'
  <1>1. /\ mail # None /\ mail.at = "google_callback"
        /\ UNCHANGED <<world, sessions>>
    BY CallbackEffect
  <1>2. CASE CallbackGranted
    <2>1. sessions = {}
      BY <1>1 DEF FlowInv
    <2>2. mail'.at = "portal_callback" /\ authenticated' = {clock}
      BY <1>2, MailParts DEF CallbackGranted
    <2>3. RowTrue(redis'["session"], world.user, {clock})
      <3>1. /\ "internal_user_id" \in DOMAIN NewSessionState
            /\ NewSessionState.internal_user_id = world.user
            /\ "authenticated_at" \in DOMAIN NewSessionState
            /\ NewSessionState.authenticated_at = clock
        BY DEF NewSessionState
      <3>2. RowTrue(NewKey(SessionReference, NewSessionState), world.user, {clock})
        BY <3>1, NewKeyTrue
      <3> QED
        BY <1>2, <3>2 DEF CallbackGranted
    <2>4. RowTrue(redis'["handoff"], world.user, {clock})
      <3> DEFINE state == CallbackHandoff(The(CallbackTxns))
      <3>1. /\ "internal_user_id" \in DOMAIN state
            /\ state.internal_user_id = world.user
            /\ "authenticated_at" \in DOMAIN state
            /\ state.authenticated_at = clock
        BY DEF CallbackHandoff, NewHandoffState
      <3> HIDE DEF state
      <3>2. RowTrue(NewKey(HandoffCode, state), world.user, {clock})
        BY <3>1, NewKeyTrue
      <3> QED
        BY <1>2, <3>2 DEF CallbackGranted, state
    <2>5. ValuesArrive'
      BY <1>1, <2>1 DEF ValuesArrive
    <2> QED
      BY <1>1, <2>2, <2>3, <2>4, <2>5 DEF TruthInv
  <1>3. CASE CallbackRefused
    BY <1>1, <1>3, TruthKept DEF CallbackRefused, Kept, Same
  <1> QED
    BY <1>2, <1>3, CallbackEffect

\* The exchange replies with what the handoff holds.
LEMMA ExchangeTruth ==
    ASSUME StoreInv, TruthInv, ExchangeAuthHandoff
    PROVE  TruthInv'
  <1>1. UNCHANGED <<world, authenticated, sessions>>
    BY ExchangeEffect
  <1>2. CASE ExchangeGranted
    <2>1. LuaAccepts("handoff", HandoffValue)
      BY <1>2 DEF ExchangeGranted, exchange_script
    <2>2. redis["handoff"] # None /\ HandoffValue = redis["handoff"].value
      BY <1>2, ExchangedRow
    <2>3. RowOK("handoff", redis["handoff"]) /\ RowTrue(redis["handoff"], world.user, authenticated)
      BY <2>2, FamilyNames DEF StoreInv, TruthInv
    <2>4. /\ HandoffValue.fields.internal_user_id.num = world.user
          /\ {HandoffValue.fields.authenticated_at.num} = authenticated
      BY <2>1, <2>2, <2>3, AcceptedLogin
    <2>5. mail'.pairs =
             <<<<"internal_user_id", Number(HandoffValue.fields.internal_user_id.num)>>,
               <<"authenticated_at", Number(HandoffValue.fields.authenticated_at.num)>>>>
      BY <1>2, MailParts DEF ExchangeGranted
    <2>6. TrueMail(mail'.pairs, world.user, authenticated)
      <3> DEFINE a == HandoffValue.fields.authenticated_at.num
      <3>1. mail'.pairs = <<<<"internal_user_id", Number(world.user)>>,
                            <<"authenticated_at", Number(a)>>>>
        BY <2>4, <2>5
      <3>2. {a} = authenticated
        BY <2>4
      <3> HIDE DEF a
      <3> QED
        BY <3>1, <3>2 DEF TrueMail
    <2>7. RowTrue(redis'["handoff"], world.user, authenticated)
      <3>1. RowTrue([redis["handoff"] EXCEPT !.value.fields.status = [word |-> "used"]],
                    world.user, authenticated)
        BY <2>3, RestatedTrue
      <3>2. redis'["handoff"] = [redis["handoff"] EXCEPT !.value.fields.status = [word |-> "used"]]
        BY <1>2 DEF ExchangeGranted, Restated
      <3> QED
        BY <3>1, <3>2, Zenon
    <2>8. redis'["session"] = redis["session"]
      BY <1>2 DEF ExchangeGranted, Same
    <2>9. ValuesArrive'
      BY <1>1 DEF ValuesArrive, TruthInv
    <2> QED
      BY <1>1, <2>6, <2>7, <2>8, <2>9 DEF TruthInv
  <1>3. CASE ExchangeRefused
    <2>1. answer'.status # "200"
      BY <1>3 DEF ExchangeRefused
    <2>2. ValuesArrive'
      BY <1>1 DEF ValuesArrive, TruthInv
    <2> QED
      BY <1>1, <1>3, <2>1, <2>2 DEF ExchangeRefused, Kept, TruthInv
  <1> QED
    BY <1>2, <1>3, ExchangeEffect

\* The reply has each of the two numbers once, so the portal reads them.
LEMMA TrueFields ==
    ASSUME NEW pairs, NEW user, NEW times, TrueMail(pairs, user, times)
    PROVE  /\ The(Field(pairs, "internal_user_id").num) = user
           /\ {The(Field(pairs, "authenticated_at").num)} = times
  <1>1. PICK a : /\ {a} = times
                 /\ pairs = <<<<"internal_user_id", Number(user)>>,
                              <<"authenticated_at", Number(a)>>>>
    BY DEF TrueMail
  <1>2. /\ Occurs(pairs, "internal_user_id") = {1}
        /\ Occurs(pairs, "authenticated_at") = {2}
    BY <1>1 DEF Occurs
  <1>3. /\ Field(pairs, "internal_user_id") = Number(user)
        /\ Field(pairs, "authenticated_at") = Number(a)
    BY <1>1, <1>2 DEF Field
  <1>4. Number(user).num = {user} /\ Number(a).num = {a}
    BY DEF Number, Text
  <1> QED
    BY <1>1, <1>3, <1>4 DEF The

\* The portal stores what the reply holds.
LEMMA PortalSessionTruth ==
    ASSUME TruthInv, PortalSession
    PROVE  TruthInv'
  <1>1. /\ mail # None /\ mail.at = "exchanged" /\ mail' = None
        /\ UNCHANGED <<world, redis, authenticated>>
    BY DEF PortalSession, hosts
  <1>2. CASE session_status = "302"
    <2>1. handoff_is_received
      BY <1>2 DEF session_status
    <2>2. TrueMail(mail.pairs, world.user, authenticated)
      BY <1>1, <2>1 DEF handoff_is_received, TruthInv
    <2>3. \A s \in sessions' : s \in sessions \/
             /\ s.user = The(Field(mail.pairs, "internal_user_id").num)
             /\ s.at = The(Field(mail.pairs, "authenticated_at").num)
      BY <1>2 DEF PortalSession, cleanup_expired
    <2>4. ValuesArrive'
      BY <1>1, <2>2, <2>3, TrueFields DEF ValuesArrive, TruthInv
    <2> QED
      BY <1>1, <2>4 DEF TruthInv
  <1>3. CASE session_status # "302"
    <2>1. sessions' \subseteq sessions
      BY <1>3 DEF PortalSession, cleanup_expired
    <2> QED
      BY <1>1, <2>1, TruthKept DEF Kept
  <1> QED
    BY <1>2, <1>3

\* The other requests store no login.
LEMMA OtherTruth ==
    ASSUME FlowInv, MailInv, TruthInv,
           \/ StartFoundation \/ StartPortal \/ PortalLogin \/ GoogleConsent \/ PortalCallback
           \/ Browse \/ GetMe \/ PortalLogout \/ Alter
    PROVE  TruthInv'
  <1>1. UNCHANGED <<world, redis, authenticated>>
    BY ElsewhereEffect DEF Elsewhere
  <1>2. sessions' \subseteq sessions
    BY DEF StartFoundation, StartPortal, PortalLogin, GoogleConsent, PortalCallback,
           Browse, GetMe, PortalLogout, Alter, remove_local_session
  <1>3. mail' # None /\ mail'.at = "exchanged" => mail' = mail /\ answer' = answer
    <2>1. CASE StartFoundation \/ StartPortal
      BY <2>1 DEF StartFoundation, StartPortal
    <2>2. CASE PortalLogin
      <3>1. \/ mail' = mail
            \/ \E pairs, cookies : mail' = Mail("login", pairs, cookies, <<>>)
        BY <2>2 DEF PortalLogin
      <3>2. mail = None
        BY <2>2 DEF PortalLogin, FlowInv
      <3> QED
        BY <3>1, <3>2, MailParts
    <2>3. CASE GoogleConsent
      BY <2>3, MailParts DEF GoogleConsent
    <2>4. CASE PortalCallback
      <3>1. \/ mail' = None
            \/ \E pairs, headers : mail' = Mail("exchange", pairs, <<>>, headers)
        BY <2>4 DEF PortalCallback
      <3> QED
        BY <3>1, MailParts
    <2>5. CASE Browse
      <3>1. \E at \in {"me", "portal_logout", "logout_get"} :
               \E pairs, cookies, headers : mail' = Mail(at, pairs, cookies, headers)
        BY <2>5 DEF Browse, NextVisit
      <3> QED
        BY <3>1, MailParts
    <2>6. CASE GetMe \/ PortalLogout
      BY <2>6 DEF GetMe, PortalLogout
    <2>7. CASE Alter
      <3>1. /\ mail # None /\ mail.at # "exchanged"
            /\ \/ \E p : mail' = [mail EXCEPT !.pairs = p]
               \/ \E c : mail' = [mail EXCEPT !.cookies = c]
               \/ \E h : mail' = [mail EXCEPT !.headers = h]
        BY <2>7 DEF Alter
      <3>2. mail = Mail(mail.at, mail.pairs, mail.cookies, mail.headers)
        BY <3>1 DEF MailInv, MailOK
      <3>3. mail'.at = mail.at
        BY <3>1, <3>2 DEF Mail
      <3> QED
        BY <3>1, <3>3
    <2> QED
      BY <2>1, <2>2, <2>3, <2>4, <2>5, <2>6, <2>7
  <1> QED
    BY <1>1, <1>2, <1>3, TruthKept DEF Kept

\* The logout stores no login.
LEMMA LogoutTruth ==
    ASSUME StoreInv, TruthInv, LogoutGet \/ LogoutPost
    PROVE  TruthInv'
  <1>1. UNCHANGED <<world, authenticated, sessions>>
    BY LogoutGetEffect, LogoutPostEffect
  <1>2. mail' # None => mail'.at # "exchanged"
    BY LogoutGetEffect, LogoutPostEffect, MailParts DEF LogoutShown, LogoutNotShown
  <1>3. \A f \in {"session", "handoff"} : Kept(f)
    BY LogoutGetEffect, LogoutPostEffect
       DEF LogoutShown, LogoutNotShown, LogoutDone, LogoutRefused, Kept, Same
  <1> QED
    BY <1>1, <1>2, <1>3, TruthKept

\* A corruption and the passage of time store no login.
LEMMA FaultTruth ==
    ASSUME StoreInv, TruthInv, Wait \/ \E family \in Family : Corrupt(family)
    PROVE  TruthInv'
  <1>1. UNCHANGED <<world, authenticated, sessions, mail, answer>>
    BY WaitEffect, CorruptEffect
  <1>2. \A f \in {"session", "handoff"} :
           Kept(f) \/ RowTrue(redis'[f], world.user, authenticated)
    <2>1. CASE Wait
      BY <2>1, WaitEffect, FamilyNames
    <2>2. ASSUME NEW family \in Family, Corrupt(family)
          PROVE  \A f \in {"session", "handoff"} :
                    Kept(f) \/ RowTrue(redis'[f], world.user, authenticated)
      <3> TAKE f \in {"session", "handoff"}
      <3>1. CASE f # family
        BY <2>2, <3>1, CorruptEffect, FamilyNames DEF Same, Kept
      <3>2. CASE f = family
        <4>1. redis[f] # None /\ redis[f].value.type = "hash"
          BY <2>2, <3>2, CorruptEffect
        <4>2. PICK v \in Corrupted(redis[f].value) : redis'[f] = [redis[f] EXCEPT !.value = v]
          BY <2>2, <3>2, CorruptEffect
        <4>3. RowOK(f, redis[f]) /\ RowTrue(redis[f], world.user, authenticated)
          BY <3>2, <4>1 DEF StoreInv, TruthInv
        <4>4. HashOK(redis[f].value) /\ DOMAIN redis[f] = {"key", "value", "expireat"}
          BY <4>3 DEF RowOK
        <4>5. RowTrue([redis[f] EXCEPT !.value = v], world.user, authenticated)
          BY <4>1, <4>3, <4>4, CorruptedTrue
        <4> QED
          BY <4>2, <4>5
      <3> QED
        BY <3>1, <3>2
    <2> QED
      BY <2>1, <2>2
  <1> QED
    BY <1>1, <1>2, TruthKept

\* Every step keeps what is stored of the login true.
LEMMA TruthNext ==
    ASSUME StoreInv, FlowInv, MailInv, TruthInv, [Next]_vars
    PROVE  TruthInv'
  <1>1. CASE UNCHANGED vars
    BY <1>1, TruthKept DEF vars, Kept
  <1> QED
    BY <1>1, LoginTruth, CallbackTruth, ExchangeTruth, PortalSessionTruth, OtherTruth,
       LogoutTruth, FaultTruth DEF Next

\* The inductive invariant of the data path.
JourneyInv == StoreInv /\ world \in Worlds /\ FlowInv /\ MailInv /\ TruthInv

\* Whatever is corrupted, altered or delayed on the way, the store stays in
\* shape, the requests keep their order and their form, and all that is stored
\* or sent of the login is true of the person who logged in.
THEOREM JourneyIsInvariant == Spec => []JourneyInv
  <1>1. Init => JourneyInv
    <2>1. Init => world \in Worlds /\ MailInv
      BY DEF Init, MailInv
    <2> QED
      BY <2>1, StoreInit, FlowInit, TruthInit DEF JourneyInv
  <1>2. JourneyInv /\ [Next]_vars => JourneyInv'
    <2> SUFFICES ASSUME JourneyInv, [Next]_vars
                 PROVE  JourneyInv'
      OBVIOUS
    <2>1. StoreInv /\ world \in Worlds /\ FlowInv /\ MailInv /\ TruthInv
      BY DEF JourneyInv
    <2>2. world' \in Worlds
      <3>1. CASE UNCHANGED vars
        BY <2>1, <3>1 DEF vars
      <3>2. CASE Next
        BY <2>1, <3>2, Steps, ElsewhereEffect, LoginEffect, CallbackEffect, ExchangeEffect,
           LogoutGetEffect, LogoutPostEffect, WaitEffect, CorruptEffect
      <3> QED
        BY <3>1, <3>2
    <2> QED
      BY <2>1, <2>2, StoreNext, FlowNext, MailNext, TruthNext DEF JourneyInv
  <1> QED
    BY <1>1, <1>2, PTL DEF Spec

\* A local session of the portal is always that of the person whom Google named,
\* with the time at which the foundation's callback handled it: no corruption,
\* alteration or delay makes the portal log in anyone else.
THEOREM ValuesAlwaysArrive == Spec => []ValuesArrive
  <1>1. JourneyInv => ValuesArrive
    BY DEF JourneyInv, TruthInv
  <1> QED
    BY <1>1, JourneyIsInvariant, PTL

-----------------------------------------------------------------------------
\* A row that is not well formed is kept, dropped, followed by another one, or
\* used up unread.
Inert(f) ==
    Rejected(f) =>
       \/ redis'[f] = redis[f] \/ redis'[f] = None \/ redis'[f].key # redis[f].key
       \/ UsedUpUnread(f)

\* What a handler grants rests on rows that decode.
Grounded ==
    Handled /\ Succeeded' /\ answer' # answer =>
       \A f \in RestsOn(mail.at, IF mail' = None THEN "none" ELSE mail'.at) : Decodes(f)

\* A row that is kept or dropped is inert.
LEMMA KeptIsInert ==
    ASSUME NEW f, Kept(f)
    PROVE  Inert(f)
  BY DEF Kept, Inert

\* A row that the scripts and Rust accept is not a rejected one.
LEMMA RestatedIsInert ==
    ASSUME NEW f, LuaAccepts(f, redis[f].value), Decodes(f)
    PROVE  Inert(f)
  BY DEF Inert, Rejected

\* The row of a family with another status.
LEMMA StatusRow ==
    ASSUME StoreInv, NEW f \in Family, NEW status, Restated(f, status)
    PROVE  redis'[f] = WithStatus(f, status)[f]
  BY DEF StoreInv, Restated, WithStatus

\* A claim that was decoded was made on a row that can be decoded.
LEMMA ClaimDecodes ==
    ASSUME NEW value, claim_script(value, clock) = 0,
           decode_claim(claim_reply(value.fields)) # {}
    PROVE  Decode("external", value.fields) # {}
  <1> DEFINE fields == value.fields
             reply == claim_reply(fields)
             read == [service_id |-> reply[1], service_state |-> reply[2],
                      handoff_code_challenge |-> reply[3], provider |-> reply[4],
                      provider_verification_data |-> reply[5], created_at |-> reply[6],
                      expires_at |-> reply[7], status |-> reply[8]]
  <1>1. /\ DOMAIN fields = EXTERNAL_FIELDS
        /\ fields["status"] = [word |-> "waiting"]
    BY DEF claim_script, LuaAccepts, Fields
  <1>2. \A f \in EXTERNAL_FIELDS \ {"status"} : read[f] = fields[f]
    BY DEF claim_reply, EXTERNAL_FIELDS
  <1>3. DOMAIN read = EXTERNAL_FIELDS
    BY DEF EXTERNAL_FIELDS
  <1> HIDE DEF read
  <1>4. Decode("external", read) # {}
    BY DEF decode_claim, read
  <1>5. \A f \in EXTERNAL_FIELDS : Parses("external", f, read[f])
    BY <1>3, <1>4 DEF Decode
  <1>6. Parses("external", "status", [word |-> "waiting"])
    BY LiteralDomain DEF Parses, Times, Lookups, Statuses, external_status
  <1>7. \A f \in EXTERNAL_FIELDS : Parses("external", f, fields[f])
    BY <1>1, <1>2, <1>5, <1>6
  <1> QED
    BY <1>1, <1>7 DEF Decode, validate_field_names, Fields

\* What the exchange accepts can be decoded.
LEMMA ExchangeDecodes ==
    ASSUME NEW value, NEW sessionValue, NEW lookup, NEW service_id, NEW challenge,
           exchange_script(value, sessionValue, lookup, service_id, challenge, clock) = 0
    PROVE  /\ value # None /\ Decode("handoff", value.fields) # {}
           /\ sessionValue # None /\ Decode("session", sessionValue.fields) # {}
  <1>1. /\ value # None /\ LuaAccepts("handoff", value)
        /\ value.fields.status = [word |-> "unused"]
        /\ value.fields.service_id = [text |-> service_id]
        /\ value.fields.code_challenge = [text |-> challenge]
        /\ sessionValue # None /\ LuaAccepts("session", sessionValue)
    BY DEF exchange_script
  <1>2. ASSUME NEW family, NEW f \in Times \cup {"internal_user_id"} \cup Lookups, NEW v,
               LuaFormat(f, v)
        PROVE  Parses(family, f, v)
    <2>1. CASE f \in Times
      BY <1>2, <2>1, WidthAssumption DEF Parses, LuaFormat, parse_u64, LuaUint, Times, Lookups
    <2>2. CASE f = "internal_user_id"
      BY <1>2, <2>2 DEF Parses, LuaFormat, Times, Lookups
    <2>3. CASE f \in Lookups
      BY <1>2, <2>3 DEF Parses, LuaFormat, Times, Lookups
    <2> QED
      BY <2>1, <2>2, <2>3
  <1>3. Decode("session", sessionValue.fields) # {}
    <2>1. SESSION_FIELDS \subseteq Times \cup {"internal_user_id"} \cup Lookups
      BY DEF SESSION_FIELDS, Times
    <2>2. /\ DOMAIN sessionValue.fields = SESSION_FIELDS
          /\ \A f \in SESSION_FIELDS : LuaFormat(f, sessionValue.fields[f])
      BY <1>1 DEF LuaAccepts, Fields
    <2>3. \A f \in SESSION_FIELDS : Parses("session", f, sessionValue.fields[f])
      BY <1>2, <2>1, <2>2
    <2> QED
      BY <2>2, <2>3 DEF Decode, validate_field_names, Fields
  <1>4. Decode("handoff", value.fields) # {}
    <2>1. HANDOFF_FIELDS \ {"status", "service_id", "code_challenge"}
             \subseteq Times \cup {"internal_user_id"} \cup Lookups
      BY DEF HANDOFF_FIELDS, Times, Lookups
    <2>2. /\ DOMAIN value.fields = HANDOFF_FIELDS
          /\ \A f \in HANDOFF_FIELDS : LuaFormat(f, value.fields[f])
      BY <1>1 DEF LuaAccepts, Fields
    <2>3. Parses("handoff", "status", [word |-> "unused"])
      BY LiteralDomain DEF Parses, Times, Lookups, Statuses, usage_status
    <2>4. \A x : /\ Parses("handoff", "service_id", [text |-> x])
                 /\ Parses("handoff", "code_challenge", [text |-> x])
      BY LiteralDomain DEF Parses, Times, Lookups
    <2>5. \A f \in HANDOFF_FIELDS : Parses("handoff", f, value.fields[f])
      BY <1>1, <1>2, <2>1, <2>2, <2>3, <2>4
    <2> QED
      BY <2>2, <2>5 DEF Decode, validate_field_names, Fields
  <1> QED
    BY <1>1, <1>3, <1>4

\* A new key takes no row's place: the scripts and the references see to it.
LEMMA NewIsInert ==
    ASSUME NEW f, NEW k, NEW state, At(f, k) = None, redis'[f] = NewKey(k, state), StoreInv,
           f \in Family
    PROVE  Inert(f)
  <1>1. redis[f] # None => redis[f].key # k
    <2>1. redis[f] # None => redis[f].value # None
      BY DEF StoreInv, RowOK, HashOK
    <2> QED
      BY <2>1 DEF At
  <1> QED
    BY <1>1, NewKeyParts DEF Inert, Rejected

\* A login leaves ill-formed rows alone.
LEMMA LoginInert ==
    ASSUME StoreInv, FlowInv, FoundationLogin
    PROVE  \A f \in Family : Inert(f)
  <1>1. mail # None /\ mail.at = "login"
    BY LoginEffect
  <1>2. CASE LoginToGoogle
    <2>1. Inert("external")
      BY <1>1 DEF FlowInv, Inert, Rejected
    <2> QED
      BY <1>2, <2>1, KeptIsInert, FamilyNames DEF LoginToGoogle, Same, Kept
  <1>3. CASE LoginBySession
    <2>1. At("handoff", HandoffCode) = None
      <3>1. issue_script(At("session", The(SessionCookie)), At("handoff", HandoffCode),
                         The(SessionCookie),
                         Encode(SsoHandoffState(mail.pairs, The(SessionCookie))), clock) = 0
        BY <1>3, SsoGranted DEF LoginBySession
      <3> QED
        BY <3>1 DEF issue_script
    <2>2. Inert("handoff")
      BY <1>3, <2>1, NewIsInert, FamilyNames DEF LoginBySession
    <2> QED
      BY <1>3, <2>2, KeptIsInert, FamilyNames DEF LoginBySession, Same, Kept
  <1>4. CASE LoginRefused
    BY <1>4, KeptIsInert, FamilyNames DEF LoginRefused, Same, Kept
  <1> QED
    BY <1>2, <1>3, <1>4, LoginEffect

\* Google's callback leaves ill-formed rows alone.
LEMMA CallbackInert ==
    ASSUME StoreInv, GoogleAuthCallback
    PROVE  \A f \in Family : Inert(f)
  <1>1. ASSUME claim_script(CallbackValue, clock) = 0
        PROVE  /\ redis["external"] # None /\ CallbackValue = redis["external"].value
               /\ LuaAccepts("external", redis["external"].value)
               /\ redis["external"].value.fields.status = [word |-> "waiting"]
               /\ ~Decodes("external") => ~Utf8(redis["external"].value)
    <2>1. redis["external"] # None /\ CallbackValue = redis["external"].value
      BY <1>1, ClaimedRow
    <2>2. /\ LuaAccepts("external", redis["external"].value)
          /\ redis["external"].value.fields.status = [word |-> "waiting"]
      BY <1>1, <2>1 DEF claim_script
    <2>3. HashOK(redis["external"].value)
      BY <2>1, FamilyNames DEF StoreInv, RowOK
    <2>4. \E w \in Statuses("external") : redis["external"].value.fields.status = [word |-> w]
      BY <2>2, ExternalStatus
    <2>5. Utf8(redis["external"].value) => Decode("external", redis["external"].value.fields) # {}
      BY <2>2, <2>3, <2>4, AcceptedDecodes, FamilyNames
    <2> QED
      BY <2>1, <2>2, <2>5 DEF Decodes
  <1>2. CASE CallbackGranted
    <2>1. create_script(At("session", SessionReference), At("handoff", HandoffCode),
                        SessionReference, Encode(NewSessionState),
                        Encode(CallbackHandoff(The(CallbackTxns))), clock) = 0
      BY <1>2 DEF CallbackGranted, claimed_result
    <2>2. At("session", SessionReference) = None /\ At("handoff", HandoffCode) = None
      BY <2>1 DEF create_script
    <2>3. Inert("session") /\ Inert("handoff")
      BY <1>2, <2>2, NewIsInert, FamilyNames DEF CallbackGranted
    <2>4. Decodes("external")
      BY <1>1, <1>2, ClaimDecodes DEF CallbackGranted, CallbackTxns, Decodes
    <2>5. Inert("external")
      BY <1>1, <1>2, <2>4, RestatedIsInert DEF CallbackGranted
    <2> QED
      BY <1>2, <2>3, <2>5, KeptIsInert, FamilyNames DEF CallbackGranted, Same, Kept
  <1>3. CASE CallbackRefused
    <2>1. ASSUME claim_script(CallbackValue, clock) = 0, Restated("external", "processing"),
                 ~Decodes("external")
          PROVE  UsedUpUnread("external")
      <3>1. redis'["external"] = WithStatus("external", "processing")["external"]
        BY <2>1, StatusRow, FamilyNames
      <3>2. \A f \in Family \ {"external"} : redis'[f] = redis[f]
        BY <1>3, FamilyNames DEF CallbackRefused, Same
      <3>3. ~Succeeded'
        BY <1>3 DEF CallbackRefused, Succeeded
      <3> QED
        BY <1>1, <2>1, <3>1, <3>2, <3>3 DEF UsedUpUnread
    <2>2. Inert("external")
      <3>1. CASE Kept("external")
        BY <3>1, KeptIsInert
      <3>2. CASE claim_script(CallbackValue, clock) = 0 /\ Restated("external", "processing")
        BY <1>1, <2>1, <3>2, RestatedIsInert DEF Inert
      <3> QED
        BY <1>3, <3>1, <3>2 DEF CallbackRefused
    <2> QED
      BY <1>3, <2>2, KeptIsInert, FamilyNames DEF CallbackRefused, Same, Kept
  <1> QED
    BY <1>2, <1>3, CallbackEffect

\* An exchange leaves ill-formed rows alone.
LEMMA ExchangeInert ==
    ASSUME StoreInv, ExchangeAuthHandoff
    PROVE  \A f \in Family : Inert(f)
  <1>1. CASE ExchangeGranted
    <2>1. LuaAccepts("handoff", HandoffValue) /\ Decode("handoff", HandoffValue.fields) # {}
      BY <1>1, ExchangeDecodes DEF ExchangeGranted, exchange_script
    <2>2. Inert("handoff")
      BY <1>1, <2>1, ExchangedRow, RestatedIsInert DEF Decodes
    <2> QED
      BY <1>1, <2>2, KeptIsInert, FamilyNames DEF ExchangeGranted, Same, Kept
  <1>2. CASE ExchangeRefused
    BY <1>2, KeptIsInert, FamilyNames DEF ExchangeRefused, Same, Kept
  <1> QED
    BY <1>1, <1>2, ExchangeEffect

\* The logout leaves ill-formed rows alone.
LEMMA LogoutInert ==
    ASSUME StoreInv, FlowInv, LogoutGet \/ LogoutPost
    PROVE  \A f \in Family : Inert(f)
  <1>1. CASE LogoutGet
    <2>1. redis["logout"] = None
      BY <1>1, LogoutGetEffect DEF FlowInv
    <2>2. Inert("logout")
      BY <2>1 DEF Inert, Rejected
    <2> QED
      BY <1>1, <2>2, LogoutGetEffect, KeptIsInert, FamilyNames
         DEF LogoutShown, LogoutNotShown, Same, Kept
  <1>2. CASE LogoutPost /\ LogoutDone
    <2>1. redis["logout"] # None /\ LogoutValue = redis["logout"].value
      BY <1>2, LoggedOutRow
    <2>2. /\ LuaAccepts("logout", redis["logout"].value)
          /\ redis["logout"].value.fields.status = [word |-> "unused"]
      BY <1>2, <2>1 DEF LogoutDone, logout_script
    <2>3. Utf8(redis["logout"].value) => Decodes("logout")
      <3>1. HashOK(redis["logout"].value)
        BY <2>1, FamilyNames DEF StoreInv, RowOK
      <3>2. \E w \in Statuses("logout") : redis["logout"].value.fields.status = [word |-> w]
        BY <2>2, UsageStatus
      <3>3. Utf8(redis["logout"].value) => Decode("logout", redis["logout"].value.fields) # {}
        BY <2>2, <3>1, <3>2, AcceptedDecodes, FamilyNames
      <3> QED
        BY <2>1, <3>3 DEF Decodes
    <2>4. ASSUME ~Utf8(redis["logout"].value)
          PROVE  UsedUpUnread("logout")
      <3>1. redis'["logout"] = WithStatus("logout", "used")["logout"]
        BY <1>2, StatusRow, FamilyNames DEF LogoutDone
      <3>2. /\ redis'["session"] \in {redis["session"], None}
            /\ \A f \in Family \ {"logout", "session"} : redis'[f] = redis[f]
        BY <1>2, FamilyNames DEF LogoutDone, Same, Kept
      <3>3. Succeeded' <=> DOMAIN redis["logout"].value.fields.logout_return_uri # {"binary"}
        BY <1>2, <2>1 DEF LogoutDone, logout_post_status, Succeeded
      <3> QED
        BY <2>2, <2>4, <3>1, <3>2, <3>3 DEF UsedUpUnread
    <2>5. Inert("logout")
      BY <2>2, <2>3, <2>4, RestatedIsInert DEF Inert
    <2> QED
      BY <1>2, <2>5, KeptIsInert, FamilyNames DEF LogoutDone, Same, Kept
  <1>3. CASE LogoutPost /\ LogoutRefused
    BY <1>3, KeptIsInert, FamilyNames DEF LogoutRefused, Same, Kept
  <1> QED
    BY <1>1, <1>2, <1>3, LogoutPostEffect

\* Every step but a corruption leaves ill-formed rows alone.
LEMMA NextInert ==
    ASSUME StoreInv, FlowInv, Next, faults' = faults
    PROVE  \A f \in Family : Inert(f)
  <1>1. CASE Elsewhere
    BY <1>1, ElsewhereEffect DEF Inert
  <1>2. CASE Wait \/ \E family \in Family : Corrupt(family)
    <2>1. faults' = faults + 1 /\ faults \in Nat
      BY <1>2, WaitEffect, CorruptEffect DEF FlowInv
    <2> QED
      BY <2>1
  <1> QED
    BY <1>1, <1>2, Steps, LoginInert, CallbackInert, ExchangeInert, LogoutInert

\* A single sign-on rests on a session that decodes.
LEMMA LoginGrounded ==
    ASSUME StoreInv, FoundationLogin
    PROVE  Grounded
  <1>1. mail.at = "login"
    BY LoginEffect
  <1>2. CASE LoginToGoogle
    <2>1. mail' # None /\ mail'.at = "google"
      BY <1>2, MailParts DEF LoginToGoogle
    <2>2. RestsOn("login", "google") = {}
      BY DEF RestsOn
    <2> QED
      BY <1>1, <2>1, <2>2 DEF Grounded
  <1>3. CASE LoginBySession
    <2>1. mail' # None /\ mail'.at = "portal_callback"
      BY <1>3, MailParts DEF LoginBySession
    <2>2. RestsOn("login", "portal_callback") = {"session"}
      BY DEF RestsOn
    <2>3. ReadState("session", At("session", The(SessionCookie)), clock) = "Ok"
      BY <1>3, SsoGranted DEF LoginBySession
    <2>4. /\ At("session", The(SessionCookie)) # None
          /\ Decode("session", At("session", The(SessionCookie)).fields) # {}
      BY <2>3 DEF ReadState, read_fields
    <2>5. Decodes("session")
      BY <2>4, AtRow DEF Decodes
    <2> QED
      BY <1>1, <2>1, <2>2, <2>5 DEF Grounded
  <1>4. CASE LoginRefused
    BY <1>4 DEF LoginRefused, Grounded, Succeeded
  <1> QED
    BY <1>2, <1>3, <1>4, LoginEffect

\* A callback that is granted rests on a transaction that decodes.
LEMMA CallbackGrounded ==
    ASSUME StoreInv, GoogleAuthCallback
    PROVE  Grounded
  <1>1. mail.at = "google_callback"
    BY CallbackEffect
  <1>2. CASE CallbackGranted
    <2>1. \A next : RestsOn("google_callback", next) = {"external"}
      BY DEF RestsOn
    <2>2. Decode("external", CallbackValue.fields) # {}
      BY <1>2, ClaimDecodes DEF CallbackGranted, CallbackTxns
    <2>3. Decodes("external")
      BY <1>2, <2>2, ClaimedRow DEF Decodes, CallbackGranted
    <2> QED
      BY <1>1, <2>1, <2>3 DEF Grounded
  <1>3. CASE CallbackRefused
    BY <1>3 DEF CallbackRefused, Grounded, Succeeded
  <1> QED
    BY <1>2, <1>3, CallbackEffect

\* An exchange that is granted rests on a handoff and a session that decode.
LEMMA ExchangeGrounded ==
    ASSUME StoreInv, ExchangeAuthHandoff
    PROVE  Grounded
  <1>1. mail.at = "exchange"
    BY ExchangeEffect
  <1>2. CASE ExchangeGranted
    <2>1. \A next : RestsOn("exchange", next) = {"handoff", "session"}
      BY DEF RestsOn
    <2>2. /\ Decode("handoff", HandoffValue.fields) # {}
          /\ At("session", HandoffLookup) # None
          /\ Decode("session", At("session", HandoffLookup).fields) # {}
      BY <1>2, ExchangeDecodes DEF ExchangeGranted
    <2>3. Decodes("handoff") /\ Decodes("session")
      BY <1>2, <2>2, ExchangedRow, AtRow DEF Decodes
    <2> QED
      BY <1>1, <2>1, <2>3 DEF Grounded
  <1>3. CASE ExchangeRefused
    BY <1>3 DEF ExchangeRefused, Grounded, Succeeded
  <1> QED
    BY <1>2, <1>3, ExchangeEffect

\* No other action handles a message whose answer rests on a row.
LEMMA OtherGrounded ==
    ASSUME FlowInv,
           \/ Elsewhere \/ LogoutGet \/ LogoutPost
    PROVE  Grounded
  <1>1. CASE StartFoundation \/ StartPortal \/ PortalLogin \/ Browse
    <2>1. ~Handled
      BY <1>1 DEF Handled, StartFoundation, StartPortal, PortalLogin, Browse, FlowInv
    <2> QED
      BY <2>1 DEF Grounded
  <1>2. CASE Alter
    <2>1. ~Handled
      BY <1>2 DEF Handled, Alter, FlowInv
    <2> QED
      BY <2>1 DEF Grounded
  <1>3. CASE \/ GoogleConsent \/ PortalCallback \/ PortalSession \/ GetMe \/ PortalLogout
             \/ LogoutGet \/ LogoutPost
    <2>1. mail.at \in {"google", "portal_callback", "exchanged", "me", "portal_logout",
                       "logout_get", "logout_post"}
      BY <1>3 DEF GoogleConsent, PortalCallback, PortalSession, GetMe, PortalLogout,
                  LogoutGet, LogoutPost
    <2>2. \A next : RestsOn(mail.at, next) = {}
      BY <2>1 DEF RestsOn
    <2> QED
      BY <2>2 DEF Grounded
  <1> QED
    BY <1>1, <1>2, <1>3 DEF Elsewhere

\* Every grant rests on rows that decode.
LEMMA NextGrounded ==
    ASSUME StoreInv, FlowInv, Next
    PROVE  Grounded
  <1>1. CASE Wait \/ \E family \in Family : Corrupt(family)
    <2>1. ~Handled
      BY <1>1, WaitEffect, CorruptEffect DEF Handled
    <2> QED
      BY <2>1 DEF Grounded
  <1> QED
    BY <1>1, Steps, LoginGrounded, CallbackGrounded, ExchangeGrounded, OtherGrounded

\* A row that either reader of redis_state.rs would reject is never repaired or
\* changed in place by a handler, except that a transaction of which only Rust
\* cannot read a text is used up by the script, with nothing granted on a claim;
\* and no handler grants anything on the strength of a row that does not decode.
THEOREM CorruptRowsAreInert == Spec => CorruptRowIsInert
  <1>1. ASSUME JourneyInv, Next
        PROVE  /\ \A f \in Family : Rejected(f) /\ faults' = faults =>
                     \/ redis'[f] = redis[f] \/ redis'[f] = None \/ redis'[f].key # redis[f].key
                     \/ UsedUpUnread(f)
               /\ Handled /\ Succeeded' /\ answer' # answer =>
                     \A f \in RestsOn(mail.at, IF mail' = None THEN "none" ELSE mail'.at) :
                        Decodes(f)
    <2>1. StoreInv /\ FlowInv
      BY <1>1 DEF JourneyInv
    <2>2. faults' = faults => \A f \in Family : Inert(f)
      BY <1>1, <2>1, NextInert
    <2>3. Grounded
      BY <1>1, <2>1, NextGrounded
    <2> QED
      BY <2>2, <2>3 DEF Inert, Grounded
  <1> QED
    BY <1>1, JourneyIsInvariant, PTL DEF Spec, CorruptRowIsInert

-----------------------------------------------------------------------------

\* What is repeated does not occur once.
LEMMA RepeatsNotOnce ==
    ASSUME NEW pairs, NEW name, Repeats(pairs, name)
    PROVE  ~Once(pairs, name)
  BY DEF Repeats, Once

\* A parameter other than "extra" is repeated.
RepeatsParameter(pairs) ==
    \E i \in DOMAIN pairs : pairs[i][1] # "extra" /\ Repeats(pairs, pairs[i][1])

\* serde refuses what repeats a parameter that the handler asks for, and nobody
\* but the handlers' own parameters and "extra" is ever in a message.
LEMMA RepeatedAsked ==
    ASSUME NEW m, MailOK(m), m.at \in DOMAIN Asked, RepeatsParameter(m.pairs)
    PROVE  ~Deserializes(m.pairs, Asked[m.at])
  <1>1. PICK i \in DOMAIN m.pairs : m.pairs[i][1] # "extra" /\ Repeats(m.pairs, m.pairs[i][1])
    BY DEF RepeatsParameter
  <1>2. m.pairs[i][1] \in Asked[m.at]
    BY <1>1 DEF MailOK, PairsNamed
  <1> QED
    BY <1>1, <1>2, RepeatsNotOnce DEF Deserializes

\* The portal's own parser refuses a callback that repeats a parameter.
LEMMA RepeatedCallback ==
    ASSUME NEW pairs, IsSeq(pairs), RepeatsParameter(pairs)
    PROVE  parse_callback_query(pairs) = {}
  <1> SUFFICES ASSUME Len(pairs) = 2, Once(pairs, "code"), Once(pairs, "state")
               PROVE  FALSE
    BY DEF parse_callback_query
  <1>1. DOMAIN pairs = 1..2
    BY DEF IsSeq
  <1>2. PICK c \in DOMAIN pairs : Occurs(pairs, "code") = {c}
    BY DEF Once
  <1>3. PICK s \in DOMAIN pairs : Occurs(pairs, "state") = {s}
    BY DEF Once
  <1>4. pairs[c][1] = "code" /\ pairs[s][1] = "state"
    BY <1>2, <1>3 DEF Occurs
  <1>5. \A i \in DOMAIN pairs : i = c \/ i = s
    BY <1>1, <1>4
  <1>6. PICK k \in DOMAIN pairs : Repeats(pairs, pairs[k][1])
    BY DEF RepeatsParameter
  <1>7. pairs[k][1] \in {"code", "state"}
    BY <1>4, <1>5
  <1> QED
    BY <1>6, <1>7, RepeatsNotOnce

\* The portal reads no value of a cookie that is repeated.
LEMMA RepeatedCookie ==
    ASSUME NEW header, NEW name, Repeats(header, name)
    PROVE  cookie_value(header, name) = {}
  BY RepeatsNotOnce DEF cookie_value

\* Where an ambiguous message is found out.
LEMMA AmbiguousCases ==
    ASSUME NEW m, MailOK(m), Ambiguous(m)
    PROVE  \/ m.at \in DOMAIN Asked /\ ~Deserializes(m.pairs, Asked[m.at])
           \/ m.at \in {"exchange", "portal_logout"} /\ Len(m.headers) > 1
           \/ /\ m.at = "portal_callback"
              /\ \/ parse_callback_query(m.pairs) = {}
                 \/ login_context_from_cookie_header(m.cookies) = {}
           \/ /\ m.at \in {"me", "portal_logout"}
              /\ fixed_reference_cookie_from_headers(m.cookies, PORTAL_SESSION) = {}
           \/ /\ m.at = "portal_logout"
              /\ fixed_reference_cookie_from_headers(m.cookies, PORTAL_CSRF) = {}
  <1>1. m.at \in DOMAIN Asked \cup {"google", "portal_callback", "exchanged"}
    BY DEF MailOK
  <1>2. CASE RepeatsParameter(m.pairs)
    <2>1. CASE m.at \in DOMAIN Asked
      BY <1>2, <2>1, RepeatedAsked
    <2>2. CASE m.at = "portal_callback"
      BY <1>2, <2>2, RepeatedCallback DEF MailOK
    <2>3. CASE m.at \in {"google", "exchanged"}
      BY <1>2, <2>3 DEF MailOK, RepeatsParameter, Repeats, Occurs
    <2> QED
      BY <1>1, <2>1, <2>2, <2>3
  <1>3. CASE Len(m.headers) > 1
    <2>1. m.headers # <<>>
      BY <1>3
    <2> QED
      BY <1>3, <2>1 DEF MailOK
  <1>4. CASE \E n \in ReadCookies(m.at) : Repeats(ReadHeaders(m), n)
    <2>1. CASE m.at = "portal_callback"
      <3>1. Repeats(ReadHeaders(m), LOGIN_CTX)
        BY <1>4, <2>1 DEF ReadCookies
      <3>2. m.cookies # <<>> => cookie_value(m.cookies[1], LOGIN_CTX) = {}
        BY <2>1, <3>1, RepeatedCookie DEF ReadHeaders
      <3> QED
        BY <2>1, <3>2 DEF login_context_from_cookie_header, LOGIN_CTX
    <2>2. CASE m.at = "me"
      <3>1. Repeats(ReadHeaders(m), PORTAL_SESSION)
        BY <1>4, <2>2 DEF ReadCookies
      <3>2. cookie_value(ReadHeaders(m), PORTAL_SESSION) = {}
        BY <3>1, RepeatedCookie
      <3> QED
        BY <2>2, <3>2 DEF fixed_reference_cookie_from_headers, ReadHeaders
    <2>3. CASE m.at = "portal_logout"
      <3>1. Repeats(ReadHeaders(m), PORTAL_SESSION) \/ Repeats(ReadHeaders(m), PORTAL_CSRF)
        BY <1>4, <2>3 DEF ReadCookies
      <3>2. \/ cookie_value(ReadHeaders(m), PORTAL_SESSION) = {}
            \/ cookie_value(ReadHeaders(m), PORTAL_CSRF) = {}
        BY <3>1, RepeatedCookie
      <3> QED
        BY <2>3, <3>2 DEF fixed_reference_cookie_from_headers, ReadHeaders
    <2>4. CASE m.at \notin {"portal_callback", "me", "portal_logout"}
      BY <1>4, <2>4 DEF ReadCookies
    <2> QED
      BY <2>1, <2>2, <2>3, <2>4
  <1> QED
    BY <1>2, <1>3, <1>4 DEF Ambiguous, RepeatsParameter

\* A header that is repeated does not occur once.
LEMMA OneIsNotMore == ASSUME NEW n, n > 1 PROVE n # 1
  <1> SUFFICES ASSUME n = 1 PROVE FALSE
    OBVIOUS
  <1> QED
    OBVIOUS

\* What a refusal is: no success, and nothing stored by either service.
Refused == ~Succeeded' /\ UNCHANGED <<redis, starts, sessions>>

\* A step that keeps the rows of all families leaves the store alone.
LEMMA SameStore ==
    ASSUME StoreInv, redis' = [f \in Family |-> redis'[f]], Same(Family)
    PROVE  redis' = redis
  <1>1. redis = [f \in Family |-> redis[f]]
    BY DEF StoreInv
  <1>2. \A f \in Family : redis'[f] = redis[f]
    BY DEF Same
  <1> DEFINE new == redis'
  <1>3. new = [f \in Family |-> new[f]] /\ \A f \in Family : new[f] = redis[f]
    BY <1>2
  <1> HIDE DEF new
  <1>4. [f \in Family |-> new[f]] = [f \in Family |-> redis[f]]
    BY <1>3
  <1>5. new = redis
    BY <1>1, <1>3, <1>4
  <1> QED
    BY <1>5 DEF new

\* A login whose query does not deserialize is refused.
LEMMA LoginRefuses ==
    ASSUME StoreInv, FoundationLogin, ~Deserializes(mail.pairs, LoginQuery)
    PROVE  Refused
  <1>1. LoginRefused
    BY LoginEffect, LoginGoesOn DEF LoginToGoogle, LoginBySession
  <1>2. Same(Family)
    BY <1>1, FamilyNames DEF LoginRefused, Same
  <1>3. UNCHANGED <<redis, starts, sessions>>
    BY <1>2, LoginEffect, SameStore
  <1> QED
    BY <1>1, <1>3 DEF LoginRefused, Refused, Succeeded

\* Google's callback is refused when its query does not deserialize.
LEMMA CallbackRefuses ==
    ASSUME StoreInv, GoogleAuthCallback, ~Deserializes(mail.pairs, CallbackQuery)
    PROVE  Refused
  <1>1. CallbackRefused
    BY CallbackEffect DEF CallbackGranted
  <1>2. Same(Family)
    BY <1>1, FamilyNames DEF CallbackRefused, Same
  <1>3. UNCHANGED <<redis, starts, sessions>>
    BY <1>2, CallbackEffect, SameStore
  <1> QED
    BY <1>1, <1>3 DEF CallbackRefused, Refused, Succeeded

\* An exchange is refused when its body does not deserialize or its
\* Authorization header is repeated.
LEMMA ExchangeRefuses ==
    ASSUME StoreInv, ExchangeAuthHandoff,
           ~Deserializes(mail.pairs, HandoffExchangeRequest) \/ Len(mail.headers) > 1
    PROVE  Refused
  <1>0. Len(mail.headers) > 1 => Len(mail.headers) # 1
    BY OneIsNotMore
  <1>1. Len(mail.headers) > 1 => basic_credentials(mail.headers) = {}
    BY <1>0 DEF basic_credentials
  <1>2. exchange_refusal(mail.pairs, mail.headers) # "none"
    BY <1>1 DEF exchange_refusal
  <1>3. ExchangeRefused
    BY <1>2, ExchangeEffect DEF ExchangeGranted
  <1>4. Same(Family)
    BY <1>2, <1>3, FamilyNames DEF ExchangeRefused, Same
  <1>5. UNCHANGED <<redis, starts, sessions>>
    BY <1>4, ExchangeEffect, SameStore
  <1> QED
    BY <1>3, <1>5 DEF ExchangeRefused, Refused, Succeeded

\* The logout page is refused when its query does not deserialize.
LEMMA LogoutGetRefuses ==
    ASSUME StoreInv, LogoutGet, ~Deserializes(mail.pairs, LogoutQuery)
    PROVE  Refused
  BY LogoutGetEffect DEF LogoutShown, LogoutNotShown, Refused, Succeeded

\* The logout form is refused when it does not deserialize.
LEMMA LogoutPostRefuses ==
    ASSUME StoreInv, LogoutPost, ~Deserializes(mail.pairs, LogoutForm)
    PROVE  Refused
  <1>1. LogoutRefused
    BY LogoutPostEffect DEF LogoutDone
  <1>2. Same(Family)
    BY <1>1, FamilyNames DEF LogoutRefused, Same
  <1>3. UNCHANGED <<redis, starts, sessions>>
    BY <1>2, LogoutPostEffect, SameStore
  <1> QED
    BY <1>1, <1>3 DEF LogoutRefused, Refused, Succeeded

\* The portal's callback is refused when its query or its cookies are not read.
LEMMA PortalCallbackRefuses ==
    ASSUME PortalCallback,
           \/ parse_callback_query(mail.pairs) = {}
           \/ login_context_from_cookie_header(mail.cookies) = {}
    PROVE  Refused
  <1>1. starts' = starts \ {} /\ answer'.status = "400" /\ UNCHANGED <<redis, sessions>>
    BY DEF PortalCallback, Answer
  <1> QED
    BY <1>1 DEF Refused, Succeeded

\* The portal names no one to a browser whose session cookie is not read.
LEMMA GetMeRefuses ==
    ASSUME GetMe, fixed_reference_cookie_from_headers(mail.cookies, PORTAL_SESSION) = {}
    PROVE  Refused
  <1>1. LocalSessionOf({}) = {} /\ ExpiredLocalSession({}) = {}
    BY DEF LocalSessionOf, ExpiredLocalSession
  <1>2. answer'.status = "401" /\ UNCHANGED <<redis, starts, sessions>>
    BY <1>1 DEF GetMe, Answer
  <1> QED
    BY <1>2 DEF Refused, Succeeded

\* The portal's logout is refused when a cookie is not read or its header is
\* repeated.
LEMMA PortalLogoutRefuses ==
    ASSUME PortalLogout,
           \/ fixed_reference_cookie_from_headers(mail.cookies, PORTAL_SESSION) = {}
           \/ fixed_reference_cookie_from_headers(mail.cookies, PORTAL_CSRF) = {}
           \/ Len(mail.headers) > 1
    PROVE  Refused
  <1>0. Len(mail.headers) > 1 => Len(mail.headers) # 1
    BY OneIsNotMore
  <1>1. Len(mail.headers) > 1 => csrf_header_from_headers(mail.headers) = {}
    BY <1>0 DEF csrf_header_from_headers
  <1>2. answer'.status = "403" /\ UNCHANGED <<redis, starts, sessions>>
    BY <1>1 DEF PortalLogout, Answer, remove_local_session
  <1> QED
    BY <1>2 DEF Refused, Succeeded

\* Whichever handler is sent an ambiguous request refuses it.
LEMMA NextRefuses ==
    ASSUME StoreInv, FlowInv, MailInv, Next, Handled, Ambiguous(mail)
    PROVE  Refused
  <1>1. MailOK(mail)
    BY DEF Handled, MailInv
  <1> DEFINE Cases ==
           \/ mail.at \in DOMAIN Asked /\ ~Deserializes(mail.pairs, Asked[mail.at])
           \/ mail.at \in {"exchange", "portal_logout"} /\ Len(mail.headers) > 1
           \/ /\ mail.at = "portal_callback"
              /\ \/ parse_callback_query(mail.pairs) = {}
                 \/ login_context_from_cookie_header(mail.cookies) = {}
           \/ /\ mail.at \in {"me", "portal_logout"}
              /\ fixed_reference_cookie_from_headers(mail.cookies, PORTAL_SESSION) = {}
           \/ /\ mail.at = "portal_logout"
              /\ fixed_reference_cookie_from_headers(mail.cookies, PORTAL_CSRF) = {}
  <1>2. Cases
    BY <1>1, AmbiguousCases
  <1>3. /\ Asked["login"] = LoginQuery /\ Asked["google_callback"] = CallbackQuery
        /\ Asked["exchange"] = HandoffExchangeRequest /\ Asked["logout_get"] = LogoutQuery
        /\ Asked["logout_post"] = LogoutForm /\ Asked["me"] = {} /\ Asked["portal_logout"] = {}
        /\ {"google", "portal_callback", "exchanged"} \cap DOMAIN Asked = {}
    BY DEF Asked
  <1>4. Deserializes(mail.pairs, {})
    BY DEF Deserializes
  <1>5. CASE FoundationLogin
    <2>1. mail.at = "login"
      BY <1>5 DEF FoundationLogin
    <2> QED
      BY <1>2, <1>3, <1>5, <2>1, LoginRefuses
  <1>6. CASE GoogleAuthCallback
    <2>1. mail.at = "google_callback"
      BY <1>6 DEF GoogleAuthCallback
    <2> QED
      BY <1>2, <1>3, <1>6, <2>1, CallbackRefuses
  <1>7. CASE ExchangeAuthHandoff
    <2>1. mail.at = "exchange"
      BY <1>7 DEF ExchangeAuthHandoff
    <2> QED
      BY <1>2, <1>3, <1>7, <2>1, ExchangeRefuses
  <1>8. CASE LogoutGet
    <2>1. mail.at = "logout_get"
      BY <1>8 DEF LogoutGet
    <2> QED
      BY <1>2, <1>3, <1>8, <2>1, LogoutGetRefuses
  <1>9. CASE LogoutPost
    <2>1. mail.at = "logout_post"
      BY <1>9 DEF LogoutPost
    <2> QED
      BY <1>2, <1>3, <1>9, <2>1, LogoutPostRefuses
  <1>10. CASE PortalCallback
    <2>1. mail.at = "portal_callback"
      BY <1>10 DEF PortalCallback
    <2> QED
      BY <1>2, <1>3, <1>10, <2>1, PortalCallbackRefuses
  <1>11. CASE GetMe
    <2>1. mail.at = "me"
      BY <1>11 DEF GetMe
    <2> QED
      BY <1>2, <1>3, <1>4, <1>11, <2>1, GetMeRefuses
  <1>12. CASE PortalLogout
    <2>1. mail.at = "portal_logout"
      BY <1>12 DEF PortalLogout
    <2> QED
      BY <1>2, <1>3, <1>4, <1>12, <2>1, PortalLogoutRefuses
  <1>13. CASE GoogleConsent \/ PortalSession
    <2>1. mail.at \in {"google", "exchanged"}
      BY <1>13 DEF GoogleConsent, PortalSession
    <2> QED
      BY <1>2, <1>3, <2>1
  <1>14. CASE StartFoundation \/ StartPortal \/ PortalLogin \/ Browse
    BY <1>14 DEF Handled, StartFoundation, StartPortal, PortalLogin, Browse, FlowInv
  <1>15. CASE Alter \/ Wait \/ \E family \in Family : Corrupt(family)
    <2>1. faults' = faults + 1 /\ faults \in Nat
      BY <1>15, WaitEffect, CorruptEffect DEF Alter, FlowInv
    <2> QED
      BY <2>1 DEF Handled
  <1> QED
    BY <1>5, <1>6, <1>7, <1>8, <1>9, <1>10, <1>11, <1>12, <1>13, <1>14, <1>15 DEF Next

\* A request that gives a parameter, a cookie or a header twice is never granted
\* and changes neither the store nor the portal's logins and sessions: no
\* handler picks one of the two values.
THEOREM AmbiguousRequestsAreRefused == Spec => AmbiguousIsRefused
  <1>1. ASSUME JourneyInv, Next
        PROVE  Handled /\ Ambiguous(mail) =>
                  ~Succeeded' /\ UNCHANGED <<redis, starts, sessions>>
    BY <1>1, NextRefuses DEF JourneyInv, Refused
  <1> QED
    BY <1>1, JourneyIsInvariant, PTL DEF Spec, AmbiguousIsRefused

-----------------------------------------------------------------------------
\* The values that the portal generates for a login.
State == random_reference(<<"state">>)
Ctx == random_reference(<<"ctx">>)
Verifier == random_reference(<<"verifier">>)
PkceChallenge == sha256_base64url(Verifier)

\* The login that the portal remembers and the parameters it sends.
Begun ==
    [state |-> State, ctx |-> Ctx, verifier |-> Verifier, path |-> PostLoginPath,
     expires |-> clock + LoginStartTTL]
LoginPairs ==
    <<<<"service_id", Config.service_id>>, <<"state", State>>,
      <<"code_challenge", PkceChallenge>>, <<"code_challenge_method", S256>>>>

\* The session that a returning browser has, and any that the journey can use.
ReturningReference == Reference(<<"session">>)
References == {SessionReference, ReturningReference}

\* The rows that the undisturbed journey writes.
Transaction(status) ==
    [service_id |-> Config.service_id, service_state |-> State,
     handoff_code_challenge |-> PkceChallenge, provider |-> Google,
     provider_verification_data |-> Empty, created_at |-> clock,
     expires_at |-> clock + ExternalTTL, status |-> status]

\* The row of the code that the session of a reference gets.
Handoff(reference) ==
    NewHandoffState(Config.service_id, PkceChallenge, reference,
                    [user |-> world.user, at |-> clock], clock + HandoffTTL)

\* The session that the portal keeps of the login.
LocalSession ==
    [reference |-> PortalReference, csrf |-> sha256_base64url(PortalCsrf),
     user |-> world.user, at |-> clock, expires |-> clock + LocalSessionTTL]

\* A browser that is new, or has a common session.
Visitor ==
    \/ jar[AUTH_SESSION] = {} /\ \A f \in Family : redis[f] = None
    \/ /\ jar[AUTH_SESSION] = {ReturningReference}
       /\ redis["session"] = NewKey(ReturningReference, NewSessionState)
       /\ \A f \in Family \ {"session"} : redis[f] = None

\* What the two services and the browser hold, from the first click to the last.
NoPortalCookies == jar[LOGIN_CTX] = {} /\ jar[PORTAL_SESSION] = {} /\ jar[PORTAL_CSRF] = {}
Started ==
    /\ starts = {Begun} /\ sessions = {}
    /\ jar[LOGIN_CTX] = {Ctx} /\ jar[PORTAL_SESSION] = {} /\ jar[PORTAL_CSRF] = {}
SessionHeld == \E reference \in References : jar[AUTH_SESSION] = {reference}
CodeIssued(reference) ==
    /\ jar[AUTH_SESSION] = {reference}
    /\ redis["session"] = NewKey(reference, NewSessionState)
    /\ redis["handoff"] = NewKey(HandoffCode, Handoff(reference))
SignedIn ==
    /\ SessionHeld
    /\ sessions = {LocalSession}
    /\ jar[LOGIN_CTX] = {} /\ jar[PORTAL_SESSION] = {PortalReference}
    /\ jar[PORTAL_CSRF] = {PortalCsrf}

\* Before the journey nothing is remembered of a login and nothing is sent.
AtRest == Visitor /\ starts = {} /\ sessions = {} /\ mail = None /\ NoPortalCookies

\* What the journey has come to when a message is on its way: to /auth/login,
\* to Google and back, to the portal, to the exchange and back, to /api/me and
\* through the three requests of the logout.
LoginSent ==
    /\ Visitor /\ Started
    /\ mail = Mail("login", LoginPairs, FoundationCookies(jar), <<>>)
TransactionStored ==
    /\ Started /\ jar[AUTH_SESSION] = {}
    /\ redis["external"] = NewKey(OauthState, Transaction("waiting"))
    /\ \A f \in Family \ {"external"} : redis[f] = None
ConsentAsked ==
    /\ TransactionStored
    /\ mail = Mail("google", <<<<"state", OauthState>>>>, <<>>, <<>>)
ConsentGiven ==
    /\ TransactionStored
    /\ mail = Mail("google_callback",
                   <<<<"code", world.google_code>>, <<"state", OauthState>>>>, <<>>, <<>>)
CodeSent ==
    /\ Started
    /\ \E reference \in References :
          /\ CodeIssued(reference)
          /\ mail = Mail("portal_callback",
                IF reference = SessionReference
                THEN GoogleRedirect(The(world.service.login_callback_uri.url), HandoffCode, State)
                ELSE SsoRedirect(The(world.service.login_callback_uri.url), HandoffCode, State),
                PortalCookies(jar), <<>>)
ExchangeSent ==
    /\ sessions = {} /\ \E reference \in References : CodeIssued(reference)
    /\ mail = Mail("exchange",
          <<<<"code", HandoffCode>>, <<"code_verifier", Verifier>>>>, <<>>,
          <<Authorization("Basic", TRUE, Config.service_id, Config.service_secret)>>)
Exchanged ==
    /\ sessions = {} /\ SessionHeld
    /\ answer.status = "200"
    /\ mail = Mail("exchanged",
          <<<<"internal_user_id", Number(world.user)>>, <<"authenticated_at", Number(clock)>>>>,
          <<>>, <<>>)
MeSent == SignedIn /\ mail = Mail("me", <<>>, PortalCookies(jar), <<>>)
LogoutSent == SignedIn /\ mail = Mail("portal_logout", <<>>, PortalCookies(jar), <<PortalCsrf>>)
LogoutPageSent ==
    /\ SessionHeld
    /\ mail = Mail("logout_get", <<<<"service_id", Config.service_id>>>>, FoundationCookies(jar), <<>>)
LogoutFormSent ==
    /\ SessionHeld
    /\ redis["logout"] = NewKey(LogoutReference, NewLogoutState(Config.service_id))
    /\ mail = Mail("logout_post",
          <<<<"logout_reference", LogoutReference>>, <<"csrf_token", CsrfToken>>>>,
          FoundationCookies(jar), <<>>)

\* Every message of an undisturbed journey is the one of its stage,
OnItsWay ==
    /\ Succeeded
    /\ mail.at = "login" => LoginSent
    /\ mail.at = "google" => ConsentAsked
    /\ mail.at = "google_callback" => ConsentGiven
    /\ mail.at = "portal_callback" => CodeSent
    /\ mail.at = "exchange" => ExchangeSent
    /\ mail.at = "exchanged" => Exchanged
    /\ mail.at = "me" => MeSent
    /\ mail.at = "portal_logout" => LogoutSent
    /\ mail.at = "logout_get" => LogoutPageSent
    /\ mail.at = "logout_post" => LogoutFormSent

\* and when the browser has its answer.
Answered ==
    \/ answer.at \in {"exchanged", "me"} /\ Succeeded /\ SignedIn
    \/ answer.at = "portal_logout" /\ Succeeded /\ SessionHeld
    \/ answer.at = "logout_post" /\ Succeeded
    \/ answer.at = "portal_callback" /\ jar[AUTH_SESSION] = {ReturningReference} /\ ~NoQuery

\* The stage of an undisturbed journey determines all that its next step reads.
StageInv ==
    /\ jar = [n \in CookieNames |-> jar[n]]
    /\ answer # NoAnswer => portal = "serving"
    /\ portal = "serving" => portal_from_env(world.penv) # {}
    /\ faults = 0 =>
          /\ answer = NoAnswer => AtRest
          /\ answer # NoAnswer /\ Fits => IF mail # None THEN OnItsWay ELSE Answered

\* The one member of a set that has one.
LEMMA TheOnly ==
    ASSUME NEW x
    PROVE  The({x}) = x
  BY DEF The

\* An empty set has no members to count.
LEMMA NobodyCounted == Cardinality({}) = 0
  BY FS_EmptySet

\* A list of one pair has the name of the pair once, and its value there.
LEMMA OnePair ==
    ASSUME NEW a, NEW x
    PROVE  LET pairs == <<<<a, x>>>> IN
           /\ Occurs(pairs, a) = {1} /\ Once(pairs, a) /\ Field(pairs, a) = x
           /\ \A n : n # a => Occurs(pairs, n) = {}
  <1> DEFINE pairs == <<<<a, x>>>>
  <1>1. DOMAIN pairs = {1} /\ pairs[1][1] = a /\ pairs[1][2] = x
    OBVIOUS
  <1> HIDE DEF pairs
  <1>2. Occurs(pairs, a) = {1} /\ \A n : n # a => Occurs(pairs, n) = {}
    BY <1>1 DEF Occurs
  <1>3. Once(pairs, a)
    BY <1>1, <1>2 DEF Once
  <1>4. Field(pairs, a) = x
    BY <1>1, <1>2 DEF Field
  <1> QED
    BY <1>2, <1>3, <1>4 DEF pairs

\* The same of two pairs: the parameters of a callback and of an exchange.
LEMMA TwoPairs ==
    ASSUME NEW a, NEW b, a # b, NEW x, NEW y
    PROVE  LET pairs == <<<<a, x>>, <<b, y>>>> IN
           /\ Occurs(pairs, a) = {1} /\ Once(pairs, a) /\ Field(pairs, a) = x
           /\ Occurs(pairs, b) = {2} /\ Once(pairs, b) /\ Field(pairs, b) = y
           /\ \A n : n \notin {a, b} => Occurs(pairs, n) = {}
  <1> DEFINE pairs == <<<<a, x>>, <<b, y>>>>
  <1>1. /\ DOMAIN pairs = {1, 2}
        /\ pairs[1][1] = a /\ pairs[1][2] = x /\ pairs[2][1] = b /\ pairs[2][2] = y
    OBVIOUS
  <1> HIDE DEF pairs
  <1>2. /\ Occurs(pairs, a) = {1} /\ Occurs(pairs, b) = {2}
        /\ \A n : n \notin {a, b} => Occurs(pairs, n) = {}
    BY <1>1 DEF Occurs
  <1>3. Once(pairs, a) /\ Once(pairs, b)
    BY <1>1, <1>2 DEF Once
  <1>4. Field(pairs, a) = x /\ Field(pairs, b) = y
    BY <1>1, <1>2 DEF Field
  <1> QED
    BY <1>2, <1>3, <1>4 DEF pairs

\* The same of four pairs: the parameters of /auth/login.
LEMMA FourPairs ==
    ASSUME NEW a, NEW b, NEW c, NEW d, NEW x, NEW y, NEW z, NEW w,
           a # b, a # c, a # d, b # c, b # d, c # d
    PROVE  LET pairs == <<<<a, x>>, <<b, y>>, <<c, z>>, <<d, w>>>> IN
           /\ Once(pairs, a) /\ Once(pairs, b) /\ Once(pairs, c) /\ Once(pairs, d)
           /\ Field(pairs, a) = x /\ Field(pairs, b) = y
           /\ Field(pairs, c) = z /\ Field(pairs, d) = w
  <1> DEFINE pairs == <<<<a, x>>, <<b, y>>, <<c, z>>, <<d, w>>>>
  <1>1. /\ DOMAIN pairs = {1, 2, 3, 4}
        /\ pairs[1][1] = a /\ pairs[1][2] = x /\ pairs[2][1] = b /\ pairs[2][2] = y
        /\ pairs[3][1] = c /\ pairs[3][2] = z /\ pairs[4][1] = d /\ pairs[4][2] = w
    OBVIOUS
  <1> HIDE DEF pairs
  <1>2. /\ Occurs(pairs, a) = {1} /\ Occurs(pairs, b) = {2}
        /\ Occurs(pairs, c) = {3} /\ Occurs(pairs, d) = {4}
    BY <1>1 DEF Occurs
  <1>3. Once(pairs, a) /\ Once(pairs, b) /\ Once(pairs, c) /\ Once(pairs, d)
    BY <1>1, <1>2 DEF Once
  <1>4. /\ Field(pairs, a) = x /\ Field(pairs, b) = y
        /\ Field(pairs, c) = z /\ Field(pairs, d) = w
    BY <1>1, <1>2 DEF Field
  <1> QED
    BY <1>3, <1>4 DEF pairs

\* 32 random bytes and a digest have the length and the characters that every
\* check of a reference value asks for, on both sides.
LEMMA ReferenceLength == Base64NoPad(32) = 43
  BY DEF Base64NoPad

\* A generated reference value passes each of those checks, and is a PKCE
\* verifier whose digest both sides compute alike.
LEMMA ReferencesFit ==
    ASSUME NEW is
    PROVE  /\ random_reference(is) = Reference(is)
           /\ Reference(is).is = is /\ Reference(is).bytes = 43
           /\ is_fixed_reference(Reference(is))
           /\ validate_fixed_reference_value(Reference(is))
           /\ validate_nonempty_max_bytes(Reference(is), SERVICE_STATE_MAX_BYTES)
           /\ pkce_s256_challenge(Reference(is)) = {Digest(Reference(is))}
           /\ sha256_base64url(Reference(is)) = Digest(Reference(is))
  <1>1. /\ random_reference(is) = Reference(is)
        /\ Reference(is).is = is /\ Reference(is).bytes = 43 /\ Reference(is).chars = Base64url
    BY ReferenceLength DEF random_reference, Reference, Text
  <1>2. is_fixed_reference(Reference(is)) /\ validate_fixed_reference_value(Reference(is))
    BY <1>1 DEF is_fixed_reference, validate_fixed_reference_value, OAUTH_STATE_BYTES
  <1>3. validate_nonempty_max_bytes(Reference(is), SERVICE_STATE_MAX_BYTES)
    BY <1>1 DEF validate_nonempty_max_bytes, SERVICE_STATE_MAX_BYTES
  <1>4. Base64url \subseteq Ascii
    BY DEF Base64url, ServiceIdChar, ServiceIdStart, Ascii, Char
  <1>5. pkce_s256_challenge(Reference(is)) = {Digest(Reference(is))}
    BY <1>1, <1>4 DEF pkce_s256_challenge, validate_ascii_byte_range, PKCE_VERIFIER_MIN_BYTES,
       PKCE_VERIFIER_MAX_BYTES
  <1>6. sha256_base64url(Reference(is)) = Digest(Reference(is))
    BY DEF sha256_base64url, random_reference, Digest, Reference
  <1> QED
    BY <1>1, <1>2, <1>3, <1>5, <1>6

\* A session made on the journey is told from the one of a returning browser.
LEMMA ReturningIsNotNew == ReturningReference # SessionReference
  BY ReferencesFit DEF ReturningReference, SessionReference

\* The cookie of a Cookie header that has one.
LEMMA OneCookie ==
    ASSUME NEW name, NEW value, name # "broken"
    PROVE  LET headers == <<<<<<name, value>>>>>> IN
           /\ request_cookie(headers, name) = {value}
           /\ is_fixed_reference(value) =>
                 /\ fixed_reference_cookie_from_headers(headers, name) = {value}
                 /\ cookie_value(headers[1], name) = {value}
  <1> DEFINE header == <<<<name, value>>>>
             headers == <<header>>
  <1>1. CookiePairs(headers) = header /\ headers[1] = header
    BY DEF CookiePairs
  <1>2. /\ Occurs(header, name) = {1} /\ Once(header, name) /\ Field(header, name) = value
        /\ Occurs(header, "broken") = {}
    BY OnePair
  <1> HIDE DEF header, headers
  <1>3. request_cookie(headers, name) = {value}
    BY <1>1, <1>2 DEF request_cookie
  <1>4. is_fixed_reference(value) => cookie_value(header, name) = {value}
    BY <1>2 DEF cookie_value
  <1> QED
    BY <1>1, <1>3, <1>4 DEF header, headers, fixed_reference_cookie_from_headers

\* Of two cookies with different names each is found.
LEMMA TwoCookies ==
    ASSUME NEW a, NEW b, a # b, a # "broken", b # "broken", NEW x, NEW y,
           is_fixed_reference(x), is_fixed_reference(y)
    PROVE  LET headers == <<<<<<a, x>>, <<b, y>>>>>> IN
           /\ fixed_reference_cookie_from_headers(headers, a) = {x}
           /\ fixed_reference_cookie_from_headers(headers, b) = {y}
  <1> DEFINE header == <<<<a, x>>, <<b, y>>>>
             headers == <<header>>
  <1>1. CookiePairs(headers) = header
    BY DEF CookiePairs
  <1>2. /\ Once(header, a) /\ Field(header, a) = x /\ Once(header, b) /\ Field(header, b) = y
        /\ Occurs(header, "broken") = {}
    BY TwoPairs
  <1> HIDE DEF header, headers
  <1>3. cookie_value(header, a) = {x} /\ cookie_value(header, b) = {y}
    BY <1>2 DEF cookie_value
  <1> QED
    BY <1>1, <1>3 DEF header, headers, fixed_reference_cookie_from_headers

\* Without a Cookie header there is no cookie.
LEMMA NoCookies ==
    ASSUME NEW name
    PROVE  request_cookie(<<>>, name) = {}
  <1>1. CookiePairs(<<>>) = <<>>
    BY DEF CookiePairs
  <1>2. Occurs(<<>>, name) = {}
    BY DEF Occurs
  <1> QED
    BY <1>1, <1>2 DEF request_cookie

\* What a stored string stands for, and that it is not bytes that are not UTF-8.
LEMMA StringParts ==
    ASSUME NEW x
    PROVE  /\ Part([num |-> x]) = x /\ DOMAIN [num |-> x] # {"binary"}
           /\ Part([lookup |-> x]) = x /\ DOMAIN [lookup |-> x] # {"binary"}
           /\ Part([word |-> x]) = x /\ DOMAIN [word |-> x] # {"binary"}
           /\ Part([text |-> x]) = x /\ DOMAIN [text |-> x] # {"binary"}
  <1>1. /\ {"num"} # {"binary"} /\ {"lookup"} # {"binary"}
        /\ {"word"} # {"binary"} /\ {"text"} # {"binary"}
    OBVIOUS
  <1>2. Part([num |-> x]) = x
    <2>1. DOMAIN [num |-> x] = {"num"} /\ [num |-> x].num = x
      OBVIOUS
    <2>2. DOMAIN [num |-> x] = {"num"} => Part([num |-> x]) = [num |-> x].num
      BY DecodedString
    <2> QED
      BY <2>1, <2>2
  <1>3. Part([lookup |-> x]) = x
    <2>1. DOMAIN [lookup |-> x] = {"lookup"} /\ [lookup |-> x].lookup = x
      OBVIOUS
    <2>2. DOMAIN [lookup |-> x] = {"lookup"} => Part([lookup |-> x]) = [lookup |-> x].lookup
      BY DecodedString
    <2> QED
      BY <2>1, <2>2
  <1>4. Part([word |-> x]) = x
    <2>1. DOMAIN [word |-> x] = {"word"} /\ [word |-> x].word = x
      OBVIOUS
    <2>2. DOMAIN [word |-> x] = {"word"} => Part([word |-> x]) = [word |-> x].word
      BY DecodedString
    <2> QED
      BY <2>1, <2>2
  <1>5. Part([text |-> x]) = x
    <2>1. DOMAIN [text |-> x] = {"text"} /\ [text |-> x].text = x
      OBVIOUS
    <2>2. DOMAIN [text |-> x] = {"text"} => Part([text |-> x]) = [text |-> x].text
      BY DecodedString
    <2> QED
      BY <2>1, <2>2
  <1> QED
    BY <1>1, <1>2, <1>3, <1>4, <1>5, LiteralDomain

\* What is encoded from a state in the scripts' ranges is accepted by the
\* scripts and decoded to the same state.
LEMMA RoundTrip ==
    ASSUME NEW family \in Family, NEW state, state = [f \in DOMAIN state |-> state[f]],
           DOMAIN state = Fields[family],
           \A f \in DOMAIN state \cap Times : state[f] \in 0..LuaMax,
           "internal_user_id" \in DOMAIN state =>
              state.internal_user_id \in (-I32Max - 1)..I32Max,
           "status" \in DOMAIN state => state.status \in Statuses(family)
    PROVE  /\ LuaAccepts(family, Hash(Encode(state)))
           /\ \A f \in DOMAIN state : LuaFormat(f, Encode(state)[f])
           /\ Decode(family, Encode(state)) = {state}
           /\ read_fields(Hash(Encode(state))) = "Ok"
  <1>1. DOMAIN Encode(state) = DOMAIN state
    BY EncodedDomain
  <1>2. ASSUME NEW f \in DOMAIN state
        PROVE  /\ LuaFormat(f, Encode(state)[f]) /\ Parses(family, f, Encode(state)[f])
               /\ DOMAIN Encode(state)[f] # {"binary"}
               /\ Part(Encode(state)[f]) = state[f]
    <2> DEFINE v == Encode(state)[f]
    <2>0. /\ f \in Times \cup {"internal_user_id"} => v = [num |-> state[f]]
          /\ f \in Lookups => v = [lookup |-> state[f]]
          /\ f = "status" => v = [word |-> state[f]]
          /\ f \notin Times \cup {"internal_user_id", "status"} \cup Lookups =>
                v = [text |-> state[f]]
      BY EncodedField
    <2>1. CASE f \in Times
      <3>1. v = [num |-> state[f]]
        BY <2>0, <2>1
      <3>2. state[f] \in 0..LuaMax /\ state[f] \in 0..U64Max
        BY <2>1, WidthAssumption
      <3>3. DOMAIN [num |-> state[f]] = {"num"} /\ [num |-> state[f]].num = state[f]
        OBVIOUS
      <3>6. f # "internal_user_id" /\ f \notin Lookups /\ f # "status"
        BY <2>1 DEF Times, Lookups
      <3>7. LuaUint(v) /\ parse_u64(v)
        BY <3>1, <3>2, <3>3 DEF LuaUint, parse_u64
      <3> HIDE DEF v
      <3>4. LuaFormat(f, v)
        BY <2>1, <3>6, <3>7 DEF LuaFormat
      <3>5. Parses(family, f, v)
        BY <2>1, <3>6, <3>7 DEF Parses
      <3> QED
        BY <3>1, <3>4, <3>5, StringParts DEF v
    <2>5. CASE f = "internal_user_id"
      <3>1. v = [num |-> state[f]]
        BY <2>0, <2>5
      <3>2. state[f] \in (-I32Max - 1)..I32Max
        BY <2>5
      <3>3. DOMAIN [num |-> state[f]] = {"num"} /\ [num |-> state[f]].num = state[f]
        OBVIOUS
      <3>4. f \notin Times /\ f \notin Lookups /\ f # "status"
        BY <2>5 DEF Times, Lookups
      <3>5. parse_i32(v)
        BY <3>1, <3>2, <3>3 DEF parse_i32
      <3> HIDE DEF v
      <3>6. LuaFormat(f, v) /\ Parses(family, f, v)
        BY <2>5, <3>4, <3>5 DEF LuaFormat, Parses
      <3> QED
        BY <3>1, <3>6, StringParts DEF v
    <2>2. CASE f \in Lookups
      <3>1. v = [lookup |-> state[f]]
        BY <2>0, <2>2
      <3>2. f \notin Times /\ f # "internal_user_id" /\ f # "status"
        BY <2>2 DEF Times, Lookups
      <3>3. DOMAIN [lookup |-> state[f]] = {"lookup"} /\ [lookup |-> state[f]].lookup = state[f]
        OBVIOUS
      <3>4. DOMAIN [lookup |-> state[f]] # {"binary"} /\ Part([lookup |-> state[f]]) = state[f]
        BY StringParts
      <3> QED
        BY <2>2, <3>1, <3>2, <3>3, <3>4 DEF LuaFormat, Parses, is_lookup
    <2>3. CASE f = "status"
      <3>1. v = [word |-> state[f]]
        BY <2>0, <2>3
      <3>2. f \notin Times /\ f # "internal_user_id" /\ f \notin Lookups
        BY <2>3 DEF Times, Lookups
      <3>3. DOMAIN [word |-> state[f]] = {"word"} /\ [word |-> state[f]].word = state[f]
        OBVIOUS
      <3>4. DOMAIN [word |-> state[f]] # {"binary"} /\ Part([word |-> state[f]]) = state[f]
        BY StringParts
      <3> QED
        BY <2>3, <3>1, <3>2, <3>3, <3>4 DEF LuaFormat, Parses
    <2>4. CASE f \notin Times \cup {"internal_user_id", "status"} \cup Lookups
      <3>1. v = [text |-> state[f]]
        BY <2>0, <2>4
      <3>3. DOMAIN [text |-> state[f]] = {"text"} /\ [text |-> state[f]].text = state[f]
        OBVIOUS
      <3>4. DOMAIN [text |-> state[f]] # {"binary"} /\ Part([text |-> state[f]]) = state[f]
        BY StringParts
      <3> QED
        BY <2>4, <3>1, <3>3, <3>4 DEF LuaFormat, Parses
    <2> QED
      BY <2>1, <2>2, <2>3, <2>4, <2>5
  <1>3. /\ Hash(Encode(state)) # None /\ Hash(Encode(state)).type = "hash"
        /\ Hash(Encode(state)).fields = Encode(state)
    BY HashPresent
  <1>4. LuaAccepts(family, Hash(Encode(state)))
    BY <1>1, <1>2, <1>3 DEF LuaAccepts
  <1>5. Decode(family, Encode(state)) = {state}
    <2>1. [f \in DOMAIN Encode(state) |->
             Encode(state)[f][CHOOSE kind \in DOMAIN Encode(state)[f] : TRUE]] = state
      BY <1>1, <1>2 DEF Part
    <2> QED
      BY <1>1, <1>2, <2>1 DEF Decode, validate_field_names
  <1>6. read_fields(Hash(Encode(state))) = "Ok"
    BY <1>1, <1>2, <1>3 DEF read_fields
  <1> QED
    BY <1>2, <1>4, <1>5, <1>6

\* Every lifetime that begins now ends in the range of the scripts' numbers.
LEMMA LifetimesFit ==
    ASSUME clock \in 0..(LuaMax - SessionTTL),
           NEW ttl \in {SessionTTL, LoginStartTTL, LocalSessionTTL, ExternalTTL, HandoffTTL, LogoutTTL}
    PROVE  /\ clock + ttl \in 0..LuaMax /\ clock < clock + ttl /\ clock + ttl <= U64Max
           /\ ~(clock + ttl <= clock) /\ clock \in 0..LuaMax
           /\ checked_expires_at(clock, ttl) = {clock + ttl}
           /\ IsUnexpired(clock, clock + ttl)
           /\ unix_seconds(clock) = {clock}
  <1>1. ttl \in 1..SessionTTL /\ SessionTTL \in Nat /\ clock \in Nat /\ clock + SessionTTL <= LuaMax
    BY LifetimeAssumption, TTLAssumption, WidthAssumption
  <1>2. clock + ttl \in 0..LuaMax /\ clock < clock + ttl /\ clock + ttl <= U64Max /\ clock \in 0..LuaMax
    BY <1>1, WidthAssumption
  <1>3. checked_expires_at(clock, ttl) = {clock + ttl} /\ unix_seconds(clock) = {clock}
    BY <1>1, <1>2 DEF checked_expires_at, unix_seconds
  <1> QED
    BY <1>1, <1>2, <1>3 DEF IsUnexpired

\* What the portal has checked of its configuration.
LEMMA ConfigFits ==
    ASSUME portal_from_env(world.penv) # {}
    PROVE  /\ validate_service_id(Config.service_id) /\ Config.service_id.bytes # 0
           /\ Config.login_start_capacity \in Nat \ {0}
           /\ Config.local_session_capacity \in Nat \ {0}
  <1>1. Config \in portal_from_env(world.penv)
    BY DEF Config, The
  <1>2. ASSUME NEW variable, NEW n \in capacity_from_env(variable, 10000)
        PROVE  n \in Nat \ {0}
    BY <1>2 DEF capacity_from_env
  <1>3. ASSUME NEW variable, NEW n \in capacity_from_env(variable, 50000)
        PROVE  n \in Nat \ {0}
    BY <1>3 DEF capacity_from_env
  <1>4. /\ Config.service_id = world.penv.PORTAL_SERVICE_ID.text
        /\ Config.login_start_capacity \in
              capacity_from_env(world.penv.PORTAL_LOGIN_START_CAPACITY, 10000)
        /\ Config.local_session_capacity \in
              capacity_from_env(world.penv.PORTAL_LOCAL_SESSION_CAPACITY, 50000)
        /\ validate_service_id_of_portal(world.penv.PORTAL_SERVICE_ID.text)
    BY <1>1 DEF portal_from_env
  <1>5. validate_service_id(Config.service_id) /\ Config.service_id.bytes # 0
    BY <1>4 DEF validate_service_id, validate_service_id_of_portal, validate_nonempty_max_bytes,
       SERVICE_ID_MAX_BYTES
  <1> QED
    BY <1>2, <1>3, <1>4, <1>5

\* The stages at the beginning.
LEMMA StageInit ==
    ASSUME Init
    PROVE  StageInv
  <1>1. AtRest
    <2>1. PICK returning \in BOOLEAN :
             /\ jar = [n \in CookieNames |->
                         IF returning /\ n = AUTH_SESSION THEN {Reference(<<"session">>)} ELSE {}]
             /\ redis = [f \in Family |->
                           IF returning /\ f = "session"
                           THEN NewKey(Reference(<<"session">>), NewSessionState)
                           ELSE None]
      BY DEF Init
    <2>2. {AUTH_SESSION, LOGIN_CTX, PORTAL_SESSION, PORTAL_CSRF} = CookieNames
          /\ AUTH_SESSION \notin {LOGIN_CTX, PORTAL_SESSION, PORTAL_CSRF}
      BY DEF CookieNames, AUTH_SESSION, LOGIN_CTX, PORTAL_SESSION, PORTAL_CSRF
    <2>3. Visitor
      BY <2>1, <2>2, FamilyNames DEF Visitor, ReturningReference
    <2>4. NoPortalCookies
      BY <2>1, <2>2 DEF NoPortalCookies
    <2> QED
      BY <2>3, <2>4 DEF AtRest, Init
  <1>2. jar = [n \in CookieNames |-> jar[n]] /\ answer = NoAnswer /\ portal = "down"
    BY DEF Init
  <1> QED
    BY <1>1, <1>2 DEF StageInv

\* The values of the journey depend on the world and on the clock only,
LEMMA SameValues ==
    ASSUME UNCHANGED <<world, clock>>
    PROVE  /\ Config' = Config /\ NewSessionState' = NewSessionState /\ Begun' = Begun
           /\ LocalSession' = LocalSession
           /\ LoginPairs' = LoginPairs /\ \A s : NewLogoutState(s)' = NewLogoutState(s)
           /\ \A status : Transaction(status)' = Transaction(status)
           /\ \A reference : Handoff(reference)' = Handoff(reference)
           /\ (Fits <=> Fits') /\ (NoQuery <=> NoQuery')
  <1>1. Config' = Config
    BY DEF Config
  <1>2. NewSessionState' = NewSessionState /\ Begun' = Begun /\ LocalSession' = LocalSession
    BY DEF NewSessionState, Begun, LocalSession
  <1>3. LoginPairs' = LoginPairs
    BY <1>1 DEF LoginPairs
  <1>4. \A s : NewLogoutState(s)' = NewLogoutState(s)
    BY DEF NewLogoutState
  <1>5. \A status : Transaction(status)' = Transaction(status)
    BY <1>1 DEF Transaction
  <1>6. \A reference : Handoff(reference)' = Handoff(reference)
    BY <1>1 DEF Handoff, NewHandoffState
  <1>7. Fits <=> Fits'
    BY <1>1 DEF Fits
  <1>8. NoQuery <=> NoQuery'
    BY DEF NoQuery
  <1> QED
    BY <1>1, <1>2, <1>3, <1>4, <1>5, <1>6, <1>7, <1>8

\* and a step that moves nothing of the journey leaves it where it is.
LEMMA Unmoved ==
    ASSUME UNCHANGED <<world, clock, redis, starts, sessions, jar, mail, answer>>
    PROVE  /\ AtRest => AtRest'
           /\ OnItsWay => OnItsWay'
           /\ Answered => Answered'
  <1>1. /\ Config' = Config /\ NewSessionState' = NewSessionState /\ Begun' = Begun
        /\ LocalSession' = LocalSession
        /\ LoginPairs' = LoginPairs /\ \A s : NewLogoutState(s)' = NewLogoutState(s)
        /\ \A status : Transaction(status)' = Transaction(status)
        /\ \A reference : Handoff(reference)' = Handoff(reference)
        /\ (Fits <=> Fits') /\ (NoQuery <=> NoQuery')
    BY SameValues
  <1>2. (Visitor <=> Visitor') /\ (NoPortalCookies <=> NoPortalCookies')
    BY <1>1 DEF Visitor, NoPortalCookies
  <1>3. (Started <=> Started') /\ (SessionHeld <=> SessionHeld') /\ (SignedIn <=> SignedIn')
    BY <1>1 DEF Started, SessionHeld, SignedIn
  <1>4. \A reference : CodeIssued(reference) <=> CodeIssued(reference)'
    BY <1>1 DEF CodeIssued
  <1>5. TransactionStored <=> TransactionStored'
    BY <1>1, <1>3 DEF TransactionStored
  <1>6. (LoginSent <=> LoginSent') /\ (ConsentAsked <=> ConsentAsked')
        /\ (ConsentGiven <=> ConsentGiven')
    BY <1>1, <1>2, <1>3, <1>5 DEF LoginSent, ConsentAsked, ConsentGiven
  <1>7. CodeSent <=> CodeSent'
    BY <1>3, <1>4 DEF CodeSent
  <1>8. (ExchangeSent <=> ExchangeSent') /\ (Exchanged <=> Exchanged')
    BY <1>1, <1>3, <1>4 DEF ExchangeSent, Exchanged
  <1>9. /\ (MeSent <=> MeSent') /\ (LogoutSent <=> LogoutSent')
        /\ (LogoutPageSent <=> LogoutPageSent') /\ (LogoutFormSent <=> LogoutFormSent')
    BY <1>1, <1>3 DEF MeSent, LogoutSent, LogoutPageSent, LogoutFormSent
  <1>10. Succeeded <=> Succeeded'
    BY DEF Succeeded
  <1>11. AtRest => AtRest'
    BY <1>2 DEF AtRest
  <1>12. OnItsWay => OnItsWay'
    BY <1>6, <1>7, <1>8, <1>9, <1>10 DEF OnItsWay
  <1>13. Answered => Answered'
    BY <1>1, <1>3, <1>10 DEF Answered
  <1> QED
    BY <1>11, <1>12, <1>13

\* The processes start before the journey does, or move nothing of it.
LEMMA StartStage ==
    ASSUME StageInv, StartFoundation \/ StartPortal
    PROVE  StageInv'
  <1>1. UNCHANGED <<world, clock, redis, starts, sessions, jar, mail, answer, faults>>
    BY DEF StartFoundation, StartPortal
  <1>2. portal' = portal \/ answer = NoAnswer
    BY DEF StartFoundation, StartPortal, StageInv
  <1>3. portal' = "serving" => portal_from_env(world.penv) # {}
    <2>1. CASE StartFoundation
      BY <2>1 DEF StartFoundation, StageInv
    <2>2. CASE StartPortal
      <3>1. PICK ports : portal' = portal_main(world.penv, ports)
        BY <2>2 DEF StartPortal
      <3>2. ConfigError(world.penv) # "serving"
        BY DEF ConfigError
      <3> QED
        BY <3>1, <3>2 DEF portal_main
    <2> QED
      BY <2>1, <2>2
  <1>4. Fits <=> Fits'
    BY <1>1, SameValues
  <1>5. (AtRest => AtRest') /\ (OnItsWay => OnItsWay') /\ (Answered => Answered')
    BY <1>1, Unmoved
  <1>6. jar' = [n \in CookieNames |-> jar'[n]]
    BY <1>1 DEF StageInv
  <1> QED
    BY <1>1, <1>2, <1>3, <1>4, <1>5, <1>6 DEF StageInv

\* After a fault the journey is not undisturbed any more.
LEMMA FaultStage ==
    ASSUME StageInv, FlowInv, Alter \/ Wait \/ \E family \in Family : Corrupt(family)
    PROVE  StageInv'
  <1>1. faults' = faults + 1 /\ UNCHANGED <<world, portal, jar, answer>>
    BY DEF Alter, Wait, Corrupt, hosts
  <1>2. faults' # 0
    BY <1>1 DEF FlowInv
  <1> QED
    BY <1>1, <1>2 DEF StageInv

\* What has to be shown of any other step.
LEMMA StageStep ==
    ASSUME StageInv, UNCHANGED <<world, portal, clock, faults>>,
           portal = "serving", answer' # NoAnswer,
           jar' = [n \in CookieNames |-> jar'[n]],
           faults = 0 /\ Fits => IF mail' # None THEN OnItsWay' ELSE Answered'
    PROVE  StageInv'
  <1>1. Fits' <=> Fits
    BY DEF Fits, Config
  <1> QED
    BY <1>1 DEF StageInv

\* The names of the cookies.
LEMMA CookieNamesDiffer ==
    /\ CookieNames = {AUTH_SESSION, LOGIN_CTX, PORTAL_SESSION, PORTAL_CSRF}
    /\ AUTH_SESSION \notin {LOGIN_CTX, PORTAL_SESSION, PORTAL_CSRF, "broken"}
    /\ LOGIN_CTX \notin {PORTAL_SESSION, PORTAL_CSRF, "broken"}
    /\ PORTAL_SESSION \notin {PORTAL_CSRF, "broken"} /\ PORTAL_CSRF # "broken"
  BY DEF CookieNames, AUTH_SESSION, LOGIN_CTX, PORTAL_SESSION, PORTAL_CSRF

\* Two sequences of one element make one of two.
LEMMA OneAndOne ==
    ASSUME NEW a, NEW b
    PROVE  <<>> \o <<a>> \o <<b>> = <<a, b>>
  <1> DEFINE s == <<a>> \o <<b>>
             t == <<a, b>>
  <1>1. s \in Seq({a, b}) /\ DOMAIN s = {1, 2} /\ s[1] = a /\ s[2] = b
    OBVIOUS
  <1>2. t \in Seq({a, b}) /\ DOMAIN t = {1, 2} /\ t[1] = a /\ t[2] = b
    OBVIOUS
  <1>3. s = [i \in {1, 2} |-> s[i]]
    BY <1>1
  <1>4. t = [i \in {1, 2} |-> t[i]]
    BY <1>2
  <1> HIDE DEF s, t
  <1>5. s = t
    BY <1>1, <1>2, <1>3, <1>4
  <1>6. <<>> \o <<a>> = <<a>>
    OBVIOUS
  <1> QED
    BY <1>5, <1>6 DEF s, t

\* What a browser sends to the two services.
LEMMA CookiesSent ==
    ASSUME NEW theJar
    PROVE  /\ theJar[AUTH_SESSION] = {} => FoundationCookies(theJar) = <<>>
           /\ \A x : theJar[AUTH_SESSION] = {x} =>
                 FoundationCookies(theJar) = <<<<<<AUTH_SESSION, x>>>>>>
           /\ \A x : theJar[LOGIN_CTX] = {x} /\ theJar[PORTAL_SESSION] = {}
                     /\ theJar[PORTAL_CSRF] = {} =>
                 PortalCookies(theJar) = <<<<<<LOGIN_CTX, x>>>>>>
           /\ \A x, y : theJar[LOGIN_CTX] = {} /\ theJar[PORTAL_SESSION] = {x}
                        /\ theJar[PORTAL_CSRF] = {y} =>
                 PortalCookies(theJar) = <<<<<<PORTAL_SESSION, x>>, <<PORTAL_CSRF, y>>>>>>
  <1>1. ASSUME NEW name
        PROVE  /\ theJar[name] = {} => Cookie(theJar, name) = <<>>
               /\ \A x : theJar[name] = {x} => Cookie(theJar, name) = <<<<name, x>>>>
    BY TheOnly DEF Cookie
  <1>2. \A pairs : pairs # <<>> => CookieHeader(pairs) = <<pairs>>
    BY DEF CookieHeader
  <1>3. CookieHeader(<<>>) = <<>>
    BY DEF CookieHeader
  <1>4. theJar[AUTH_SESSION] = {} => FoundationCookies(theJar) = <<>>
    BY <1>1, <1>3 DEF FoundationCookies
  <1>5. ASSUME NEW x, theJar[AUTH_SESSION] = {x}
        PROVE  FoundationCookies(theJar) = <<<<<<AUTH_SESSION, x>>>>>>
    <2>1. <<<<AUTH_SESSION, x>>>> # <<>>
      OBVIOUS
    <2> QED
      BY <1>1, <1>2, <1>5, <2>1 DEF FoundationCookies
  <1>6. ASSUME NEW x, theJar[LOGIN_CTX] = {x}, theJar[PORTAL_SESSION] = {},
               theJar[PORTAL_CSRF] = {}
        PROVE  PortalCookies(theJar) = <<<<<<LOGIN_CTX, x>>>>>>
    <2>1. <<<<LOGIN_CTX, x>>>> # <<>>
      OBVIOUS
    <2>2. <<<<LOGIN_CTX, x>>>> \o <<>> \o <<>> = <<<<LOGIN_CTX, x>>>>
      OBVIOUS
    <2> QED
      BY <1>1, <1>2, <1>6, <2>1, <2>2 DEF PortalCookies
  <1>7. ASSUME NEW x, NEW y, theJar[LOGIN_CTX] = {}, theJar[PORTAL_SESSION] = {x},
               theJar[PORTAL_CSRF] = {y}
        PROVE  PortalCookies(theJar) = <<<<<<PORTAL_SESSION, x>>, <<PORTAL_CSRF, y>>>>>>
    <2>1. <<<<PORTAL_SESSION, x>>, <<PORTAL_CSRF, y>>>> # <<>>
      OBVIOUS
    <2>2. <<>> \o <<<<PORTAL_SESSION, x>>>> \o <<<<PORTAL_CSRF, y>>>>
             = <<<<PORTAL_SESSION, x>>, <<PORTAL_CSRF, y>>>>
      BY OneAndOne
    <2>3. Cookie(theJar, LOGIN_CTX) \o Cookie(theJar, PORTAL_SESSION) \o Cookie(theJar, PORTAL_CSRF)
             = <<<<PORTAL_SESSION, x>>, <<PORTAL_CSRF, y>>>>
      BY <1>1, <1>7, <2>2
    <2> QED
      BY <1>2, <2>1, <2>3 DEF PortalCookies
  <1> QED
    BY <1>4, <1>5, <1>6, <1>7

\* What is known of an undisturbed journey while a message is on its way.
LEMMA Undisturbed ==
    ASSUME StageInv, FlowInv, mail # None, faults = 0, Fits
    PROVE  /\ answer # NoAnswer /\ portal = "serving" /\ OnItsWay
           /\ portal_from_env(world.penv) # {} /\ clock \in 0..(LuaMax - SessionTTL)
  <1>1. answer # NoAnswer
    BY DEF FlowInv
  <1>2. portal = "serving" /\ OnItsWay /\ portal_from_env(world.penv) # {}
    BY <1>1 DEF StageInv
  <1> QED
    BY <1>1, <1>2 DEF Fits

\* The portal starts a login.
LEMMA PortalLoginStage ==
    ASSUME StageInv, PortalLogin
    PROVE  StageInv'
  <1> DEFINE start == [state |-> random_reference(<<"state">>),
                       ctx |-> random_reference(<<"ctx">>),
                       verifier |-> random_reference(<<"verifier">>), path |-> PostLoginPath,
                       expires |-> clock + LoginStartTTL]
             four == <<<<"service_id", Config.service_id>>, <<"state", CreatedLoginStart(start).state>>,
                       <<"code_challenge", CreatedLoginStart(start).code_challenge>>,
                       <<"code_challenge_method", S256>>>>
             query == [auth_foundation_endpoint(Config.base_url) EXCEPT !.query = @ \o four].query
  <1>1. /\ portal = "serving" /\ answer = NoAnswer
        /\ answer' = [at |-> "portal_login", status |-> login_start_status]
        /\ UNCHANGED <<world, portal, clock, redis, sessions, faults>>
    BY DEF PortalLogin, hosts
  <1>2. \/ /\ login_start_status = "302"
           /\ starts' = cleanup_expired(starts) \cup {start}
           /\ jar' = [jar EXCEPT ![LOGIN_CTX] = {CreatedLoginStart(start).browser_context_reference}]
           /\ mail' = Mail("login", query, FoundationCookies(jar), <<>>)
        \/ login_start_status # "302" /\ UNCHANGED <<jar, mail>>
    BY DEF PortalLogin
  <1>3. start = Begun
    BY DEF Begun, State, Ctx, Verifier
  <1>4. /\ CreatedLoginStart(start).state = State
        /\ CreatedLoginStart(start).browser_context_reference = Ctx
        /\ CreatedLoginStart(start).code_challenge = PkceChallenge
    BY DEF CreatedLoginStart, State, Ctx, Verifier, PkceChallenge
  <1>5. query = LoginPairs
    <2>1. query = <<>> \o four
      BY DEF auth_foundation_endpoint, Url
    <2>2. <<>> \o four = four
      OBVIOUS
    <2>3. four = LoginPairs
      BY <1>4 DEF LoginPairs
    <2> QED
      BY <2>1, <2>2, <2>3
  <1> HIDE DEF start, four, query
  <1>6. answer' # NoAnswer
    BY <1>1 DEF NoAnswer
  <1>7. jar' = [n \in CookieNames |-> jar'[n]]
    BY <1>2 DEF StageInv
  <1>8. ASSUME faults = 0, Fits
        PROVE  mail' # None /\ OnItsWay'
    <2>1. AtRest /\ portal_from_env(world.penv) # {} /\ clock \in 0..(LuaMax - SessionTTL)
      <3>1. AtRest /\ portal_from_env(world.penv) # {}
        BY <1>1, <1>8 DEF StageInv
      <3> QED
        BY <1>8, <3>1 DEF Fits
    <2>2. cleanup_expired(starts) = {}
      BY <2>1 DEF AtRest, cleanup_expired
    <2>3. login_start_status = "302"
      <3>1. validate_post_login_path(PostLoginPath)
        BY DEF validate_post_login_path, PostLoginPath, Text, POST_LOGIN_PATH_MAX_BYTES
      <3>2. ~(Cardinality(cleanup_expired(starts)) >= Config.login_start_capacity)
        BY <2>1, <2>2, NobodyCounted, ConfigFits
      <3>3. ~(clock + LoginStartTTL > U64Max) /\ ~(clock < 0)
        <4>1. clock + LoginStartTTL <= U64Max /\ clock + LoginStartTTL \in 0..LuaMax
          BY <2>1, LifetimesFit
        <4> QED
          BY <2>1, <4>1, WidthAssumption, TTLAssumption
      <3>4. create_login_start_result = "Ok"
        BY <3>1, <3>2, <3>3 DEF create_login_start_result
      <3> QED
        BY <3>3, <3>4 DEF login_start_status, LocalStateError
    <2>4. /\ starts' = {Begun} /\ mail' = Mail("login", LoginPairs, FoundationCookies(jar), <<>>)
          /\ jar' = [jar EXCEPT ![LOGIN_CTX] = {Ctx}]
      BY <1>2, <1>3, <1>4, <1>5, <2>2, <2>3
    <2>5. /\ jar'[AUTH_SESSION] = jar[AUTH_SESSION] /\ jar'[LOGIN_CTX] = {Ctx}
          /\ jar'[PORTAL_SESSION] = {} /\ jar'[PORTAL_CSRF] = {}
      BY <2>1, <2>4, CookieNamesDiffer DEF StageInv, AtRest, NoPortalCookies
    <2>6. Begun' = Begun /\ LoginPairs' = LoginPairs /\ NewSessionState' = NewSessionState
      BY <1>1, SameValues
    <2>7. Visitor'
      BY <1>1, <2>1, <2>5, <2>6 DEF AtRest, Visitor
    <2>8. Started'
      BY <1>1, <2>1, <2>4, <2>5, <2>6 DEF AtRest, Started
    <2>9. FoundationCookies(jar') = FoundationCookies(jar)
      BY <2>5 DEF FoundationCookies, Cookie
    <2>10. LoginSent'
      BY <2>4, <2>6, <2>7, <2>8, <2>9 DEF LoginSent
    <2>11. mail' # None /\ mail'.at = "login"
      BY <2>4, MailParts
    <2>12. Succeeded'
      BY <1>1, <2>3 DEF Succeeded
    <2> QED
      BY <2>10, <2>11, <2>12 DEF OnItsWay
  <1> QED
    BY <1>1, <1>6, <1>7, <1>8, StageStep

\* The rows that an undisturbed journey writes are accepted by the scripts and
\* decoded: the common session,
LEMMA SessionFits ==
    ASSUME world \in Worlds, clock \in 0..(LuaMax - SessionTTL)
    PROVE  LET fields == Encode(NewSessionState) IN
           /\ LuaAccepts("session", Hash(fields))
           /\ Decode("session", fields) = {NewSessionState} /\ read_fields(Hash(fields)) = "Ok"
           /\ fields.internal_user_id.num = world.user
           /\ fields.authenticated_at.num = clock
           /\ fields.expires_at.num = clock + SessionTTL
           /\ NewSessionState.expires_at = clock + SessionTTL
  <1> DEFINE state == NewSessionState
  <1>1. /\ state = [f \in DOMAIN state |-> state[f]]
        /\ DOMAIN state = {"internal_user_id", "authenticated_at", "created_at", "expires_at"}
        /\ state.internal_user_id = world.user /\ state.authenticated_at = clock
        /\ state.created_at = clock /\ state.expires_at = clock + SessionTTL
    BY DEF NewSessionState
  <1> HIDE DEF state
  <1>2. DOMAIN state = Fields["session"] /\ "session" \in Family
    BY <1>1, FamilyNames DEF Fields, SESSION_FIELDS
  <1>3. clock \in 0..LuaMax /\ clock + SessionTTL \in 0..LuaMax
    BY LifetimesFit
  <1>4. \A f \in DOMAIN state \cap Times : state[f] \in 0..LuaMax
    BY <1>1, <1>3 DEF Times
  <1>5. state.internal_user_id \in (-I32Max - 1)..I32Max
    BY <1>1, WorldAssumption
  <1>6. "status" \notin DOMAIN state
    BY <1>1
  <1>7. /\ LuaAccepts("session", Hash(Encode(state)))
        /\ Decode("session", Encode(state)) = {state} /\ read_fields(Hash(Encode(state))) = "Ok"
    BY <1>1, <1>2, <1>4, <1>5, <1>6, RoundTrip
  <1>8. /\ Encode(state).internal_user_id = [num |-> world.user]
        /\ Encode(state).authenticated_at = [num |-> clock]
        /\ Encode(state).expires_at = [num |-> clock + SessionTTL]
    <2>1. ASSUME NEW f, f \in {"internal_user_id", "authenticated_at", "expires_at"}
          PROVE  Encode(state)[f] = [num |-> state[f]]
      <3>1. f \in DOMAIN state /\ f \in Times \cup {"internal_user_id"}
        BY <1>1, <2>1 DEF Times
      <3> QED
        BY <3>1, EncodedField
    <2>2. /\ Encode(state)["internal_user_id"] = [num |-> state["internal_user_id"]]
          /\ Encode(state)["authenticated_at"] = [num |-> state["authenticated_at"]]
          /\ Encode(state)["expires_at"] = [num |-> state["expires_at"]]
      BY <2>1
    <2>3. /\ state.internal_user_id = world.user /\ state.authenticated_at = clock
          /\ state.expires_at = clock + SessionTTL
      BY <1>1
    <2> QED
      BY <2>2, <2>3
  <1> QED
    BY <1>1, <1>7, <1>8 DEF state

\* the handoff,
LEMMA HandoffFits ==
    ASSUME world \in Worlds, clock \in 0..(LuaMax - SessionTTL), NEW reference
    PROVE  LET fields == Encode(Handoff(reference)) IN
           /\ LuaAccepts("handoff", Hash(fields)) /\ LuaArguments(fields)
           /\ Decode("handoff", fields) = {Handoff(reference)}
           /\ fields.status = [word |-> "unused"]
           /\ fields.service_id = [text |-> Config.service_id]
           /\ fields.code_challenge = [text |-> PkceChallenge]
           /\ fields.common_session_lookup = [lookup |-> reference]
           /\ fields.internal_user_id.num = world.user
           /\ fields.authenticated_at.num = clock
           /\ fields.expires_at.num = clock + HandoffTTL
           /\ Handoff(reference).expires_at = clock + HandoffTTL
           /\ DOMAIN fields = HANDOFF_FIELDS
  <1> DEFINE state == Handoff(reference)
  <1>0. [user |-> world.user, at |-> clock].user = world.user
        /\ [user |-> world.user, at |-> clock].at = clock
    OBVIOUS
  <1>1. /\ state = [f \in DOMAIN state |-> state[f]]
        /\ DOMAIN state = HANDOFF_FIELDS
        /\ state.internal_user_id = world.user /\ state.authenticated_at = clock
        /\ state.issued_at = clock /\ state.expires_at = clock + HandoffTTL
        /\ state.status = "unused" /\ state.service_id = Config.service_id
        /\ state.code_challenge = PkceChallenge /\ state.common_session_lookup = reference
    BY <1>0 DEF Handoff, NewHandoffState, HANDOFF_FIELDS
  <1> HIDE DEF state
  <1>2. DOMAIN state = Fields["handoff"] /\ "handoff" \in Family
    BY <1>1, FamilyNames DEF Fields
  <1>3. clock \in 0..LuaMax /\ clock + HandoffTTL \in 0..LuaMax
    BY LifetimesFit
  <1>4. \A f \in DOMAIN state \cap Times : state[f] \in 0..LuaMax
    BY <1>1, <1>3 DEF Times, HANDOFF_FIELDS
  <1>5. state.internal_user_id \in (-I32Max - 1)..I32Max
    BY <1>1, WorldAssumption
  <1>6. state.status \in Statuses("handoff")
    BY <1>1 DEF Statuses, usage_status
  <1>7. /\ LuaAccepts("handoff", Hash(Encode(state)))
        /\ \A f \in DOMAIN state : LuaFormat(f, Encode(state)[f])
        /\ Decode("handoff", Encode(state)) = {state}
    BY <1>1, <1>2, <1>4, <1>5, <1>6, RoundTrip
  <1>8. DOMAIN Encode(state) = DOMAIN state
    BY EncodedDomain
  <1>9. /\ Encode(state).status = [word |-> "unused"]
        /\ Encode(state).service_id = [text |-> Config.service_id]
        /\ Encode(state).code_challenge = [text |-> PkceChallenge]
        /\ Encode(state).common_session_lookup = [lookup |-> reference]
        /\ Encode(state).internal_user_id = [num |-> world.user]
        /\ Encode(state).authenticated_at = [num |-> clock]
        /\ Encode(state).expires_at = [num |-> clock + HandoffTTL]
    <2>1. {"status", "service_id", "code_challenge", "common_session_lookup", "internal_user_id",
           "authenticated_at", "expires_at"} \subseteq DOMAIN state
      BY <1>1 DEF HANDOFF_FIELDS
    <2>2. /\ "service_id" \in TextFields /\ "code_challenge" \in TextFields
          /\ "common_session_lookup" \in Lookups
          /\ {"internal_user_id", "authenticated_at", "expires_at"}
                \subseteq Times \cup {"internal_user_id"}
      BY DEF TextFields, Lookups, Times
    <2>3. ASSUME NEW f \in DOMAIN state
          PROVE  /\ f \in TextFields => Encode(state)[f] = [text |-> state[f]]
                 /\ f \in Times \cup {"internal_user_id"} => Encode(state)[f] = [num |-> state[f]]
                 /\ f \in Lookups => Encode(state)[f] = [lookup |-> state[f]]
                 /\ f = "status" => Encode(state)[f] = [word |-> state[f]]
      BY EncodedField
    <2>4. /\ Encode(state).status = [word |-> state.status]
          /\ Encode(state).service_id = [text |-> state.service_id]
          /\ Encode(state).code_challenge = [text |-> state.code_challenge]
          /\ Encode(state).common_session_lookup = [lookup |-> state.common_session_lookup]
      BY <2>1, <2>2, <2>3
    <2>5. /\ Encode(state).internal_user_id = [num |-> state.internal_user_id]
          /\ Encode(state).authenticated_at = [num |-> state.authenticated_at]
          /\ Encode(state).expires_at = [num |-> state.expires_at]
      BY <2>1, <2>2, <2>3
    <2> QED
      BY <1>1, <2>4, <2>5
  <1>10. LuaArguments(Encode(state))
    BY <1>7, <1>8, <1>9 DEF LuaArguments
  <1> QED
    BY <1>1, <1>7, <1>8, <1>9, <1>10 DEF state

\* the transaction,
LEMMA TransactionFits ==
    ASSUME clock \in 0..(LuaMax - SessionTTL), NEW status \in external_status
    PROVE  LET fields == Encode(Transaction(status)) IN
           /\ LuaAccepts("external", Hash(fields))
           /\ Decode("external", fields) = {Transaction(status)}
           /\ fields.status = [word |-> status]
           /\ fields.expires_at.num = clock + ExternalTTL
           /\ Transaction(status).expires_at = clock + ExternalTTL
           /\ Transaction(status).status = status
           /\ DOMAIN Transaction(status) = EXTERNAL_FIELDS
  <1> DEFINE state == Transaction(status)
  <1>1. /\ state = [f \in DOMAIN state |-> state[f]]
        /\ DOMAIN state = EXTERNAL_FIELDS
        /\ state.created_at = clock /\ state.expires_at = clock + ExternalTTL
        /\ state.status = status
    BY DEF Transaction, EXTERNAL_FIELDS
  <1> HIDE DEF state
  <1>2. DOMAIN state = Fields["external"] /\ "external" \in Family
    BY <1>1, FamilyNames DEF Fields
  <1>3. clock \in 0..LuaMax /\ clock + ExternalTTL \in 0..LuaMax
    BY LifetimesFit
  <1>4. \A f \in DOMAIN state \cap Times : state[f] \in 0..LuaMax
    BY <1>1, <1>3 DEF Times, EXTERNAL_FIELDS
  <1>5. "internal_user_id" \notin DOMAIN state
    BY <1>1 DEF EXTERNAL_FIELDS
  <1>6. state.status \in Statuses("external")
    BY <1>1 DEF Statuses
  <1>7. /\ LuaAccepts("external", Hash(Encode(state)))
        /\ Decode("external", Encode(state)) = {state}
    BY <1>1, <1>2, <1>4, <1>5, <1>6, RoundTrip
  <1>8. Encode(state).status = [word |-> status] /\ Encode(state).expires_at = [num |-> clock + ExternalTTL]
    <2>1. {"status", "expires_at"} \subseteq DOMAIN state /\ "expires_at" \in Times
      BY <1>1 DEF EXTERNAL_FIELDS, Times
    <2>3. ASSUME NEW f \in DOMAIN state
          PROVE  /\ f \in TextFields => Encode(state)[f] = [text |-> state[f]]
                 /\ f \in Times \cup {"internal_user_id"} => Encode(state)[f] = [num |-> state[f]]
                 /\ f \in Lookups => Encode(state)[f] = [lookup |-> state[f]]
                 /\ f = "status" => Encode(state)[f] = [word |-> state[f]]
      BY EncodedField
    <2> QED
      BY <1>1, <2>1, <2>3
  <1> QED
    BY <1>1, <1>7, <1>8 DEF state

\* and the transaction of the logout.
LEMMA LogoutFits ==
    ASSUME clock \in 0..(LuaMax - SessionTTL), NEW service_id
    PROVE  LET fields == Encode(NewLogoutState(service_id)) IN
           /\ LuaAccepts("logout", Hash(fields))
           /\ fields.status = [word |-> "unused"]
           /\ fields.csrf_lookup = [lookup |-> CsrfToken]
           /\ fields.logout_return_uri = [text |-> world.service.logout_return_uri]
           /\ fields.expires_at.num = clock + LogoutTTL
           /\ NewLogoutState(service_id).expires_at = clock + LogoutTTL
  <1> DEFINE state == NewLogoutState(service_id)
  <1>1. /\ state = [f \in DOMAIN state |-> state[f]]
        /\ DOMAIN state = LOGOUT_FIELDS
        /\ state.created_at = clock /\ state.expires_at = clock + LogoutTTL
        /\ state.status = "unused" /\ state.csrf_lookup = CsrfToken
        /\ state.logout_return_uri = world.service.logout_return_uri
    BY DEF NewLogoutState, LOGOUT_FIELDS
  <1> HIDE DEF state
  <1>2. DOMAIN state = Fields["logout"] /\ "logout" \in Family
    BY <1>1, FamilyNames DEF Fields
  <1>3. clock \in 0..LuaMax /\ clock + LogoutTTL \in 0..LuaMax
    BY LifetimesFit
  <1>4. \A f \in DOMAIN state \cap Times : state[f] \in 0..LuaMax
    BY <1>1, <1>3 DEF Times, LOGOUT_FIELDS
  <1>5. "internal_user_id" \notin DOMAIN state
    BY <1>1 DEF LOGOUT_FIELDS
  <1>6. state.status \in Statuses("logout")
    BY <1>1 DEF Statuses, usage_status
  <1>7. LuaAccepts("logout", Hash(Encode(state)))
    BY <1>1, <1>2, <1>4, <1>5, <1>6, RoundTrip
  <1>8. /\ Encode(state).status = [word |-> "unused"]
        /\ Encode(state).csrf_lookup = [lookup |-> CsrfToken]
        /\ Encode(state).logout_return_uri = [text |-> world.service.logout_return_uri]
        /\ Encode(state).expires_at = [num |-> clock + LogoutTTL]
    <2>1. /\ {"status", "csrf_lookup", "logout_return_uri", "expires_at"} \subseteq DOMAIN state
          /\ "expires_at" \in Times /\ "csrf_lookup" \in Lookups /\ "logout_return_uri" \in TextFields
      BY <1>1 DEF LOGOUT_FIELDS, Times, Lookups, TextFields
    <2>3. ASSUME NEW f \in DOMAIN state
          PROVE  /\ f \in TextFields => Encode(state)[f] = [text |-> state[f]]
                 /\ f \in Times \cup {"internal_user_id"} => Encode(state)[f] = [num |-> state[f]]
                 /\ f \in Lookups => Encode(state)[f] = [lookup |-> state[f]]
                 /\ f = "status" => Encode(state)[f] = [word |-> state[f]]
      BY EncodedField
    <2> QED
      BY <1>1, <2>1, <2>3
  <1> QED
    BY <1>1, <1>7, <1>8 DEF state

\* A key is found by the reference that it was created with.
LEMMA AtNewKey ==
    ASSUME NEW family, NEW reference, NEW state
    PROVE  /\ redis[family] = None => At(family, reference) = None
           /\ redis[family] = NewKey(reference, state) =>
                 At(family, reference) = Hash(Encode(state))
  <1>1. NewKey(reference, state) # None
    BY AbsentAssumption DEF NewKey
  <1>2. NewKey(reference, state).key = reference /\ NewKey(reference, state).value = Hash(Encode(state))
    BY NewKeyParts
  <1> QED
    BY <1>1, <1>2 DEF At

\* The foundation accepts the query that the portal's login writes.
LEMMA LoginPairsFit ==
    ASSUME portal_from_env(world.penv) # {}
    PROVE  /\ Deserializes(LoginPairs, LoginQuery) /\ login_input_is_valid(LoginPairs)
           /\ Field(LoginPairs, "service_id") = Config.service_id
           /\ Field(LoginPairs, "state") = State
           /\ Field(LoginPairs, "code_challenge") = PkceChallenge
  <1>1. /\ Once(LoginPairs, "service_id") /\ Once(LoginPairs, "state")
        /\ Once(LoginPairs, "code_challenge") /\ Once(LoginPairs, "code_challenge_method")
        /\ Field(LoginPairs, "service_id") = Config.service_id
        /\ Field(LoginPairs, "state") = State
        /\ Field(LoginPairs, "code_challenge") = PkceChallenge
        /\ Field(LoginPairs, "code_challenge_method") = S256
    BY FourPairs DEF LoginPairs
  <1>2. validate_service_id(Config.service_id)
    BY ConfigFits
  <1>3. validate_nonempty_max_bytes(State, SERVICE_STATE_MAX_BYTES)
    BY ReferencesFit DEF State
  <1>4. validate_fixed_reference_value(PkceChallenge)
    BY ReferencesFit DEF PkceChallenge, sha256_base64url
  <1> QED
    BY <1>1, <1>2, <1>3, <1>4 DEF Deserializes, LoginQuery, login_input_is_valid

\* The foundation finds the service, its URIs and its person in order.
LEMMA ServiceFits ==
    ASSUME Fits
    PROVE  /\ ServiceIsUsable(Config.service_id) /\ world.user_enabled
           /\ valid_callback_url(world.service.login_callback_uri) # {}
           /\ valid_callback_url(world.service.logout_return_uri) # {}
           /\ clock \in 0..(LuaMax - SessionTTL)
  BY DEF Fits, ServiceIsUsable, valid_callback_url

\* A transaction can be stored where there is none.
LEMMA GoogleLoginFits ==
    ASSUME clock \in 0..(LuaMax - SessionTTL), redis["external"] = None, NEW q
    PROVE  start_google_login(q) = "google"
  <1>1. At("external", OauthState) = None
    BY AtNewKey
  <1>2. /\ checked_expires_at(clock, ExternalTTL) = {clock + ExternalTTL}
        /\ IsUnexpired(clock, clock + ExternalTTL)
    BY LifetimesFit
  <1>3. NewExternalState(q, clock + ExternalTTL).expires_at = clock + ExternalTTL
    BY DEF NewExternalState
  <1>4. WriteState(None, NewExternalState(q, clock + ExternalTTL), clock) # {}
    BY <1>2, <1>3 DEF WriteState, write_state
  <1> QED
    BY <1>1, <1>2, <1>4 DEF start_google_login

\* A returning browser's session answers the login.
LEMMA SsoLoginFits ==
    ASSUME world \in Worlds, Fits, NEW q,
           Field(q, "service_id") = Config.service_id, Field(q, "code_challenge") = PkceChallenge,
           redis["session"] = NewKey(ReturningReference, NewSessionState), redis["handoff"] = None
    PROVE  /\ sso_login(q, ReturningReference) = "sso"
           /\ SsoHandoffState(q, ReturningReference) = Handoff(ReturningReference)
  <1> DEFINE fields == Encode(NewSessionState)
             handoff == Encode(Handoff(ReturningReference))
  <1>1. clock \in 0..(LuaMax - SessionTTL) /\ world.user_enabled
        /\ valid_callback_url(world.service.login_callback_uri) # {}
    BY ServiceFits
  <1>2. /\ LuaAccepts("session", Hash(fields)) /\ Decode("session", fields) # {}
        /\ read_fields(Hash(fields)) = "Ok"
        /\ fields.internal_user_id.num = world.user /\ fields.authenticated_at.num = clock
        /\ fields.expires_at.num = clock + SessionTTL
    BY <1>1, SessionFits
  <1>3. /\ LuaArguments(handoff) /\ handoff.common_session_lookup = [lookup |-> ReturningReference]
        /\ handoff.internal_user_id.num = world.user /\ handoff.authenticated_at.num = clock
        /\ handoff.expires_at.num = clock + HandoffTTL
    BY <1>1, HandoffFits
  <1>4. /\ IsUnexpired(clock, clock + SessionTTL) /\ ~(clock >= clock + SessionTTL)
        /\ checked_expires_at(clock, HandoffTTL) # {} /\ ~(clock + HandoffTTL <= clock)
    <2>1. /\ IsUnexpired(clock, clock + SessionTTL)
          /\ clock < clock + SessionTTL /\ clock + SessionTTL \in 0..LuaMax
      BY <1>1, LifetimesFit
    <2>2. checked_expires_at(clock, HandoffTTL) = {clock + HandoffTTL}
          /\ ~(clock + HandoffTTL <= clock)
      BY <1>1, LifetimesFit
    <2> QED
      BY <1>1, <2>1, <2>2, WidthAssumption
  <1>5. At("session", ReturningReference) = Hash(fields) /\ At("handoff", HandoffCode) = None
    BY AtNewKey
  <1>6. Hash(fields) # None /\ Hash(fields).fields = fields
    BY HashPresent
  <1> HIDE DEF fields, handoff
  <1>7. ReadState("session", Hash(fields), clock) = "Ok"
    BY <1>2, <1>4, <1>6 DEF ReadState
  <1>8. SsoHandoffState(q, ReturningReference) = Handoff(ReturningReference)
    BY <1>2, <1>5, <1>6 DEF SsoHandoffState, Handoff
  <1>9. issue_script(Hash(fields), None, ReturningReference, handoff, clock) = 0
    BY <1>2, <1>3, <1>4, <1>6 DEF issue_script, SameLogin
  <1>10. script_error(0) = "Ok"
    BY DEF script_error
  <1>11. sso_login(q, ReturningReference) = "sso"
    BY <1>1, <1>2, <1>4, <1>5, <1>6, <1>7, <1>8, <1>9, <1>10 DEF sso_login, handoff
  <1> QED
    BY <1>8, <1>11

\* The outcome of a login that goes on.
LEMMA LoginGoing ==
    ASSUME StoreInv, FoundationLogin
    PROVE  /\ login_result(mail.pairs, SessionCookie) = "google" => LoginToGoogle
           /\ login_result(mail.pairs, SessionCookie) = "sso" => LoginBySession
  <1>1. LoginToGoogle \/ LoginBySession \/ LoginRefused
    BY LoginEffect
  <1>2. login_result(mail.pairs, SessionCookie) = "google" =>
           answer'.status = "302" /\ mail'.at = "google"
    BY MailParts DEF FoundationLogin, SessionCookie, Answer
  <1>3. login_result(mail.pairs, SessionCookie) = "sso" =>
           answer'.status = "302" /\ mail'.at = "portal_callback"
    BY MailParts DEF FoundationLogin, SessionCookie, Answer
  <1>4. LoginToGoogle => mail'.at = "google"
    BY MailParts DEF LoginToGoogle
  <1>5. LoginBySession => login_result(mail.pairs, SessionCookie) = "sso"
    BY DEF LoginBySession
  <1>6. LoginRefused => answer'.status \in {"400", "403", "503"}
    BY DEF LoginRefused
  <1> QED
    BY <1>1, <1>2, <1>3, <1>4, <1>5, <1>6

\* A new browser is sent to Google, and a returning one back with a code.
LEMMA LoginStage ==
    ASSUME StoreInv, world \in Worlds, FlowInv, StageInv, FoundationLogin
    PROVE  StageInv'
  <1>1. /\ mail # None /\ mail.at = "login"
        /\ UNCHANGED <<world, foundation, portal, clock, starts, sessions, jar,
                       authenticated, faults>>
        /\ LoginToGoogle \/ LoginBySession \/ LoginRefused
    BY LoginEffect
  <1>2. answer' # NoAnswer
    BY <1>1, AnswerGiven DEF LoginToGoogle, LoginBySession, LoginRefused
  <1>3. jar' = [n \in CookieNames |-> jar'[n]] /\ portal = "serving"
    BY <1>1 DEF StageInv, FlowInv
  <1>4. ASSUME faults = 0, Fits
        PROVE  mail' # None /\ OnItsWay'
    <2>1. /\ answer # NoAnswer /\ OnItsWay
          /\ portal_from_env(world.penv) # {} /\ clock \in 0..(LuaMax - SessionTTL)
      BY <1>1, <1>4, Undisturbed
    <2>2. LoginSent
      BY <1>1, <2>1 DEF OnItsWay
    <2>3. mail = Mail("login", LoginPairs, FoundationCookies(jar), <<>>) /\ Visitor /\ Started
      BY <2>2 DEF LoginSent
    <2>4. mail.pairs = LoginPairs /\ SessionCookie = request_cookie(FoundationCookies(jar), AUTH_SESSION)
      BY <2>3, MailParts DEF SessionCookie
    <2>5. /\ Deserializes(LoginPairs, LoginQuery) /\ login_input_is_valid(LoginPairs)
          /\ Field(LoginPairs, "service_id") = Config.service_id
          /\ Field(LoginPairs, "state") = State
          /\ Field(LoginPairs, "code_challenge") = PkceChallenge
      BY <2>1, LoginPairsFit
    <2>6. ServiceIsUsable(Config.service_id)
      BY <1>4, ServiceFits
    <2>7. unix_seconds(clock) # {}
      BY <2>1, LifetimesFit
    <2>8. /\ Config' = Config /\ NewSessionState' = NewSessionState /\ Begun' = Begun
          /\ Transaction("waiting")' = Transaction("waiting")
          /\ Handoff(ReturningReference)' = Handoff(ReturningReference)
      BY <1>1, SameValues
    <2>9. Started'
      BY <1>1, <2>3, <2>8 DEF Started
    <2>10. CASE jar[AUTH_SESSION] = {} /\ \A f \in Family : redis[f] = None
      <3>1. SessionCookie = {}
        BY <2>4, <2>10, CookiesSent, NoCookies
      <3>2. start_google_login(LoginPairs) = "google"
        BY <2>1, <2>10, FamilyNames, GoogleLoginFits
      <3>3. login_result(mail.pairs, SessionCookie) = "google"
        BY <2>4, <2>5, <2>6, <2>7, <3>1, <3>2 DEF login_result
      <3>4. LoginToGoogle
        BY <3>3, LoginGoing
      <3>5. NewExternalState(LoginPairs, clock + ExternalTTL) = Transaction("waiting")
        BY <2>5 DEF NewExternalState, Transaction
      <3>6. redis'["external"] = NewKey(OauthState, Transaction("waiting"))
        BY <2>4, <3>4, <3>5 DEF LoginToGoogle
      <3>7. \A f \in Family \ {"external"} : redis'[f] = None
        BY <2>10, <3>4, FamilyNames DEF LoginToGoogle, Kept, Same
      <3>8. TransactionStored'
        BY <1>1, <2>8, <2>9, <2>10, <3>6, <3>7 DEF TransactionStored
      <3>9. mail' = Mail("google", <<<<"state", OauthState>>>>, <<>>, <<>>) /\ Succeeded'
        BY <3>4 DEF LoginToGoogle, Succeeded
      <3>10. ConsentAsked'
        BY <3>8, <3>9 DEF ConsentAsked
      <3>11. mail' # None /\ mail'.at = "google"
        BY <3>9, MailParts
      <3> QED
        BY <3>9, <3>10, <3>11 DEF OnItsWay
    <2>11. CASE /\ jar[AUTH_SESSION] = {ReturningReference}
                /\ redis["session"] = NewKey(ReturningReference, NewSessionState)
                /\ \A f \in Family \ {"session"} : redis[f] = None
      <3>1. SessionCookie = {ReturningReference} /\ The(SessionCookie) = ReturningReference
        <4>1. FoundationCookies(jar) = <<<<<<AUTH_SESSION, ReturningReference>>>>>>
          BY <2>11, CookiesSent
        <4> QED
          BY <2>4, <4>1, OneCookie, CookieNamesDiffer, TheOnly
      <3>2. validate_fixed_reference_value(ReturningReference)
        BY ReferencesFit DEF ReturningReference
      <3>3. /\ sso_login(LoginPairs, ReturningReference) = "sso"
            /\ SsoHandoffState(LoginPairs, ReturningReference) = Handoff(ReturningReference)
        BY <1>4, <2>5, <2>11, FamilyNames, SsoLoginFits
      <3>4. login_result(mail.pairs, SessionCookie) = "sso"
        BY <2>4, <2>5, <2>6, <2>7, <3>1, <3>2, <3>3 DEF login_result
      <3>5. LoginBySession
        BY <3>4, LoginGoing
      <3>6. /\ redis'["handoff"] = NewKey(HandoffCode, Handoff(ReturningReference))
            /\ redis'["session"] = NewKey(ReturningReference, NewSessionState)
        BY <2>4, <2>11, <3>1, <3>3, <3>5 DEF LoginBySession, Same
      <3>7. CodeIssued(ReturningReference)'
        BY <1>1, <2>8, <2>11, <3>6 DEF CodeIssued
      <3>8. mail' = Mail("portal_callback",
                      SsoRedirect(The(world'.service.login_callback_uri.url), HandoffCode, State),
                      PortalCookies(jar'), <<>>)
        BY <1>1, <2>4, <2>5, <3>5 DEF LoginBySession
      <3>9. Succeeded'
        BY <3>5 DEF LoginBySession, Succeeded
      <3>10. CodeSent'
        BY <2>9, <3>7, <3>8, ReturningIsNotNew DEF CodeSent, References
      <3>11. mail' # None /\ mail'.at = "portal_callback"
        BY <3>8, MailParts
      <3> QED
        BY <3>9, <3>10, <3>11 DEF OnItsWay
    <2> QED
      BY <2>3, <2>10, <2>11 DEF Visitor
  <1> QED
    BY <1>1, <1>2, <1>3, <1>4, StageStep

\* Google sends the browser back with the state that it was sent.
LEMMA ConsentStage ==
    ASSUME FlowInv, StageInv, GoogleConsent
    PROVE  StageInv'
  <1>1. /\ mail # None /\ mail.at = "google"
        /\ answer' = [at |-> "google", status |-> "302"]
        /\ mail' = Mail("google_callback",
              <<<<"code", world.google_code>>, <<"state", Field(mail.pairs, "state")>>>>, <<>>, <<>>)
        /\ UNCHANGED <<world, portal, clock, redis, starts, sessions, jar, faults>>
    BY DEF GoogleConsent, hosts, Answer
  <1>2. answer' # NoAnswer
    BY <1>1, AnswerGiven
  <1>3. jar' = [n \in CookieNames |-> jar'[n]] /\ portal = "serving"
    BY <1>1 DEF StageInv, FlowInv
  <1>4. ASSUME faults = 0, Fits
        PROVE  mail' # None /\ OnItsWay'
    <2>1. ConsentAsked
      BY <1>1, <1>4, Undisturbed DEF OnItsWay
    <2>2. mail = Mail("google", <<<<"state", OauthState>>>>, <<>>, <<>>) /\ TransactionStored
      BY <2>1 DEF ConsentAsked
    <2>3. Field(mail.pairs, "state") = OauthState
      BY <2>2, MailParts, OnePair
    <2>4. Begun' = Begun /\ Transaction("waiting")' = Transaction("waiting")
      BY <1>1, SameValues
    <2>5. TransactionStored'
      BY <1>1, <2>2, <2>4 DEF TransactionStored, Started
    <2>6. ConsentGiven'
      BY <1>1, <2>3, <2>5 DEF ConsentGiven
    <2>7. mail' # None /\ mail'.at = "google_callback"
      BY <1>1, MailParts
    <2>8. Succeeded'
      BY <1>1 DEF Succeeded
    <2> QED
      BY <2>6, <2>7, <2>8 DEF OnItsWay
  <1> QED
    BY <1>1, <1>2, <1>3, <1>4, StageStep

\* The claim of a waiting transaction answers the transaction as it is being
\* processed.
LEMMA ClaimFits ==
    ASSUME clock \in 0..(LuaMax - SessionTTL)
    PROVE  LET value == Hash(Encode(Transaction("waiting"))) IN
           /\ claim_script(value, clock) = 0
           /\ decode_claim(claim_reply(value.fields)) = {Transaction("processing")}
  <1> DEFINE fields == Encode(Transaction("waiting"))
             others == Encode(Transaction("processing"))
             reply == claim_reply(fields)
  <1>1. /\ LuaAccepts("external", Hash(fields)) /\ fields.status = [word |-> "waiting"]
        /\ fields.expires_at.num = clock + ExternalTTL
    BY TransactionFits DEF external_status
  <1>2. /\ Decode("external", others) = {Transaction("processing")}
        /\ others.status = [word |-> "processing"]
    BY TransactionFits DEF external_status
  <1>3. Hash(fields) # None /\ Hash(fields).fields = fields
    BY HashPresent
  <1>4. /\ fields = [f \in EXTERNAL_FIELDS |-> fields[f]] /\ others = [f \in EXTERNAL_FIELDS |-> others[f]]
        /\ \A f \in EXTERNAL_FIELDS \ {"status"} : others[f] = fields[f]
    <2>1. /\ DOMAIN Transaction("waiting") = EXTERNAL_FIELDS
          /\ DOMAIN Transaction("processing") = EXTERNAL_FIELDS
      BY TransactionFits DEF external_status
    <2>2. \A f \in EXTERNAL_FIELDS \ {"status"} : Transaction("waiting")[f] = Transaction("processing")[f]
      BY DEF Transaction, EXTERNAL_FIELDS
    <2> QED
      BY <2>1, <2>2 DEF Encode
  <1> HIDE DEF fields, others
  <1>5. ~(clock >= clock + ExternalTTL)
    <2>1. clock < clock + ExternalTTL /\ clock + ExternalTTL \in 0..LuaMax
      BY LifetimesFit
    <2> QED
      BY <2>1, WidthAssumption, TTLAssumption
  <1>6. claim_script(Hash(fields), clock) = 0
    <2>1. [word |-> "waiting"] # [word |-> "processing"]
      BY WordsDiffer
    <2> QED
      BY <1>1, <1>3, <1>5, <2>1 DEF claim_script
  <1>7. /\ reply[1] = fields.service_id /\ reply[2] = fields.service_state
        /\ reply[3] = fields.handoff_code_challenge /\ reply[4] = fields.provider
        /\ reply[5] = fields.provider_verification_data /\ reply[6] = fields.created_at
        /\ reply[7] = fields.expires_at /\ reply[8] = [word |-> "processing"]
    BY DEF claim_reply
  <1> HIDE DEF reply
  <1> DEFINE decoded == [service_id |-> reply[1], service_state |-> reply[2],
            handoff_code_challenge |-> reply[3], provider |-> reply[4],
            provider_verification_data |-> reply[5], created_at |-> reply[6],
            expires_at |-> reply[7], status |-> reply[8]]
  <1>8. decoded = [f \in EXTERNAL_FIELDS |-> decoded[f]]
    BY DEF EXTERNAL_FIELDS
  <1>9. \A f \in EXTERNAL_FIELDS : decoded[f] = others[f]
    BY <1>2, <1>4, <1>7 DEF EXTERNAL_FIELDS
  <1>10. decode_claim(reply) = Decode("external", decoded)
    BY DEF decode_claim
  <1> HIDE DEF decoded
  <1>11. decoded = others
    BY <1>4, <1>8, <1>9
  <1> QED
    BY <1>2, <1>3, <1>6, <1>10, <1>11 DEF fields, reply

\* Google's answer names a person.
LEMMA GoogleFits ==
    ASSUME Fits
    PROVE  /\ GoogleUserInfo(world.google_user_info) # {}
           /\ normalize_google_user_info(world.google_user_info) # {}
  <1> DEFINE info == world.google_user_info
  <1>1. PICK id \in info.id : id.bytes \in 1..255
    BY DEF Fits
  <1> HIDE DEF info
  <1>2. GoogleUserInfo(info) # {}
    BY <1>1 DEF GoogleUserInfo
  <1> DEFINE identity == [provider |-> Google, subject |-> id, email |-> NonEmpty(info.email),
                          email_verification |-> EmailVerification(info.verified_email),
                          display_name |-> NonBlank(info.name), picture_url |-> NonEmpty(info.picture)]
  <1>3. identity.provider = Google /\ identity.subject = id
    OBVIOUS
  <1>4. identity \in normalize_google_user_info(info) <=> identity_is_valid(identity)
    BY <1>1 DEF normalize_google_user_info
  <1> HIDE DEF identity
  <1>5. Google.bytes = 6
    BY DEF Google, Plain, Text
  <1>6. identity_is_valid(identity)
    BY <1>1, <1>3, <1>5 DEF identity_is_valid, validate_nonempty_max_bytes, PROVIDER_MAX_BYTES,
       SUBJECT_MAX_BYTES
  <1> QED
    BY <1>2, <1>4, <1>6 DEF info

\* A claimed transaction becomes a common session and a handoff.
LEMMA ClaimedFits ==
    ASSUME world \in Worlds, Fits, redis["session"] = None, redis["handoff"] = None
    PROVE  /\ claimed_result(Transaction("processing")) = "302"
           /\ CallbackHandoff(Transaction("processing")) = Handoff(SessionReference)
           /\ Transaction("processing").service_state = State
  <1> DEFINE txn == Transaction("processing")
             session == Encode(NewSessionState)
             handoff == Encode(Handoff(SessionReference))
  <1>1. /\ ServiceIsUsable(Config.service_id) /\ world.user_enabled
        /\ valid_callback_url(world.service.login_callback_uri) # {}
        /\ clock \in 0..(LuaMax - SessionTTL)
    BY ServiceFits
  <1>2. /\ txn.service_id = Config.service_id /\ txn.service_state = State
        /\ txn.handoff_code_challenge = PkceChallenge
    BY DEF Transaction
  <1> HIDE DEF txn
  <1>3. CallbackHandoff(txn) = Handoff(SessionReference)
    BY <1>2 DEF CallbackHandoff, Handoff
  <1>4. /\ unix_seconds(clock) # {} /\ checked_expires_at(clock, SessionTTL) # {}
        /\ checked_expires_at(clock, HandoffTTL) # {}
        /\ ~(clock + SessionTTL <= clock) /\ ~(clock + HandoffTTL <= clock)
    <2>1. /\ unix_seconds(clock) = {clock} /\ checked_expires_at(clock, SessionTTL) = {clock + SessionTTL}
          /\ ~(clock + SessionTTL <= clock)
      BY <1>1, LifetimesFit
    <2>2. checked_expires_at(clock, HandoffTTL) = {clock + HandoffTTL} /\ ~(clock + HandoffTTL <= clock)
      BY <1>1, LifetimesFit
    <2> QED
      BY <2>1, <2>2
  <1>5. /\ LuaAccepts("session", Hash(session)) /\ session.internal_user_id.num = world.user
        /\ session.authenticated_at.num = clock /\ session.expires_at.num = clock + SessionTTL
    BY <1>1, SessionFits
  <1>6. /\ LuaArguments(handoff) /\ handoff.common_session_lookup = [lookup |-> SessionReference]
        /\ handoff.internal_user_id.num = world.user /\ handoff.authenticated_at.num = clock
        /\ handoff.expires_at.num = clock + HandoffTTL
    BY <1>1, HandoffFits
  <1>7. At("session", SessionReference) = None /\ At("handoff", HandoffCode) = None
    BY AtNewKey
  <1> HIDE DEF session, handoff
  <1>8. create_script(None, None, SessionReference, session, handoff, clock) = 0
    BY <1>4, <1>5, <1>6 DEF create_script, SameLogin
  <1>9. claimed_result(txn) = "302"
    BY <1>1, <1>2, <1>3, <1>4, <1>7, <1>8, GoogleFits DEF claimed_result, session, handoff
  <1> QED
    BY <1>2, <1>3, <1>9 DEF txn

\* The code of Google's callback, which fits, is accepted as an OAuth code.
LEMMA CodeFits ==
    ASSUME Fits
    PROVE  validate_nonempty_max_bytes(world.google_code, OAUTH_CODE_MAX_BYTES)
  BY DEF Fits, validate_nonempty_max_bytes, OAUTH_CODE_MAX_BYTES

\* Google's callback makes the session and the code and sends the browser back.
LEMMA CallbackStage ==
    ASSUME StoreInv, world \in Worlds, FlowInv, StageInv, GoogleAuthCallback
    PROVE  StageInv'
  <1> DEFINE valid == Deserializes(mail.pairs, CallbackQuery) /\ callback_input_is_valid(mail.pairs)
             code == claim_script(CallbackValue, clock)
             decoded == IF code = 0 THEN CallbackTxns ELSE {}
  <1>1. /\ mail # None /\ mail.at = "google_callback"
        /\ UNCHANGED <<world, foundation, portal, clock, starts, sessions, faults>>
        /\ CallbackGranted \/ CallbackRefused
    BY CallbackEffect
  <1>2. valid /\ claim_external_callback(code, decoded) = "302" => answer'.status = "302"
    BY DEF GoogleAuthCallback, Answer, CallbackValue, CallbackTxns
  <1> HIDE DEF valid, code, decoded
  <1>3. answer' # NoAnswer
    BY <1>1, AnswerGiven DEF CallbackGranted, CallbackRefused
  <1>4. jar' = [n \in CookieNames |-> jar'[n]] /\ portal = "serving"
    BY <1>1 DEF StageInv, FlowInv, CallbackGranted, CallbackRefused
  <1>5. ASSUME faults = 0, Fits
        PROVE  mail' # None /\ OnItsWay'
    <2>1. OnItsWay /\ portal_from_env(world.penv) # {} /\ clock \in 0..(LuaMax - SessionTTL)
      BY <1>1, <1>5, Undisturbed
    <2>2. /\ mail = Mail("google_callback",
                <<<<"code", world.google_code>>, <<"state", OauthState>>>>, <<>>, <<>>)
          /\ TransactionStored
      BY <1>1, <2>1 DEF OnItsWay, ConsentGiven
    <2>3. /\ Once(mail.pairs, "code") /\ Once(mail.pairs, "state")
          /\ Field(mail.pairs, "code") = world.google_code /\ Field(mail.pairs, "state") = OauthState
      <3>1. mail.pairs = <<<<"code", world.google_code>>, <<"state", OauthState>>>>
        BY <2>2, MailParts
      <3> QED
        BY <3>1, TwoPairs
    <2>4. valid
      <3>1. validate_fixed_reference_value(OauthState)
        BY ReferencesFit DEF OauthState
      <3>2. validate_nonempty_max_bytes(world.google_code, OAUTH_CODE_MAX_BYTES)
        BY <1>5, CodeFits
      <3> QED
        BY <2>3, <3>1, <3>2 DEF valid, Deserializes, CallbackQuery, callback_input_is_valid
    <2>5. CallbackValue = Hash(Encode(Transaction("waiting")))
      BY <2>2, <2>3, AtNewKey DEF CallbackValue, TransactionStored
    <2>6. code = 0 /\ CallbackTxns = {Transaction("processing")}
      BY <2>1, <2>5, ClaimFits DEF code, CallbackTxns
    <2>7. decoded # {} /\ The(CallbackTxns) = Transaction("processing")
          /\ The(decoded) = Transaction("processing")
      BY <2>6, TheOnly DEF decoded
    <2>8. /\ claimed_result(Transaction("processing")) = "302"
          /\ CallbackHandoff(Transaction("processing")) = Handoff(SessionReference)
          /\ Transaction("processing").service_state = State
      <3>1. redis["session"] = None /\ redis["handoff"] = None
        BY <2>2, FamilyNames DEF TransactionStored
      <3> QED
        BY <1>5, <3>1, ClaimedFits
    <2>9. claim_external_callback(code, decoded) = "302"
      BY <2>6, <2>7, <2>8 DEF claim_external_callback, script_error
    <2>10. CallbackGranted
      BY <1>1, <1>2, <2>4, <2>9 DEF CallbackRefused
    <2>11. /\ answer' = [at |-> "google_callback", status |-> "302"]
           /\ mail' = Mail("portal_callback",
                 GoogleRedirect(The(world.service.login_callback_uri.url), HandoffCode, State),
                 PortalCookies(jar), <<>>)
           /\ redis'["session"] = NewKey(SessionReference, NewSessionState)
           /\ redis'["handoff"] = NewKey(HandoffCode, Handoff(SessionReference))
           /\ jar' = [jar EXCEPT ![AUTH_SESSION] = {SessionReference}]
      BY <2>7, <2>8, <2>10 DEF CallbackGranted
    <2>12. /\ jar'[AUTH_SESSION] = {SessionReference} /\ jar'[LOGIN_CTX] = jar[LOGIN_CTX]
           /\ jar'[PORTAL_SESSION] = jar[PORTAL_SESSION] /\ jar'[PORTAL_CSRF] = jar[PORTAL_CSRF]
      BY <2>11, CookieNamesDiffer DEF StageInv
    <2>13. PortalCookies(jar') = PortalCookies(jar)
      BY <2>12 DEF PortalCookies, Cookie
    <2>14. Begun' = Begun /\ NewSessionState' = NewSessionState
           /\ Handoff(SessionReference)' = Handoff(SessionReference)
      BY <1>1, SameValues
    <2>15. Started'
      BY <1>1, <2>2, <2>12, <2>14 DEF TransactionStored, Started
    <2>16. CodeIssued(SessionReference)'
      BY <2>11, <2>12, <2>14 DEF CodeIssued
    <2>17. CodeSent'
      BY <1>1, <2>11, <2>13, <2>15, <2>16 DEF CodeSent, References
    <2>18. mail' # None /\ mail'.at = "portal_callback"
      BY <2>11, MailParts
    <2>19. Succeeded'
      BY <2>11 DEF Succeeded
    <2> QED
      BY <2>17, <2>18, <2>19 DEF OnItsWay
  <1> QED
    BY <1>1, <1>3, <1>4, <1>5, StageStep

\* The portal accepts a code and a state alone,
LEMMA CodeAndState ==
    LET pairs == <<<<"code", HandoffCode>>, <<"state", State>>>> IN
    parse_callback_query(pairs) = {[code |-> HandoffCode, state |-> State]}
  <1> DEFINE pairs == <<<<"code", HandoffCode>>, <<"state", State>>>>
  <1>1. /\ Once(pairs, "code") /\ Once(pairs, "state")
        /\ Field(pairs, "code") = HandoffCode /\ Field(pairs, "state") = State
    BY TwoPairs
  <1>2. Len(pairs) = 2
    OBVIOUS
  <1>3. is_fixed_reference(HandoffCode) /\ is_fixed_reference(State)
    BY ReferencesFit DEF HandoffCode, State
  <1> HIDE DEF pairs
  <1>4. parse_callback_query(pairs) = {[code |-> HandoffCode, state |-> State]}
    BY <1>1, <1>2, <1>3 DEF parse_callback_query
  <1> QED
    BY <1>4 DEF pairs

\* and nothing in addition to them.
LEMMA NothingAdded ==
    ASSUME NEW query, query \in Seq({query[i] : i \in DOMAIN query}), query # <<>>, NEW a, NEW b
    PROVE  parse_callback_query(query \o <<a, b>>) = {}
  <1> DEFINE S == {query[i] : i \in DOMAIN query} \cup {a, b}
  <1>1. query \in Seq(S) /\ <<a, b>> \in Seq(S) /\ Len(<<a, b>>) = 2
    OBVIOUS
  <1> HIDE DEF S
  <1>2. Len(query) # 0
    BY <1>1
  <1>3. Len(query \o <<a, b>>) # 2
    BY <1>1, <1>2
  <1> QED
    BY <1>3 DEF parse_callback_query

\* The portal exchanges the code that it is sent with the state of the login,
\* or refuses a callback whose query has more in it.
LEMMA PortalCallbackStage ==
    ASSUME world \in Worlds, FlowInv, StageInv, PortalCallback
    PROVE  StageInv'
  <1> DEFINE queries == parse_callback_query(mail.pairs)
             contexts == login_context_from_cookie_header(mail.cookies)
             claimed == IF queries = {} \/ contexts = {} THEN {}
                        ELSE claim_login_start(The(queries), The(contexts))
  <1>1. /\ mail # None /\ mail.at = "portal_callback"
        /\ UNCHANGED <<world, portal, clock, redis, sessions, jar, faults>>
        /\ \/ /\ claimed # {}
              /\ mail' = Mail("exchange",
                    <<<<"code", The(queries).code>>, <<"code_verifier", The(claimed).verifier>>>>, <<>>,
                    <<Authorization("Basic", TRUE, Config.service_id, Config.service_secret)>>)
              /\ UNCHANGED answer
           \/ claimed = {} /\ answer' = [at |-> "portal_callback", status |-> "400"] /\ mail' = None
    BY DEF PortalCallback, hosts, Answer
  <1> HIDE DEF queries, contexts, claimed
  <1>2. answer # NoAnswer
    BY <1>1 DEF FlowInv
  <1>3. answer' # NoAnswer
    BY <1>1, <1>2, AnswerGiven
  <1>4. jar' = [n \in CookieNames |-> jar'[n]] /\ portal = "serving"
    BY <1>1, <1>2 DEF StageInv
  <1>5. ASSUME faults = 0, Fits
        PROVE  IF mail' # None THEN OnItsWay' ELSE Answered'
    <2> DEFINE url == The(world.service.login_callback_uri.url)
    <2>1. OnItsWay /\ clock \in 0..(LuaMax - SessionTTL)
      BY <1>1, <1>5, Undisturbed
    <2>2. Started /\ CodeSent
      BY <1>1, <2>1 DEF OnItsWay, CodeSent
    <2>3. PICK reference \in References :
             /\ CodeIssued(reference)
             /\ mail = Mail("portal_callback",
                   IF reference = SessionReference
                   THEN GoogleRedirect(url, HandoffCode, State)
                   ELSE SsoRedirect(url, HandoffCode, State),
                   PortalCookies(jar), <<>>)
      BY <2>2 DEF CodeSent
    <2>4. url \in world.service.login_callback_uri.url
      <3>1. world.service.login_callback_uri.url # {}
        BY <1>5 DEF Fits
      <3> QED
        BY <3>1 DEF The
    <2>5. url.query \in Seq({url.query[i] : i \in DOMAIN url.query})
      BY <2>4, WorldAssumption
    <2>6. url.query # <<>> => ~NoQuery
      BY <2>4 DEF NoQuery
    <2> HIDE DEF url
    <2>7. /\ mail.cookies = PortalCookies(jar)
          /\ reference = SessionReference => mail.pairs = GoogleRedirect(url, HandoffCode, State)
          /\ reference # SessionReference => mail.pairs = SsoRedirect(url, HandoffCode, State)
      BY <2>3, MailParts
    <2>8. /\ Begun' = Begun /\ Config' = Config /\ NewSessionState' = NewSessionState
          /\ Handoff(reference)' = Handoff(reference) /\ (NoQuery <=> NoQuery')
      BY <1>1, SameValues
    <2>9. CASE reference # SessionReference /\ url.query # <<>>
      <3>1. queries = {}
        BY <2>5, <2>7, <2>9, NothingAdded DEF queries, SsoRedirect
      <3>2. mail' = None /\ answer'.at = "portal_callback"
        BY <1>1, <3>1, AnswerGiven DEF claimed
      <3>3. reference = ReturningReference
        BY <2>3, <2>9 DEF References
      <3>4. Answered'
        BY <1>1, <2>3, <2>6, <2>8, <2>9, <3>2, <3>3 DEF Answered, CodeIssued
      <3> QED
        BY <3>2, <3>4
    <2>10. CASE reference = SessionReference \/ url.query = <<>>
      <3>1. mail.pairs = <<<<"code", HandoffCode>>, <<"state", State>>>>
        <4>1. <<>> \o <<<<"code", HandoffCode>>, <<"state", State>>>>
                 = <<<<"code", HandoffCode>>, <<"state", State>>>>
          OBVIOUS
        <4> QED
          BY <2>7, <2>10, <4>1 DEF GoogleRedirect, SsoRedirect
      <3>2. queries = {[code |-> HandoffCode, state |-> State]}
        BY <3>1, CodeAndState DEF queries
      <3>3. contexts = {Ctx}
        <4>1. PortalCookies(jar) = <<<<<<LOGIN_CTX, Ctx>>>>>>
          BY <2>2, CookiesSent DEF Started
        <4>2. is_fixed_reference(Ctx) /\ LOGIN_CTX = "__Host-portal_login_ctx"
          BY ReferencesFit DEF Ctx, LOGIN_CTX
        <4>3. cookie_value(<<<<<<LOGIN_CTX, Ctx>>>>>>[1], LOGIN_CTX) = {Ctx}
          BY <4>2, OneCookie, CookieNamesDiffer
        <4>4. <<<<<<LOGIN_CTX, Ctx>>>>>> # <<>>
          OBVIOUS
        <4> QED
          BY <2>7, <4>1, <4>2, <4>3, <4>4 DEF contexts, login_context_from_cookie_header
      <3>4. The(queries) = [code |-> HandoffCode, state |-> State] /\ The(contexts) = Ctx
        BY <3>2, <3>3, TheOnly
      <3>5. /\ Begun.state = State /\ Begun.ctx = Ctx /\ Begun.verifier = Verifier
            /\ Begun.expires > clock
        <4>1. clock < clock + LoginStartTTL /\ clock + LoginStartTTL \in 0..LuaMax
          BY <2>1, LifetimesFit
        <4>2. Begun.expires = clock + LoginStartTTL
          BY DEF Begun
        <4>3. Begun.expires > clock
          BY <2>1, <4>1, <4>2, WidthAssumption, TTLAssumption
        <4> QED
          BY <4>3 DEF Begun
      <3>6. claimed = {Begun}
        BY <2>2, <3>2, <3>3, <3>4, <3>5 DEF claimed, claim_login_start, Started
      <3>7. The(claimed) = Begun /\ The(queries).code = HandoffCode
        <4>1. The(claimed) = Begun
          BY <3>6, TheOnly
        <4> QED
          BY <3>4, <4>1
      <3>8. /\ mail' = Mail("exchange",
                  <<<<"code", HandoffCode>>, <<"code_verifier", Verifier>>>>, <<>>,
                  <<Authorization("Basic", TRUE, Config.service_id, Config.service_secret)>>)
            /\ answer' = answer
        BY <1>1, <3>5, <3>6, <3>7
      <3>9. CodeIssued(reference)'
        BY <1>1, <2>3, <2>8 DEF CodeIssued
      <3>10. ExchangeSent'
        BY <1>1, <2>2, <2>8, <3>8, <3>9 DEF ExchangeSent, Started
      <3>11. mail' # None /\ mail'.at = "exchange"
        BY <3>8, MailParts
      <3>12. Succeeded'
        BY <2>1, <3>8 DEF Succeeded, OnItsWay
      <3> QED
        BY <3>10, <3>11, <3>12 DEF OnItsWay
    <2> QED
      BY <2>9, <2>10
  <1> QED
    BY <1>1, <1>3, <1>4, <1>5, StageStep

\* The foundation lets the portal exchange a code: the request and the
\* credentials pass its checks,
LEMMA CredentialsFit ==
    ASSUME Fits, portal_from_env(world.penv) # {}
    PROVE  LET body == <<<<"code", HandoffCode>>, <<"code_verifier", Verifier>>>>
               headers == <<Authorization("Basic", TRUE, Config.service_id, Config.service_secret)>> IN
           /\ Field(body, "code") = HandoffCode
           /\ The(pkce_s256_challenge(Field(body, "code_verifier"))) = PkceChallenge
           /\ The(basic_credentials(headers)).id = Config.service_id
           /\ exchange_refusal(body, headers) = "none"
  <1> DEFINE body == <<<<"code", HandoffCode>>, <<"code_verifier", Verifier>>>>
             header == Authorization("Basic", TRUE, Config.service_id, Config.service_secret)
             headers == <<header>>
  <1>1. /\ Once(body, "code") /\ Once(body, "code_verifier")
        /\ Field(body, "code") = HandoffCode /\ Field(body, "code_verifier") = Verifier
    BY TwoPairs
  <1>2. pkce_s256_challenge(Verifier) = {Digest(Verifier)} /\ sha256_base64url(Verifier) = Digest(Verifier)
    BY ReferencesFit DEF Verifier
  <1>3. validate_fixed_reference_value(HandoffCode)
    BY ReferencesFit DEF HandoffCode
  <1>4. /\ header.scheme = "Basic" /\ header.decodes /\ header.id = Config.service_id
        /\ header.secret = Config.service_secret
        /\ header.bytes = 6 + Base64Padded(Config.service_id.bytes + 1 + Config.service_secret.bytes)
    BY DEF Authorization
  <1>5. validate_service_id(Config.service_id) /\ Config.service_id.bytes # 0
    BY ConfigFits
  <1>6. header.bytes <= AUTHORIZATION_HEADER_MAX_BYTES
    <2> DEFINE encoded == 6 + Base64Padded(Config.service_id.bytes + 1 + Config.service_secret.bytes)
    <2>1. encoded <= 8192
      BY DEF Fits
    <2>2. header.bytes = encoded
      BY <1>4
    <2> HIDE DEF encoded, header
    <2> QED
      BY <2>1, <2>2 DEF AUTHORIZATION_HEADER_MAX_BYTES
  <1> HIDE DEF body, header
  <1>7. Deserializes(body, HandoffExchangeRequest) /\ exchange_input_is_valid(body)
    BY <1>1, <1>2, <1>3 DEF Deserializes, HandoffExchangeRequest, exchange_input_is_valid
  <1>8. basic_credentials(headers) = {header}
    <2>1. DOMAIN headers = {1} /\ headers[1] = header /\ Len(headers) = 1
      OBVIOUS
    <2> HIDE DEF headers
    <2>2. {headers[i] : i \in DOMAIN headers} = {header}
      BY <2>1
    <2> QED
      BY <1>4, <1>5, <1>6, <2>1, <2>2 DEF basic_credentials
  <1> HIDE DEF headers
  <1>9. authenticate_service(world.service, Config.service_id, Config.service_secret) = "Ok"
    BY DEF Fits, authenticate_service, read_registered_service, stored_secret_digest
  <1>10. The(basic_credentials(headers)) = header
    BY <1>8, TheOnly
  <1>11. exchange_refusal(body, headers) = "none"
    BY <1>4, <1>5, <1>7, <1>8, <1>9, <1>10 DEF exchange_refusal
  <1>12. The(pkce_s256_challenge(Field(body, "code_verifier"))) = PkceChallenge
    BY <1>1, <1>2, TheOnly DEF PkceChallenge
  <1> QED
    BY <1>1, <1>4, <1>10, <1>11, <1>12 DEF body, header, headers

\* and so does the row of the code pass the script's.
LEMMA ExchangeFits ==
    ASSUME world \in Worlds, clock \in 0..(LuaMax - SessionTTL), NEW reference,
           CodeIssued(reference)
    PROVE  LET value == Hash(Encode(Handoff(reference))) IN
           /\ At("handoff", HandoffCode) = value
           /\ exchange_handoff(value, Config.service_id, PkceChallenge) = 0
           /\ value.fields.internal_user_id.num = world.user
           /\ value.fields.authenticated_at.num = clock
  <1> DEFINE fields == Encode(Handoff(reference))
             session == Encode(NewSessionState)
  <1>1. /\ LuaAccepts("handoff", Hash(fields)) /\ fields.status = [word |-> "unused"]
        /\ fields.service_id = [text |-> Config.service_id]
        /\ fields.code_challenge = [text |-> PkceChallenge]
        /\ fields.common_session_lookup = [lookup |-> reference]
        /\ fields.internal_user_id.num = world.user /\ fields.authenticated_at.num = clock
        /\ fields.expires_at.num = clock + HandoffTTL /\ DOMAIN fields = HANDOFF_FIELDS
    BY HandoffFits
  <1>2. /\ LuaAccepts("session", Hash(session)) /\ session.internal_user_id.num = world.user
        /\ session.authenticated_at.num = clock /\ session.expires_at.num = clock + SessionTTL
    BY SessionFits
  <1>3. At("handoff", HandoffCode) = Hash(fields) /\ At("session", reference) = Hash(session)
    BY AtNewKey DEF CodeIssued
  <1> HIDE DEF fields, session
  <1>4. /\ Hash(fields) # None /\ Hash(fields).fields = fields /\ Hash(fields).type = "hash"
        /\ Hash(session) # None /\ Hash(session).fields = session
    BY HashPresent
  <1>5. ~(clock >= clock + HandoffTTL) /\ ~(clock >= clock + SessionTTL)
    <2>1. clock < clock + HandoffTTL /\ clock + HandoffTTL \in 0..LuaMax
      BY LifetimesFit
    <2>2. clock < clock + SessionTTL /\ clock + SessionTTL \in 0..LuaMax
      BY LifetimesFit
    <2> QED
      BY <2>1, <2>2, WidthAssumption, TTLAssumption
  <1>6. resolve_handoff_session_lookup(Hash(fields)) = "Ok"
    <2>1. "common_session_lookup" \in DOMAIN fields
      BY <1>1 DEF HANDOFF_FIELDS
    <2>2. is_lookup(fields.common_session_lookup)
      BY <1>1 DEF is_lookup
    <2> QED
      BY <1>4, <2>1, <2>2 DEF resolve_handoff_session_lookup
  <1>7. fields.common_session_lookup.lookup = reference
    BY <1>1
  <1>8. [word |-> "unused"] # [word |-> "used"]
    BY WordsDiffer
  <1>9. exchange_script(Hash(fields), Hash(session), reference, Config.service_id, PkceChallenge, clock) = 0
    BY <1>1, <1>2, <1>4, <1>5, <1>8 DEF exchange_script, SameLogin
  <1>10. exchange_handoff(Hash(fields), Config.service_id, PkceChallenge) = 0
    BY <1>3, <1>4, <1>6, <1>7, <1>9 DEF exchange_handoff
  <1> QED
    BY <1>1, <1>3, <1>4, <1>10 DEF fields

\* The exchange answers with the person and the time of the login.
LEMMA ExchangeStage ==
    ASSUME StoreInv, world \in Worlds, FlowInv, StageInv, ExchangeAuthHandoff
    PROVE  StageInv'
  <1> DEFINE refusal == exchange_refusal(mail.pairs, mail.headers)
             code == exchange_handoff(HandoffValue, PresentedId, PresentedChallenge)
  <1>1. /\ mail # None /\ mail.at = "exchange"
        /\ UNCHANGED <<world, foundation, portal, clock, starts, sessions, jar,
                       authenticated, faults>>
        /\ ExchangeGranted \/ ExchangeRefused
    BY ExchangeEffect
  <1>2. refusal = "none" /\ code = 0 => answer'.status = "200"
    BY DEF ExchangeAuthHandoff, Answer, HandoffValue, PresentedId, PresentedChallenge,
       exchange_status
  <1> HIDE DEF refusal, code
  <1>3. answer' # NoAnswer
    BY <1>1, AnswerGiven DEF ExchangeGranted, ExchangeRefused
  <1>4. jar' = [n \in CookieNames |-> jar'[n]] /\ portal = "serving"
    BY <1>1 DEF StageInv, FlowInv
  <1>5. ASSUME faults = 0, Fits
        PROVE  mail' # None /\ OnItsWay'
    <2>1. OnItsWay /\ portal_from_env(world.penv) # {} /\ clock \in 0..(LuaMax - SessionTTL)
      BY <1>1, <1>5, Undisturbed
    <2>2. ExchangeSent
      BY <1>1, <2>1 DEF OnItsWay
    <2>3. PICK reference \in References : CodeIssued(reference)
      BY <2>2 DEF ExchangeSent
    <2>4. /\ mail.pairs = <<<<"code", HandoffCode>>, <<"code_verifier", Verifier>>>>
          /\ mail.headers = <<Authorization("Basic", TRUE, Config.service_id, Config.service_secret)>>
      <3> DEFINE body == <<<<"code", HandoffCode>>, <<"code_verifier", Verifier>>>>
                 headers == <<Authorization("Basic", TRUE, Config.service_id, Config.service_secret)>>
      <3>1. mail = Mail("exchange", body, <<>>, headers)
        BY <2>2 DEF ExchangeSent
      <3> HIDE DEF body, headers
      <3>2. mail.pairs = body /\ mail.headers = headers
        BY <3>1, MailParts
      <3> QED
        BY <3>2 DEF body, headers
    <2>5. /\ Field(mail.pairs, "code") = HandoffCode /\ PresentedChallenge = PkceChallenge
          /\ PresentedId = Config.service_id /\ refusal = "none"
      BY <1>5, <2>1, <2>4, CredentialsFit DEF PresentedChallenge, PresentedId, refusal
    <2>6. /\ HandoffValue = Hash(Encode(Handoff(reference)))
          /\ exchange_handoff(HandoffValue, Config.service_id, PkceChallenge) = 0
          /\ HandoffValue.fields.internal_user_id.num = world.user
          /\ HandoffValue.fields.authenticated_at.num = clock
      <3>1. At("handoff", HandoffCode) = HandoffValue
        BY <2>5 DEF HandoffValue
      <3> QED
        BY <2>1, <2>3, <3>1, ExchangeFits
    <2>7. answer'.status = "200"
      BY <1>2, <2>5, <2>6 DEF code
    <2>8. ExchangeGranted
      BY <1>1, <2>7 DEF ExchangeRefused
    <2>9. mail' = Mail("exchanged",
              <<<<"internal_user_id", Number(world'.user)>>, <<"authenticated_at", Number(clock')>>>>,
              <<>>, <<>>)
      BY <1>1, <2>6, <2>8 DEF ExchangeGranted
    <2>10. sessions' = {} /\ SessionHeld'
      BY <1>1, <2>2, <2>3 DEF ExchangeSent, CodeIssued, SessionHeld
    <2>11. Exchanged'
      BY <2>7, <2>9, <2>10 DEF Exchanged
    <2>12. mail' # None /\ mail'.at = "exchanged"
      BY <2>9, MailParts
    <2>13. Succeeded'
      BY <2>7 DEF Succeeded
    <2> QED
      BY <2>11, <2>12, <2>13 DEF OnItsWay
  <1> QED
    BY <1>1, <1>3, <1>4, <1>5, StageStep

\* The portal takes the reply for what it says.
LEMMA ReplyFits ==
    ASSUME world \in Worlds, clock \in 0..(LuaMax - SessionTTL), answer.status = "200",
           mail.pairs = <<<<"internal_user_id", Number(world.user)>>,
                          <<"authenticated_at", Number(clock)>>>>
    PROVE  /\ handoff_is_received
           /\ The(Field(mail.pairs, "internal_user_id").num) = world.user
           /\ The(Field(mail.pairs, "authenticated_at").num) = clock
  <1>1. /\ Once(mail.pairs, "internal_user_id") /\ Once(mail.pairs, "authenticated_at")
        /\ Field(mail.pairs, "internal_user_id") = Number(world.user)
        /\ Field(mail.pairs, "authenticated_at") = Number(clock)
    BY TwoPairs
  <1>2. ASSUME NEW n PROVE Number(n).num = {n}
    BY DEF Number, Text
  <1>3. ASSUME NEW n PROVE DOMAIN [num |-> n] = {"num"} /\ [num |-> n].num = n
    OBVIOUS
  <1>4. parse_i32([num |-> world.user])
    BY <1>3, WorldAssumption DEF parse_i32
  <1>5. parse_u64([num |-> clock])
    <2>1. clock \in 0..LuaMax
      BY LifetimesFit
    <2>2. clock \in 0..U64Max
      BY <2>1, WidthAssumption
    <2> QED
      BY <1>3, <2>2 DEF parse_u64
  <1>6. /\ Field(mail.pairs, "internal_user_id").num = {world.user}
        /\ Field(mail.pairs, "authenticated_at").num = {clock}
    BY <1>1, <1>2
  <1>7. handoff_is_received
    BY <1>1, <1>4, <1>5, <1>6 DEF handoff_is_received, Deserializes, HandoffExchangeResponse
  <1> QED
    BY <1>6, <1>7, TheOnly

\* The portal signs the person in.
LEMMA PortalSessionStage ==
    ASSUME world \in Worlds, FlowInv, StageInv, PortalSession
    PROVE  StageInv'
  <1> DEFINE received ==
                [reference |-> PortalReference, csrf |-> sha256_base64url(PortalCsrf),
                 user |-> The(Field(mail.pairs, "internal_user_id").num),
                 at |-> The(Field(mail.pairs, "authenticated_at").num),
                 expires |-> clock + LocalSessionTTL]
  <1>1. /\ mail # None /\ mail.at = "exchanged" /\ mail' = None
        /\ answer' = [at |-> "exchanged", status |-> session_status]
        /\ UNCHANGED <<world, portal, clock, redis, starts, faults>>
        /\ \/ /\ session_status = "302"
              /\ sessions' = cleanup_expired(sessions) \cup {received}
              /\ jar' = [jar EXCEPT ![LOGIN_CTX] = {}, ![PORTAL_SESSION] = {PortalReference},
                                    ![PORTAL_CSRF] = {PortalCsrf}]
           \/ session_status # "302" /\ jar' = [jar EXCEPT ![LOGIN_CTX] = {}]
    BY DEF PortalSession, hosts, Answer
  <1> HIDE DEF received
  <1>2. answer' # NoAnswer
    BY <1>1, AnswerGiven
  <1>3. jar' = [n \in CookieNames |-> jar'[n]] /\ portal = "serving"
    BY <1>1 DEF StageInv, FlowInv
  <1>4. ASSUME faults = 0, Fits
        PROVE  Answered'
    <2>1. OnItsWay /\ portal_from_env(world.penv) # {} /\ clock \in 0..(LuaMax - SessionTTL)
      BY <1>1, <1>4, Undisturbed
    <2>2. Exchanged
      BY <1>1, <2>1 DEF OnItsWay
    <2>3. mail.pairs = <<<<"internal_user_id", Number(world.user)>>,
                         <<"authenticated_at", Number(clock)>>>>
      <3> DEFINE reply == <<<<"internal_user_id", Number(world.user)>>,
                            <<"authenticated_at", Number(clock)>>>>
      <3>1. mail = Mail("exchanged", reply, <<>>, <<>>)
        BY <2>2 DEF Exchanged
      <3> HIDE DEF reply
      <3>2. mail.pairs = reply
        BY <3>1, MailParts
      <3> QED
        BY <3>2 DEF reply
    <2>4. answer.status = "200" /\ sessions = {} /\ SessionHeld
      BY <2>2 DEF Exchanged
    <2>5. /\ handoff_is_received
          /\ The(Field(mail.pairs, "internal_user_id").num) = world.user
          /\ The(Field(mail.pairs, "authenticated_at").num) = clock
      BY <2>1, <2>3, <2>4, ReplyFits
    <2>6. cleanup_expired(sessions) = {}
      BY <2>4 DEF cleanup_expired
    <2>7. session_status = "302"
      <3>1. ~(Cardinality(cleanup_expired(sessions)) >= Config.local_session_capacity)
        BY <2>1, <2>6, NobodyCounted, ConfigFits
      <3>2. ~(clock + LocalSessionTTL > U64Max)
        <4>1. clock + LocalSessionTTL <= U64Max /\ clock + LocalSessionTTL \in 0..LuaMax
          BY <2>1, LifetimesFit
        <4> QED
          BY <4>1, WidthAssumption
      <3>3. create_local_session_result = "Ok"
        BY <3>1, <3>2 DEF create_local_session_result
      <3> QED
        BY <2>5, <3>3 DEF session_status, LocalStateError
    <2>8. received = LocalSession
      BY <2>5 DEF received, LocalSession
    <2>9. /\ sessions' = {LocalSession}
          /\ jar' = [jar EXCEPT ![LOGIN_CTX] = {}, ![PORTAL_SESSION] = {PortalReference},
                                ![PORTAL_CSRF] = {PortalCsrf}]
      BY <1>1, <2>6, <2>7, <2>8
    <2>10. /\ jar'[AUTH_SESSION] = jar[AUTH_SESSION] /\ jar'[LOGIN_CTX] = {}
           /\ jar'[PORTAL_SESSION] = {PortalReference} /\ jar'[PORTAL_CSRF] = {PortalCsrf}
      BY <2>9, CookieNamesDiffer DEF StageInv
    <2>11. LocalSession' = LocalSession
      BY <1>1, SameValues
    <2>12. SignedIn'
      BY <2>4, <2>9, <2>10, <2>11 DEF SignedIn, SessionHeld
    <2>13. answer'.at = "exchanged" /\ Succeeded'
      BY <1>1, <2>7 DEF Succeeded
    <2> QED
      BY <2>12, <2>13 DEF Answered
  <1> QED
    BY <1>1, <1>2, <1>3, <1>4, StageStep

\* The browser goes on with the cookies that it has.
LEMMA BrowseStage ==
    ASSUME FlowInv, StageInv, Browse
    PROVE  StageInv'
  <1> DEFINE at == NextVisit[answer.at]
  <1>1. /\ mail = None /\ answer.at \in DOMAIN NextVisit
        /\ mail' = Mail(at,
                    IF at = "logout_get" THEN <<<<"service_id", Config.service_id>>>> ELSE <<>>,
                    IF at = "logout_get" THEN FoundationCookies(jar) ELSE PortalCookies(jar),
                    IF at = "portal_logout" /\ jar[PORTAL_CSRF] # {}
                    THEN <<The(jar[PORTAL_CSRF])>> ELSE <<>>)
        /\ UNCHANGED <<world, portal, clock, redis, starts, sessions, jar, answer, faults>>
    BY DEF Browse, hosts
  <1>2. /\ answer.at \in {"exchanged", "me", "portal_logout"}
        /\ answer.at = "exchanged" => at = "me"
        /\ answer.at = "me" => at = "portal_logout"
        /\ answer.at = "portal_logout" => at = "logout_get"
    BY <1>1 DEF NextVisit
  <1> HIDE DEF at
  <1>3. answer # NoAnswer
    BY <1>2 DEF NoAnswer
  <1>4. jar' = [n \in CookieNames |-> jar'[n]] /\ portal = "serving" /\ answer' # NoAnswer
    BY <1>1, <1>3 DEF StageInv
  <1>5. mail' # None /\ mail'.at = at
    BY <1>1, MailParts
  <1>6. ASSUME faults = 0, Fits
        PROVE  OnItsWay'
    <2>1. Answered
      BY <1>1, <1>3, <1>6 DEF StageInv
    <2>2. Succeeded'
      BY <1>1, <1>2, <2>1 DEF Answered, Succeeded
    <2>3. Config' = Config /\ LocalSession' = LocalSession
      BY <1>1, SameValues
    <2>4. (SignedIn => SignedIn') /\ (SessionHeld => SessionHeld')
      BY <1>1, <2>3 DEF SignedIn, SessionHeld
    <2>5. CASE answer.at = "exchanged"
      <3>1. SignedIn'
        BY <2>1, <2>4, <2>5 DEF Answered
      <3>2. mail' = Mail("me", <<>>, PortalCookies(jar'), <<>>)
        BY <1>1, <1>2, <2>5
      <3> QED
        BY <1>2, <1>5, <2>2, <2>5, <3>1, <3>2 DEF OnItsWay, MeSent
    <2>6. CASE answer.at = "me"
      <3>1. SignedIn
        BY <2>1, <2>6 DEF Answered
      <3>2. jar[PORTAL_CSRF] # {} /\ The(jar[PORTAL_CSRF]) = PortalCsrf
        BY <3>1, TheOnly DEF SignedIn
      <3>3. mail' = Mail("portal_logout", <<>>, PortalCookies(jar'), <<PortalCsrf>>)
        BY <1>1, <1>2, <2>6, <3>2
      <3> QED
        BY <1>2, <1>5, <2>2, <2>4, <2>6, <3>1, <3>3 DEF OnItsWay, LogoutSent
    <2>7. CASE answer.at = "portal_logout"
      <3>1. SessionHeld'
        BY <2>1, <2>4, <2>7 DEF Answered
      <3>2. mail' = Mail("logout_get", <<<<"service_id", Config'.service_id>>>>,
                         FoundationCookies(jar'), <<>>)
        BY <1>1, <1>2, <2>3, <2>7
      <3> QED
        BY <1>2, <1>5, <2>2, <2>7, <3>1, <3>2 DEF OnItsWay, LogoutPageSent
    <2> QED
      BY <1>2, <2>5, <2>6, <2>7
  <1> QED
    BY <1>1, <1>4, <1>5, <1>6, StageStep

\* The portal's cookies of a person who is signed in are read as they are.
LEMMA SignedInCookies ==
    ASSUME SignedIn, clock \in 0..(LuaMax - SessionTTL)
    PROVE  /\ fixed_reference_cookie_from_headers(PortalCookies(jar), PORTAL_SESSION) = {PortalReference}
           /\ fixed_reference_cookie_from_headers(PortalCookies(jar), PORTAL_CSRF) = {PortalCsrf}
           /\ LocalSessionOf({PortalReference}) = {LocalSession}
           /\ ExpiredLocalSession({PortalReference}) = {}
  <1>1. PortalCookies(jar)
           = <<<<<<PORTAL_SESSION, PortalReference>>, <<PORTAL_CSRF, PortalCsrf>>>>>>
    <2>1. /\ jar[LOGIN_CTX] = {} /\ jar[PORTAL_SESSION] = {PortalReference}
          /\ jar[PORTAL_CSRF] = {PortalCsrf}
      BY DEF SignedIn
    <2>2. \A x, y : jar[LOGIN_CTX] = {} /\ jar[PORTAL_SESSION] = {x} /\ jar[PORTAL_CSRF] = {y} =>
             PortalCookies(jar) = <<<<<<PORTAL_SESSION, x>>, <<PORTAL_CSRF, y>>>>>>
      BY CookiesSent
    <2> QED
      BY <2>1, <2>2
  <1>2. is_fixed_reference(PortalReference) /\ is_fixed_reference(PortalCsrf)
    BY ReferencesFit DEF PortalReference, PortalCsrf
  <1>3. /\ fixed_reference_cookie_from_headers(PortalCookies(jar), PORTAL_SESSION) = {PortalReference}
        /\ fixed_reference_cookie_from_headers(PortalCookies(jar), PORTAL_CSRF) = {PortalCsrf}
    BY <1>1, <1>2, TwoCookies, CookieNamesDiffer
  <1>4. LocalSession.reference = PortalReference /\ LocalSession.expires = clock + LocalSessionTTL
    BY DEF LocalSession
  <1>5. LocalSession.expires > clock /\ ~(LocalSession.expires <= clock)
    <2>1. /\ clock < clock + LocalSessionTTL /\ clock + LocalSessionTTL \in 0..LuaMax
          /\ clock \in 0..LuaMax
      BY LifetimesFit
    <2> QED
      BY <1>4, <2>1, WidthAssumption
  <1>6. /\ LocalSessionOf({PortalReference}) = {LocalSession}
        /\ ExpiredLocalSession({PortalReference}) = {}
    BY <1>4, <1>5 DEF SignedIn, LocalSessionOf, ExpiredLocalSession
  <1> QED
    BY <1>3, <1>6

\* The portal knows who is signed in.
LEMMA GetMeStage ==
    ASSUME FlowInv, StageInv, GetMe
    PROVE  StageInv'
  <1> DEFINE references == fixed_reference_cookie_from_headers(mail.cookies, PORTAL_SESSION)
  <1>1. /\ mail # None /\ mail.at = "me" /\ mail' = None
        /\ answer' = [at |-> "me", status |-> IF LocalSessionOf(references) = {} THEN "401" ELSE "200"]
        /\ sessions' = sessions \ ExpiredLocalSession(references)
        /\ UNCHANGED <<world, portal, clock, redis, starts, jar, faults>>
    BY DEF GetMe, hosts, Answer
  <1> HIDE DEF references
  <1>2. answer' # NoAnswer
    BY <1>1, AnswerGiven
  <1>3. jar' = [n \in CookieNames |-> jar'[n]] /\ portal = "serving"
    BY <1>1 DEF StageInv, FlowInv
  <1>4. ASSUME faults = 0, Fits
        PROVE  Answered'
    <2>1. OnItsWay /\ clock \in 0..(LuaMax - SessionTTL)
      BY <1>1, <1>4, Undisturbed
    <2>2. SignedIn /\ mail.cookies = PortalCookies(jar)
      BY <1>1, <2>1, MailParts DEF OnItsWay, MeSent
    <2>3. references = {PortalReference}
      BY <2>1, <2>2, SignedInCookies DEF references
    <2>4. LocalSessionOf(references) = {LocalSession} /\ ExpiredLocalSession(references) = {}
      BY <2>1, <2>2, <2>3, SignedInCookies
    <2>5. answer'.at = "me" /\ Succeeded' /\ sessions' = sessions
      BY <1>1, <2>4 DEF Succeeded
    <2>6. LocalSession' = LocalSession
      BY <1>1, SameValues
    <2>7. SignedIn'
      BY <1>1, <2>2, <2>5, <2>6 DEF SignedIn, SessionHeld
    <2> QED
      BY <2>5, <2>7 DEF Answered
  <1> QED
    BY <1>1, <1>2, <1>3, <1>4, StageStep

\* The portal signs the person out.
LEMMA PortalLogoutStage ==
    ASSUME FlowInv, StageInv, PortalLogout
    PROVE  StageInv'
  <1> DEFINE references == fixed_reference_cookie_from_headers(mail.cookies, PORTAL_SESSION)
             cookies == fixed_reference_cookie_from_headers(mail.cookies, PORTAL_CSRF)
             headers == csrf_header_from_headers(mail.headers)
             wellFormed == references # {} /\ cookies # {} /\ headers # {}
             removed == {s \in LocalSessionOf(references) :
                           wellFormed /\ cookies = headers /\ s.csrf = sha256_base64url(The(cookies))}
  <1>1. /\ mail # None /\ mail.at = "portal_logout" /\ mail' = None
        /\ answer' = [at |-> "portal_logout", status |-> IF removed = {} THEN "403" ELSE "204"]
        /\ jar' = IF removed = {} THEN jar ELSE [jar EXCEPT ![PORTAL_SESSION] = {}, ![PORTAL_CSRF] = {}]
        /\ UNCHANGED <<world, portal, clock, redis, starts, faults>>
    BY DEF PortalLogout, hosts, Answer
  <1> HIDE DEF references, cookies, headers, removed
  <1>2. answer' # NoAnswer
    BY <1>1, AnswerGiven
  <1>3. jar' = [n \in CookieNames |-> jar'[n]] /\ portal = "serving"
    BY <1>1 DEF StageInv, FlowInv
  <1>4. ASSUME faults = 0, Fits
        PROVE  Answered'
    <2>1. OnItsWay /\ clock \in 0..(LuaMax - SessionTTL)
      BY <1>1, <1>4, Undisturbed
    <2>2. SignedIn /\ mail.cookies = PortalCookies(jar) /\ mail.headers = <<PortalCsrf>>
      BY <1>1, <2>1, MailParts DEF OnItsWay, LogoutSent
    <2>3. references = {PortalReference} /\ cookies = {PortalCsrf}
      BY <2>1, <2>2, SignedInCookies DEF references, cookies
    <2>4. headers = {PortalCsrf}
      <3>1. Len(<<PortalCsrf>>) = 1 /\ <<PortalCsrf>>[1] = PortalCsrf
        OBVIOUS
      <3>2. is_fixed_reference(PortalCsrf)
        BY ReferencesFit DEF PortalCsrf
      <3> QED
        BY <2>2, <3>1, <3>2 DEF headers, csrf_header_from_headers
    <2>5. LocalSessionOf(references) = {LocalSession} /\ The(cookies) = PortalCsrf
      BY <2>1, <2>2, <2>3, SignedInCookies, TheOnly
    <2>6. LocalSession.csrf = sha256_base64url(PortalCsrf)
      BY DEF LocalSession
    <2>7. LocalSession \in removed
      BY <2>3, <2>4, <2>5, <2>6 DEF removed
    <2>8. answer'.at = "portal_logout" /\ Succeeded'
      BY <1>1, <2>7 DEF Succeeded
    <2>9. jar'[AUTH_SESSION] = jar[AUTH_SESSION]
      BY <1>1, CookieNamesDiffer DEF StageInv
    <2>10. SessionHeld'
      BY <2>2, <2>9 DEF SignedIn, SessionHeld
    <2> QED
      BY <2>8, <2>10 DEF Answered
  <1> QED
    BY <1>1, <1>2, <1>3, <1>4, StageStep

\* The cookie of a common session is read as it is.
LEMMA SessionCookieFits ==
    ASSUME SessionHeld
    PROVE  \E reference : /\ request_cookie(FoundationCookies(jar), AUTH_SESSION) = {reference}
                          /\ validate_fixed_reference_value(reference)
  <1>1. PICK reference \in References : jar[AUTH_SESSION] = {reference}
    BY DEF SessionHeld
  <1>2. FoundationCookies(jar) = <<<<<<AUTH_SESSION, reference>>>>>>
    BY <1>1, CookiesSent
  <1>3. request_cookie(FoundationCookies(jar), AUTH_SESSION) = {reference}
    BY <1>2, OneCookie, CookieNamesDiffer
  <1>4. validate_fixed_reference_value(reference)
    BY ReferencesFit DEF References, ReturningReference, SessionReference
  <1> QED
    BY <1>3, <1>4

\* The foundation shows the page of the common logout.
LEMMA LogoutGetStage ==
    ASSUME StoreInv, FlowInv, StageInv, LogoutGet
    PROVE  StageInv'
  <1> DEFINE status == logout_get_result(mail.pairs, SessionCookie)
  <1>1. /\ mail # None /\ mail.at = "logout_get"
        /\ answer' = [at |-> "logout_get", status |-> status]
        /\ \/ /\ status = "200"
              /\ redis' = [redis EXCEPT !["logout"] =
                    NewKey(LogoutReference, NewLogoutState(Field(mail.pairs, "service_id")))]
              /\ mail' = Mail("logout_post",
                    <<<<"logout_reference", LogoutReference>>, <<"csrf_token", CsrfToken>>>>,
                    FoundationCookies(jar), <<>>)
           \/ status # "200"
        /\ UNCHANGED <<world, portal, clock, starts, sessions, jar, faults>>
    BY DEF LogoutGet, hosts, Answer, SessionCookie
  <1> HIDE DEF status
  <1>2. answer' # NoAnswer
    BY <1>1, AnswerGiven
  <1>3. jar' = [n \in CookieNames |-> jar'[n]] /\ portal = "serving"
    BY <1>1 DEF StageInv, FlowInv
  <1>4. ASSUME faults = 0, Fits
        PROVE  mail' # None /\ OnItsWay'
    <2>1. OnItsWay /\ portal_from_env(world.penv) # {} /\ clock \in 0..(LuaMax - SessionTTL)
      BY <1>1, <1>4, Undisturbed
    <2>2. SessionHeld /\ mail.pairs = <<<<"service_id", Config.service_id>>>>
          /\ mail.cookies = FoundationCookies(jar)
      BY <1>1, <2>1, MailParts DEF OnItsWay, LogoutPageSent
    <2>3. Once(mail.pairs, "service_id") /\ Field(mail.pairs, "service_id") = Config.service_id
      BY <2>2, OnePair
    <2>4. \E c \in SessionCookie : validate_fixed_reference_value(c)
      BY <2>2, SessionCookieFits DEF SessionCookie
    <2>5. validate_service_id(Config.service_id)
      BY <2>1, ConfigFits
    <2>6. /\ ServiceIsUsable(Config.service_id)
          /\ valid_callback_url(world.service.logout_return_uri) # {}
      BY <1>4, ServiceFits
    <2>7. /\ unix_seconds(clock) # {} /\ checked_expires_at(clock, LogoutTTL) # {}
          /\ IsUnexpired(clock, clock + LogoutTTL)
      BY <2>1, LifetimesFit
    <2>8. NewLogoutState(Config.service_id).expires_at = clock + LogoutTTL
      BY DEF NewLogoutState
    <2>9. WriteState(None, NewLogoutState(Config.service_id), clock) # {}
      BY <2>7, <2>8 DEF WriteState, write_state
    <2>10. status = "200"
      BY <2>3, <2>4, <2>5, <2>6, <2>7, <2>9 DEF status, logout_get_result, Deserializes, LogoutQuery
    <2>11. NewLogoutState(Config.service_id)' = NewLogoutState(Config.service_id)
           /\ Config' = Config
      BY <1>1, SameValues DEF NewLogoutState
    <2>12. redis'["logout"] = NewKey(LogoutReference, NewLogoutState(Config.service_id))
      <3>1. redis = [f \in Family |-> redis[f]]
        BY DEF StoreInv
      <3> QED
        BY <1>1, <2>3, <2>10, <3>1, FamilyNames
    <2>13. LogoutFormSent'
      BY <1>1, <2>2, <2>10, <2>11, <2>12 DEF LogoutFormSent, SessionHeld
    <2>14. mail' # None /\ mail'.at = "logout_post"
      BY <1>1, <2>10, MailParts
    <2>15. Succeeded'
      BY <1>1, <2>10 DEF Succeeded
    <2> QED
      BY <2>13, <2>14, <2>15 DEF OnItsWay
  <1> QED
    BY <1>1, <1>2, <1>3, <1>4, StageStep

\* The foundation logs the person out.
LEMMA LogoutPostStage ==
    ASSUME FlowInv, StageInv, LogoutPost
    PROVE  StageInv'
  <1> DEFINE code == logout_script(LogoutValue, Field(mail.pairs, "csrf_token"), clock)
             valid == logout_post_input_is_valid(mail.pairs, SessionCookie)
  <1>1. /\ mail # None /\ mail.at = "logout_post" /\ mail' = None
        /\ answer' = [at |-> "logout_post",
                      status |-> IF valid THEN logout_post_status(code, LogoutValue) ELSE "400"]
        /\ jar' = jar \/ jar' = build_deleted_common_auth_cookie(jar)
        /\ UNCHANGED <<world, portal, clock, starts, sessions, faults>>
    BY DEF LogoutPost, hosts, Answer, SessionCookie, LogoutValue
  <1> HIDE DEF code, valid
  <1>2. answer' # NoAnswer
    BY <1>1, AnswerGiven
  <1>3. jar' = [n \in CookieNames |-> jar'[n]] /\ portal = "serving"
    BY <1>1 DEF StageInv, FlowInv, build_deleted_common_auth_cookie
  <1>4. ASSUME faults = 0, Fits
        PROVE  Answered'
    <2>1. OnItsWay /\ clock \in 0..(LuaMax - SessionTTL)
      BY <1>1, <1>4, Undisturbed
    <2>2. /\ SessionHeld
          /\ redis["logout"] = NewKey(LogoutReference, NewLogoutState(Config.service_id))
          /\ mail.pairs = <<<<"logout_reference", LogoutReference>>, <<"csrf_token", CsrfToken>>>>
          /\ mail.cookies = FoundationCookies(jar)
      BY <1>1, <2>1, MailParts DEF OnItsWay, LogoutFormSent
    <2>3. /\ Once(mail.pairs, "logout_reference") /\ Once(mail.pairs, "csrf_token")
          /\ Field(mail.pairs, "logout_reference") = LogoutReference
          /\ Field(mail.pairs, "csrf_token") = CsrfToken
      BY <2>2, TwoPairs
    <2>4. \E c \in SessionCookie : validate_fixed_reference_value(c)
      BY <2>2, SessionCookieFits DEF SessionCookie
    <2>5. validate_fixed_reference_value(LogoutReference) /\ validate_fixed_reference_value(CsrfToken)
      BY ReferencesFit DEF LogoutReference, CsrfToken
    <2>6. valid
      BY <2>3, <2>4, <2>5 DEF valid, logout_post_input_is_valid, Deserializes, LogoutForm
    <2> DEFINE fields == Encode(NewLogoutState(Config.service_id))
    <2>7. LogoutValue = Hash(fields)
      BY <2>2, <2>3, AtNewKey DEF LogoutValue
    <2>8. /\ LuaAccepts("logout", Hash(fields)) /\ fields.status = [word |-> "unused"]
          /\ fields.csrf_lookup = [lookup |-> CsrfToken]
          /\ fields.logout_return_uri = [text |-> world.service.logout_return_uri]
          /\ fields.expires_at.num = clock + LogoutTTL
      BY <2>1, LogoutFits
    <2> HIDE DEF fields
    <2>9. Hash(fields) # None /\ Hash(fields).fields = fields
      BY HashPresent
    <2>10. ~(clock >= clock + LogoutTTL)
      <3>1. clock < clock + LogoutTTL /\ clock + LogoutTTL \in 0..LuaMax
        BY <2>1, LifetimesFit
      <3> QED
        BY <2>1, <3>1, WidthAssumption, TTLAssumption
    <2>11. [word |-> "unused"] # [word |-> "used"]
      BY WordsDiffer
    <2>12. code = 0
      BY <2>3, <2>7, <2>8, <2>9, <2>10, <2>11 DEF code, logout_script
    <2>13. DOMAIN fields.logout_return_uri # {"binary"}
      BY <2>8, StringParts
    <2>14. logout_post_status(code, LogoutValue) = "303"
      BY <2>7, <2>9, <2>12, <2>13 DEF logout_post_status
    <2> QED
      BY <1>1, <2>6, <2>14 DEF Answered, Succeeded
  <1> QED
    BY <1>1, <1>2, <1>3, <1>4, StageStep

\* Every step of an undisturbed journey takes it to its next stage.
LEMMA StageNext ==
    ASSUME JourneyInv, StageInv, [Next]_vars
    PROVE  StageInv'
  <1>1. StoreInv /\ world \in Worlds /\ FlowInv
    BY DEF JourneyInv
  <1>2. CASE UNCHANGED vars
    <2>1. UNCHANGED <<world, portal, clock, redis, starts, sessions, jar, mail, answer, faults>>
      BY <1>2 DEF vars
    <2>2. Fits <=> Fits'
      BY <2>1, SameValues
    <2>3. (AtRest => AtRest') /\ (OnItsWay => OnItsWay') /\ (Answered => Answered')
      BY <2>1, Unmoved
    <2>4. jar' = [n \in CookieNames |-> jar'[n]]
      BY <2>1 DEF StageInv
    <2> QED
      BY <2>1, <2>2, <2>3, <2>4 DEF StageInv
  <1>3. CASE StartFoundation \/ StartPortal
    BY <1>3, StartStage
  <1>4. CASE PortalLogin
    BY <1>4, PortalLoginStage
  <1>5. CASE FoundationLogin
    BY <1>1, <1>5, LoginStage
  <1>6. CASE GoogleConsent
    BY <1>1, <1>6, ConsentStage
  <1>7. CASE GoogleAuthCallback
    BY <1>1, <1>7, CallbackStage
  <1>8. CASE PortalCallback
    BY <1>1, <1>8, PortalCallbackStage
  <1>9. CASE ExchangeAuthHandoff
    BY <1>1, <1>9, ExchangeStage
  <1>10. CASE PortalSession
    BY <1>1, <1>10, PortalSessionStage
  <1>11. CASE Browse
    BY <1>1, <1>11, BrowseStage
  <1>12. CASE GetMe
    BY <1>1, <1>12, GetMeStage
  <1>13. CASE PortalLogout
    BY <1>1, <1>13, PortalLogoutStage
  <1>14. CASE LogoutGet
    BY <1>1, <1>14, LogoutGetStage
  <1>15. CASE LogoutPost
    BY <1>1, <1>15, LogoutPostStage
  <1>16. CASE Alter \/ Wait \/ \E family \in Family : Corrupt(family)
    BY <1>1, <1>16, FaultStage
  <1> QED
    BY <1>2, <1>3, <1>4, <1>5, <1>6, <1>7, <1>8, <1>9, <1>10, <1>11, <1>12, <1>13, <1>14,
       <1>15, <1>16 DEF Next

\* The stages of an undisturbed journey are an invariant
\* together with what holds of any journey.
LEMMA StagesAreInvariant == Spec => [](JourneyInv /\ StageInv)
  <1>1. Init => StageInv
    BY StageInit
  <1>2. JourneyInv /\ StageInv /\ [Next]_vars => StageInv'
    BY StageNext
  <1>3. Spec => []JourneyInv
    BY JourneyIsInvariant
  <1> QED
    BY <1>1, <1>2, <1>3, PTL DEF Spec

\* In none of these stages is a request refused that Compatible promises to
\* be answered.
THEOREM JourneysAreUnderstood == Spec => []JourneyIsUnderstood
  <1>1. JourneyInv /\ StageInv => JourneyIsUnderstood
    <2> SUFFICES ASSUME JourneyInv, StageInv, portal = "serving", faults = 0, Compatible
                 PROVE  Succeeded
      BY DEF JourneyIsUnderstood
    <2>1. Fits
      BY DEF Compatible
    <2>2. CASE answer = NoAnswer
      BY <2>2 DEF NoAnswer, Succeeded
    <2>3. CASE answer # NoAnswer /\ mail # None
      BY <2>1, <2>3 DEF StageInv, OnItsWay
    <2>4. CASE answer # NoAnswer /\ mail = None
      <3>1. Answered
        BY <2>1, <2>4 DEF StageInv
      <3>2. jar[AUTH_SESSION] = {ReturningReference} => NoQuery
        BY ReturningIsNotNew DEF Compatible
      <3> QED
        BY <3>1, <3>2 DEF Answered
    <2> QED
      BY <2>2, <2>3, <2>4
  <1> QED
    BY <1>1, StagesAreInvariant, PTL

-----------------------------------------------------------------------------
\* A handoff that is made for a session, right or wrong in one comparison, is
\* stored as it is, and gets past the formats that the scripts ask for.
LEMMA HandoffArgument ==
    ASSUME NEW s, clock \in 0..(LuaMax - SessionTTL),
           s.internal_user_id \in (-I32Max - 1)..I32Max, s.authenticated_at \in 0..LuaMax,
           NEW h \in HandoffsFor(s)
    PROVE  LET fields == Encode(h) IN
           /\ LuaArguments(fields)
           /\ fields.common_session_lookup = [lookup |-> h.common_session_lookup]
           /\ fields.internal_user_id.num = h.internal_user_id
           /\ fields.authenticated_at.num = h.authenticated_at
           /\ fields.expires_at.num = h.expires_at
  <1> DEFINE who == [user |-> s.internal_user_id, at |-> s.authenticated_at]
             right == NewHandoffState(world.service.service_id, Forged, SessionReference, who,
                                      clock + HandoffTTL)
  <1>1. /\ right = [f \in HANDOFF_FIELDS |-> right[f]]
        /\ DOMAIN right = HANDOFF_FIELDS
        /\ right.internal_user_id = s.internal_user_id
        /\ right.authenticated_at = s.authenticated_at
        /\ right.issued_at = clock /\ right.expires_at = clock + HandoffTTL
        /\ right.status = "unused"
    <2>1. who.user = s.internal_user_id /\ who.at = s.authenticated_at
      OBVIOUS
    <2> HIDE DEF who
    <2> QED
      BY <2>1 DEF NewHandoffState, HANDOFF_FIELDS
  <1>2. h \in {right, [right EXCEPT !.common_session_lookup = Forged],
               [right EXCEPT !.internal_user_id = 0], [right EXCEPT !.authenticated_at = 0],
               [right EXCEPT !.expires_at = clock]}
    BY DEF HandoffsFor
  <1> HIDE DEF right
  <1>3. /\ h = [f \in DOMAIN h |-> h[f]]
        /\ DOMAIN h = HANDOFF_FIELDS
        /\ h.internal_user_id \in {s.internal_user_id, 0}
        /\ h.authenticated_at \in {s.authenticated_at, 0}
        /\ h.issued_at = clock /\ h.expires_at \in {clock, clock + HandoffTTL}
        /\ h.status = "unused"
    <2>1. CASE h = right
      BY <1>1, <2>1
    <2>2. CASE h = [right EXCEPT !.common_session_lookup = Forged]
      BY <1>1, <2>2 DEF HANDOFF_FIELDS
    <2>3. CASE h = [right EXCEPT !.internal_user_id = 0]
      BY <1>1, <2>3 DEF HANDOFF_FIELDS
    <2>4. CASE h = [right EXCEPT !.authenticated_at = 0]
      BY <1>1, <2>4 DEF HANDOFF_FIELDS
    <2>5. CASE h = [right EXCEPT !.expires_at = clock]
      BY <1>1, <2>5 DEF HANDOFF_FIELDS
    <2> QED
      BY <1>2, <2>1, <2>2, <2>3, <2>4, <2>5
  <1>4. DOMAIN h = Fields["handoff"] /\ "handoff" \in Family
    BY <1>3, FamilyNames DEF Fields
  <1>5. clock \in 0..LuaMax /\ clock + HandoffTTL \in 0..LuaMax /\ 0 \in 0..LuaMax
    BY LifetimesFit, WidthAssumption
  <1>6. \A f \in DOMAIN h \cap Times : h[f] \in 0..LuaMax
    BY <1>3, <1>5 DEF Times, HANDOFF_FIELDS
  <1>7. h.internal_user_id \in (-I32Max - 1)..I32Max
    BY <1>3, WidthAssumption
  <1>8. h.status \in Statuses("handoff")
    BY <1>3 DEF Statuses, usage_status
  <1>9. \A f \in DOMAIN h : LuaFormat(f, Encode(h)[f])
    BY <1>3, <1>4, <1>6, <1>7, <1>8, RoundTrip
  <1>10. DOMAIN Encode(h) = DOMAIN h
    BY EncodedDomain
  <1>11. \A f \in DOMAIN h :
            /\ f \in Times \cup {"internal_user_id"} => Encode(h)[f] = [num |-> h[f]]
            /\ f \in Lookups => Encode(h)[f] = [lookup |-> h[f]]
            /\ f = "status" => Encode(h)[f] = [word |-> h[f]]
    BY EncodedField
  <1>12. /\ Encode(h)["internal_user_id"] = [num |-> h["internal_user_id"]]
         /\ Encode(h)["authenticated_at"] = [num |-> h["authenticated_at"]]
         /\ Encode(h)["expires_at"] = [num |-> h["expires_at"]]
         /\ Encode(h)["common_session_lookup"] = [lookup |-> h["common_session_lookup"]]
         /\ Encode(h)["status"] = [word |-> h["status"]]
    BY <1>3, <1>11 DEF Times, Lookups, HANDOFF_FIELDS
  <1>13. LuaArguments(Encode(h))
    BY <1>3, <1>9, <1>10, <1>12 DEF LuaArguments
  <1> QED
    BY <1>12, <1>13

\* With a session that decodes, or without one, the issue script answers as
\* IssueSsoReply of RedisState.tla does, when it is given such a handoff.
LEMMA IssueScript ==
    ASSUME NEW value, HashOK(value), Exact(value), Decode("session", value.fields) # {},
           clock \in 0..(LuaMax - SessionTTL), NEW old,
           NEW h \in HandoffsFor(The(Decode("session", value.fields)))
    PROVE  LET reply == IssueSsoReply(SessionOf(The(Decode("session", value.fields))), old,
                                      SessionReference, HandoffOf(h), clock) IN
           script_error(issue_script(value, old, SessionReference, Encode(h), clock))
              = IF reply = "SessionExpired" THEN "Expired" ELSE reply
  <1> DEFINE t == The(Decode("session", value.fields))
             fields == Encode(h)
             differs == \/ h.common_session_lookup # SessionReference
                        \/ h.internal_user_id # t.internal_user_id
                        \/ h.authenticated_at # t.authenticated_at
             code == IF clock >= t.expires_at THEN 2
                     ELSE IF old # None THEN 9
                     ELSE IF differs THEN 3
                     ELSE IF h.expires_at <= clock THEN 2 ELSE 0
  <1>1. /\ t.expires_at = value.fields.expires_at.num
        /\ t.authenticated_at = value.fields.authenticated_at.num
        /\ t.internal_user_id = value.fields.internal_user_id.num
        /\ LuaAccepts("session", value) /\ value # None
    BY SessionFields
  <1>2. /\ t.internal_user_id \in (-I32Max - 1)..I32Max
        /\ t.authenticated_at \in 0..LuaMax
    <2>1. /\ LuaFormat("internal_user_id", value.fields["internal_user_id"])
          /\ LuaFormat("authenticated_at", value.fields["authenticated_at"])
      BY <1>1 DEF LuaAccepts, Fields, SESSION_FIELDS
    <2>2. parse_i32(value.fields["internal_user_id"]) /\ LuaUint(value.fields["authenticated_at"])
      BY <2>1 DEF LuaFormat, Times, Lookups
    <2> QED
      BY <1>1, <2>2 DEF parse_i32, LuaUint
  <1>3. /\ LuaArguments(fields)
        /\ fields.common_session_lookup = [lookup |-> h.common_session_lookup]
        /\ fields.internal_user_id.num = h.internal_user_id
        /\ fields.authenticated_at.num = h.authenticated_at
        /\ fields.expires_at.num = h.expires_at
    BY <1>2, HandoffArgument
  <1> HIDE DEF t, fields
  <1>4. SessionOf(t) # None
    BY AbsentAssumption DEF SessionOf
  <1>5. (\/ fields.common_session_lookup # [lookup |-> SessionReference]
         \/ ~SameLogin(fields, value.fields)) <=> differs
    BY <1>1, <1>3 DEF SameLogin
  <1>6. issue_script(value, old, SessionReference, fields, clock) = code
    BY <1>1, <1>3, <1>5 DEF issue_script
  <1>7. IssueSsoReply(SessionOf(t), old, SessionReference, HandoffOf(h), clock) =
           IF clock >= t.expires_at THEN "SessionExpired"
           ELSE IF old # None THEN "KeyConflict"
           ELSE IF differs THEN "InvalidStoredState"
           ELSE IF h.expires_at <= clock THEN "Expired" ELSE "Ok"
    BY <1>4 DEF IssueSsoReply, SessionOf, HandoffOf
  <1>8. script_error(code) =
           IF clock >= t.expires_at THEN "Expired"
           ELSE IF old # None THEN "KeyConflict"
           ELSE IF differs THEN "InvalidStoredState"
           ELSE IF h.expires_at <= clock THEN "Expired" ELSE "Ok"
    BY DEF script_error
  <1> HIDE DEF code, differs
  <1> QED
    BY <1>6, <1>7, <1>8 DEF t, fields

\* The create script answers as CreateReply of RedisState.tla does, when it is
\* given a new session, expired or not, and such a handoff.
LEMMA CreateScript ==
    ASSUME world \in Worlds, clock \in 0..(LuaMax - SessionTTL), NEW oldSession, NEW oldHandoff,
           NEW s \in {NewSessionState, [NewSessionState EXCEPT !.expires_at = clock]},
           NEW h \in HandoffsFor(s)
    PROVE  script_error(create_script(oldSession, oldHandoff, SessionReference, Encode(s),
                                      Encode(h), clock))
              = CreateReply(oldSession, oldHandoff, SessionReference, SessionOf(s), HandoffOf(h),
                            clock)
  <1> DEFINE state == NewSessionState
             session == Encode(s)
             fields == Encode(h)
             differs == \/ h.common_session_lookup # SessionReference
                        \/ h.internal_user_id # s.internal_user_id
                        \/ h.authenticated_at # s.authenticated_at
             code == IF oldSession # None \/ oldHandoff # None THEN 9
                     ELSE IF differs THEN 3
                     ELSE IF s.expires_at <= clock \/ h.expires_at <= clock THEN 2 ELSE 0
  <1>1. /\ state = [f \in SESSION_FIELDS |-> state[f]]
        /\ DOMAIN state = SESSION_FIELDS
        /\ state.internal_user_id = world.user /\ state.authenticated_at = clock
        /\ state.created_at = clock /\ state.expires_at = clock + SessionTTL
    BY DEF NewSessionState, SESSION_FIELDS
  <1> HIDE DEF state
  <1>2. s \in {state, [state EXCEPT !.expires_at = clock]}
    BY DEF state
  <1>3. /\ s = [f \in DOMAIN s |-> s[f]]
        /\ DOMAIN s = SESSION_FIELDS
        /\ s.internal_user_id = world.user /\ s.authenticated_at = clock
        /\ s.created_at = clock /\ s.expires_at \in {clock, clock + SessionTTL}
    BY <1>1, <1>2 DEF SESSION_FIELDS
  <1>4. DOMAIN s = Fields["session"] /\ "session" \in Family
    BY <1>3, FamilyNames DEF Fields
  <1>5. clock \in 0..LuaMax /\ clock + SessionTTL \in 0..LuaMax
    BY LifetimesFit
  <1>6. \A f \in DOMAIN s \cap Times : s[f] \in 0..LuaMax
    BY <1>3, <1>5 DEF Times, SESSION_FIELDS
  <1>7. s.internal_user_id \in (-I32Max - 1)..I32Max
    BY <1>3, WorldAssumption
  <1>8. "status" \notin DOMAIN s
    BY <1>3 DEF SESSION_FIELDS
  <1>9. LuaAccepts("session", Hash(session))
    BY <1>3, <1>4, <1>6, <1>7, <1>8, RoundTrip
  <1>10. /\ session.internal_user_id.num = s.internal_user_id
         /\ session.authenticated_at.num = s.authenticated_at
         /\ session.expires_at.num = s.expires_at
    <2>1. \A f \in DOMAIN s :
             f \in Times \cup {"internal_user_id"} => Encode(s)[f] = [num |-> s[f]]
      BY EncodedField
    <2>2. /\ Encode(s)["internal_user_id"] = [num |-> s["internal_user_id"]]
          /\ Encode(s)["authenticated_at"] = [num |-> s["authenticated_at"]]
          /\ Encode(s)["expires_at"] = [num |-> s["expires_at"]]
      BY <1>3, <2>1 DEF Times, SESSION_FIELDS
    <2> QED
      BY <2>2
  <1>11. /\ LuaArguments(fields)
         /\ fields.common_session_lookup = [lookup |-> h.common_session_lookup]
         /\ fields.internal_user_id.num = h.internal_user_id
         /\ fields.authenticated_at.num = h.authenticated_at
         /\ fields.expires_at.num = h.expires_at
    <2>1. s.authenticated_at \in 0..LuaMax
      BY <1>3, <1>5
    <2> QED
      BY <1>7, <2>1, HandoffArgument
  <1> HIDE DEF session, fields
  <1>12. (\/ fields.common_session_lookup # [lookup |-> SessionReference]
          \/ ~SameLogin(fields, session)) <=> differs
    BY <1>10, <1>11 DEF SameLogin
  <1>13. create_script(oldSession, oldHandoff, SessionReference, session, fields, clock) = code
    BY <1>9, <1>10, <1>11, <1>12 DEF create_script
  <1>14. CreateReply(oldSession, oldHandoff, SessionReference, SessionOf(s), HandoffOf(h), clock) =
            IF oldSession # None \/ oldHandoff # None THEN "KeyConflict"
            ELSE IF differs THEN "InvalidStoredState"
            ELSE IF s.expires_at <= clock \/ h.expires_at <= clock THEN "Expired" ELSE "Ok"
    BY DEF CreateReply, SessionOf, HandoffOf
  <1>15. script_error(code) =
            IF oldSession # None \/ oldHandoff # None THEN "KeyConflict"
            ELSE IF differs THEN "InvalidStoredState"
            ELSE IF s.expires_at <= clock \/ h.expires_at <= clock THEN "Expired" ELSE "Ok"
    BY DEF script_error
  <1> HIDE DEF code, differs
  <1> QED
    BY <1>13, <1>14, <1>15 DEF session, fields

\* In a store whose rows decode, the scripts that store a handoff answer as their
\* models in RedisState.tla do.
LEMMA StoringScripts ==
    ASSUME StoreInv, \A f \in Family : redis[f] # None => Decodes(f) /\ Exact(redis[f].value),
           world \in Worlds, clock \in 0..(LuaMax - SessionTTL)
    PROVE  StoringScriptsAgree
  <1>1. \A h : AbstractState("handoff", h) = HandoffOf(h)
    BY DEF AbstractState, HandoffOf
  <1>2. \A s : AbstractState("session", s) = SessionOf(s)
    BY DEF AbstractState, SessionOf
  <1>3. ASSUME NEW old,
               NEW h \in HandoffsFor(IF redis["session"] = None THEN NewSessionState
                                     ELSE Stored("session"))
        PROVE  LET reply == IssueSsoReply(Abstract("session"), old, SessionReference,
                                          AbstractState("handoff", h), clock) IN
               script_error(issue_script(Value("session"), old, SessionReference, Encode(h), clock))
                  = IF reply = "SessionExpired" THEN "Expired" ELSE reply
    <2>1. CASE redis["session"] = None
      BY <2>1 DEF Value, Abstract, issue_script, script_error, IssueSsoReply
    <2>2. CASE redis["session"] # None
      <3>1. /\ HashOK(redis["session"].value) /\ Exact(redis["session"].value)
            /\ Decode("session", redis["session"].value.fields) # {}
        BY <2>2, FamilyNames DEF StoreInv, RowOK, Decodes
      <3>2. /\ Value("session") = redis["session"].value
            /\ Abstract("session") = SessionOf(The(Decode("session", redis["session"].value.fields)))
            /\ h \in HandoffsFor(The(Decode("session", redis["session"].value.fields)))
        BY <1>2, <1>3, <2>2 DEF Value, Abstract, Stored
      <3> QED
        BY <1>1, <3>1, <3>2, IssueScript
    <2> QED
      BY <2>1, <2>2
  <1>4. ASSUME NEW oldSession, NEW oldHandoff,
               NEW s \in {NewSessionState, [NewSessionState EXCEPT !.expires_at = clock]},
               NEW h \in HandoffsFor(s)
        PROVE  script_error(create_script(oldSession, oldHandoff, SessionReference, Encode(s),
                                          Encode(h), clock))
                  = CreateReply(oldSession, oldHandoff, SessionReference,
                                AbstractState("session", s), AbstractState("handoff", h), clock)
    BY <1>1, <1>2, CreateScript
  <1> QED
    BY <1>3, <1>4 DEF StoringScriptsAgree

\* On rows that decode, and at times in which they calculate, the five scripts of
\* redis_state.rs always answer what the operators of RedisState.tla answer on
\* the decoded state, so that the proofs about those operators are about the
\* scripts.
THEOREM ScriptsAlwaysAsInRedisState == Spec => []ScriptsAsInRedisState
  <1>1. JourneyInv => ScriptsAsInRedisState
    <2> SUFFICES ASSUME StoreInv, world \in Worlds,
                        \A f \in Family : redis[f] # None => Decodes(f) /\ Exact(redis[f].value)
                 PROVE  /\ UsingScriptsAgree
                        /\ clock \in 0..(LuaMax - SessionTTL) => StoringScriptsAgree
      BY DEF JourneyInv, ScriptsAsInRedisState
    <2> QED
      BY UsingScripts, StoringScripts
  <1> QED
    BY <1>1, JourneyIsInvariant, PTL
=============================================================================
