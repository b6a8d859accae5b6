-------------------------------- MODULE Wire --------------------------------
(***************************************************************************)
(* The datagrams of the mesh (gradatim/protocol.py): a signed header, and  *)
(* five kinds of payload packed from length-prefixed fields.               *)
(*                                                                         *)
(* The format is a composition of fields of fixed width, so it is kept     *)
(* whole and only its numbers shrink: a byte has BYTE values and a field   *)
(* of 2, 4, 8, 16 or 32 bytes is HALF, WORD, QUAD, ID or COORD of them.    *)
(* Decoding yields a value and the offset behind it, or is Refused.        *)
(***************************************************************************)
EXTENDS Integers, Sequences

CONSTANTS
    BYTE,               \* values of a byte: 256 in the code
    HALF, WORD,         \* width of a count, port or signature length; of a length
    QUAD, ID, COORD,    \* width of a timestamp or nonce; a UUID; a coordinate
    MAX_PAYLOAD_SIZE,   \* 1 MB in the code
    Wide                \* every character that takes more than one byte

\* How many numbers k bytes can hold.
Power[k \in Nat] == IF k = 0 THEN 1 ELSE BYTE * Power[k - 1]

ASSUME WireAssumption ==
    /\ BYTE \in Nat \ (0..3)
    /\ {HALF, WORD, QUAD, ID, COORD} \subseteq Nat \ {0}
    /\ MAX_PAYLOAD_SIZE \in Nat /\ MAX_PAYLOAD_SIZE < Power[WORD]
    /\ 2 * COORD < Power[HALF] /\ 1 + 2 * COORD < Power[WORD]
    /\ Wide \notin 0..(BYTE - 1)

PROTOCOL_VERSION == 1
POINT_TAG        == 2     \* the 0x04 in front of an uncompressed key

Done(value, at) == [value |-> value, at |-> at]
Refused == Done(<<>>, -1)

\* Go on with what was decoded, unless that was refused.
Then(r, K(_, _)) == IF r.at < 0 THEN Refused ELSE K(r.value, r.at)

-----------------------------------------------------------------------------
(* Numbers of fixed width, big-endian (struct.pack and unpack).            *)

Digits(n, width) == [i \in 1..width |-> (n \div Power[width - i]) % BYTE]

Number[s \in Seq(Nat)] ==
    IF s = <<>> THEN 0 ELSE Head(s) * Power[Len(s) - 1] + Number[Tail(s)]

Slice(data, at, len) == SubSeq(data, at + 1, at + len)

\* Bytes [at, at + len), which must all be there.
Exactly(data, at, len) ==
    IF at + len > Len(data) THEN Refused ELSE Done(Slice(data, at, len), at + len)

Unpack(data, at, width) ==
    Then(Exactly(data, at, width), LAMBDA raw, b : Done(Number[raw], b))

-----------------------------------------------------------------------------
(* Fields.                                                                 *)

EncodeBytes(raw) == Digits(Len(raw), WORD) \o raw
DecodeBytes(data, at) ==
    Then(Unpack(data, at, WORD), LAMBDA len, b : Exactly(data, b, len))

\* The fewest bytes that hold n; for a negative n those that hold its bits
\* and one more, although the sign of -128 would fit into its eight.
Magnitude(n) ==
    CHOOSE k \in 1..(IF n < 0 THEN 1 - n ELSE n + 1) :
        /\ IF n < 0 THEN -2 * n < Power[k] ELSE n < Power[k]
        /\ k > 1 => IF n < 0 THEN -2 * n >= Power[k - 1] ELSE n >= Power[k - 1]

\* Two's complement for a negative n ...
EncodeBigint(n) ==
    LET k == Magnitude(n)
    IN  EncodeBytes(Digits(IF n < 0 THEN Power[k] + n ELSE n, k))

\* ... which is read back as an unsigned number.
DecodeBigint(data, at) ==
    Then(DecodeBytes(data, at), LAMBDA raw, b : Done(Number[raw], b))

\* UTF-8: the lower half of the byte values stand for themselves; any other
\* character is a lead byte with a continuation byte.
Lead         == BYTE - 1
Continuation == BYTE \div 2
Character    == 0..(Continuation - 1) \cup {Wide}

Utf8[text \in Seq(Character)] ==
    IF text = <<>> THEN <<>>
    ELSE (IF Head(text) = Wide THEN <<Lead, Continuation>> ELSE <<Head(text)>>)
             \o Utf8[Tail(text)]

IsUtf8(raw) ==
    \A i \in DOMAIN raw :
        /\ raw[i] < Continuation \/ raw[i] \in {Lead, Continuation}
        /\ raw[i] = Lead => i < Len(raw)
        /\ raw[i] = Continuation <=> i > 1 /\ raw[i - 1] = Lead

Text[raw \in Seq(Nat)] ==
    IF raw = <<>> THEN <<>>
    ELSE (CASE Head(raw) = Continuation -> <<>>
            [] Head(raw) = Lead         -> <<Wide>>
            [] OTHER                    -> <<Head(raw)>>) \o Text[Tail(raw)]

\* Mutant of EncodeString: the length counts characters.
EncodeStringByCharacters(text) == Digits(Len(text), WORD) \o Utf8[text]

EncodeString(text) == EncodeBytes(Utf8[text])

DecodeString(data, at) ==
    Then(DecodeBytes(data, at),
         LAMBDA raw, b : IF IsUtf8(raw) THEN Done(Text[raw], b) ELSE Refused)

EncodeAddress(addr) == EncodeString(addr[1]) \o Digits(addr[2], HALF)
DecodeAddress(data, at) ==
    Then(DecodeString(data, at), LAMBDA host, b :
        Then(Unpack(data, b, HALF), LAMBDA port, c : Done(<<host, port>>, c)))

\* An uncompressed key: a tag and two coordinates.
EncodeKey(key) == <<POINT_TAG>> \o Digits(key[1], COORD) \o Digits(key[2], COORD)
DecodeKey(raw) ==
    IF Len(raw) # 1 + 2 * COORD \/ Head(raw) # POINT_TAG
    THEN Refused
    ELSE Done(<<Number[Slice(raw, 1, COORD)], Number[Slice(raw, 1 + COORD, COORD)]>>, Len(raw))

-----------------------------------------------------------------------------
(* Lists of texts, numbers, agents and parameters.                         *)

EncodeItem(kind, item) ==
    CASE kind = "text"   -> EncodeString(item)
      [] kind = "number" -> EncodeBigint(item)
      [] kind = "agent"  -> item.id \o EncodeAddress(item.addr)
      [] kind = "param"  -> EncodeString(item[1]) \o EncodeBigint(item[2])

\* The id of an agent is sliced without a look at the length; the address
\* behind it is not there either when the datagram ends within the id.
DecodeAgent(data, at) ==
    Then(DecodeAddress(data, at + ID), LAMBDA addr, b :
        Done([id |-> Slice(data, at, ID), addr |-> addr], b))

DecodeParam(data, at) ==
    Then(DecodeString(data, at), LAMBDA name, b :
        Then(DecodeBigint(data, b), LAMBDA value, c : Done(<<name, value>>, c)))

DecodeItem(kind, data, at) ==
    CASE kind = "text"   -> DecodeString(data, at)
      [] kind = "number" -> DecodeBigint(data, at)
      [] kind = "agent"  -> DecodeAgent(data, at)
      [] kind = "param"  -> DecodeParam(data, at)

\* A count, and that many items.
EncodeList(kind, s) ==
    LET first[k \in 0..Len(s)] ==
            IF k = 0 THEN <<>> ELSE first[k - 1] \o EncodeItem(kind, s[k])
    IN  Digits(Len(s), HALF) \o first[Len(s)]

DecodeItems(kind, data, at, count) ==
    LET first[k \in 0..count] ==
            IF k = 0 THEN Done(<<>>, at)
            ELSE Then(first[k - 1], LAMBDA items, b :
                     Then(DecodeItem(kind, data, b), LAMBDA item, c :
                         Done(Append(items, item), c)))
    IN  first[count]

DecodeList(kind, data, at) ==
    Then(Unpack(data, at, HALF), LAMBDA count, b : DecodeItems(kind, data, b, count))

-----------------------------------------------------------------------------
(* The five payloads: what build_..._payload makes of p, and what          *)
(* parse_..._payload makes of that.                                        *)

Build(p) ==
    CASE p.type = "HELLO" ->
             EncodeList("text", p.capabilities) \o EncodeBytes(EncodeKey(p.key))
                 \o Digits(p.port, HALF)
      [] p.type = "PEERS" ->
             EncodeList("agent", p.peers)
      [] p.type = "ASSIGN" ->
             p.task \o EncodeString(p.algorithm) \o EncodeList("param", p.params)
      [] p.type = "RESULT" ->
             p.task \o EncodeString(p.status) \o EncodeList("number", p.factors)
      [] p.type = "VERIFY" ->
             p.task \o EncodeBigint(p.n) \o EncodeList("number", p.factors)

ParseHello(data) ==
    Then(DecodeList("text", data, 0), LAMBDA capabilities, b :
        Then(DecodeBytes(data, b), LAMBDA raw, c :
            Then(DecodeKey(raw), LAMBDA key, len :
                Then(Unpack(data, c, HALF), LAMBDA port, d :
                    Done([type |-> "HELLO", capabilities |-> capabilities,
                          key |-> key, port |-> port], d)))))

ParsePeers(data) ==
    Then(DecodeList("agent", data, 0), LAMBDA peers, b :
        Done([type |-> "PEERS", peers |-> peers], b))

\* A dict of parameters is the list of its items, whose names differ.
ParseAssign(data) ==
    Then(Exactly(data, 0, ID), LAMBDA task, b :
        Then(DecodeString(data, b), LAMBDA algorithm, c :
            Then(DecodeList("param", data, c), LAMBDA params, d :
                Done([type |-> "ASSIGN", task |-> task, algorithm |-> algorithm,
                      params |-> params], d))))

ParseResult(data) ==
    Then(Exactly(data, 0, ID), LAMBDA task, b :
        Then(DecodeString(data, b), LAMBDA status, c :
            Then(DecodeList("number", data, c), LAMBDA factors, d :
                Done([type |-> "RESULT", task |-> task, status |-> status,
                      factors |-> factors], d))))

ParseVerify(data) ==
    Then(Exactly(data, 0, ID), LAMBDA task, b :
        Then(DecodeBigint(data, b), LAMBDA m, c :
            Then(DecodeList("number", data, c), LAMBDA factors, d :
                Done([type |-> "VERIFY", task |-> task, n |-> m, factors |-> factors], d))))

Parse(type, data) ==
    CASE type = "HELLO"  -> ParseHello(data)
      [] type = "PEERS"  -> ParsePeers(data)
      [] type = "ASSIGN" -> ParseAssign(data)
      [] type = "RESULT" -> ParseResult(data)
      [] type = "VERIFY" -> ParseVerify(data)

-----------------------------------------------------------------------------
(* The datagram around a payload.                                          *)

HEADER_SIZE == 2 + ID + 2 * QUAD + WORD

\* What gets signed.
HeaderAndPayload(m) ==
    <<m.version, m.type>> \o m.sender \o Digits(m.timestamp, QUAD) \o Digits(m.nonce, QUAD)
        \o Digits(Len(m.payload), WORD) \o m.payload

Serialize(m) ==
    HeaderAndPayload(m) \o Digits(2 * COORD, HALF)
        \o Digits(m.signature[1], COORD) \o Digits(m.signature[2], COORD)

\* Mutant of NonceOf: a nonce that nothing reads any more is left at its default.
NonceOfNobody(data) == 0

NonceOf(data) == Number[Slice(data, 2 + ID + QUAD, QUAD)]

Deserialize(data) ==
    LET payloadLen == Number[Slice(data, 2 + ID + 2 * QUAD, WORD)]
        body == HEADER_SIZE + payloadLen
    IN  IF \/ Len(data) < HEADER_SIZE
           \/ data[1] # PROTOCOL_VERSION
           \/ payloadLen > MAX_PAYLOAD_SIZE
        THEN Refused
        ELSE Then(Unpack(data, body, HALF), LAMBDA sigLen, b :
                 IF sigLen # 2 * COORD \/ Len(data) < b + sigLen
                 THEN Refused
                 ELSE Done([version   |-> data[1],
                            type      |-> data[2],
                            sender    |-> Slice(data, 2, ID),
                            timestamp |-> Number[Slice(data, 2 + ID, QUAD)],
                            nonce     |-> NonceOf(data),
                            payload   |-> Slice(data, HEADER_SIZE, payloadLen),
                            signature |-> <<Number[Slice(data, b, COORD)],
                                            Number[Slice(data, b + COORD, COORD)]>>],
                           b + sigLen))
=============================================================================
