-------------------------------- MODULE Wire --------------------------------
(***************************************************************************)
(* The wire codec: crates/bffi/src/types/wire.rs, the argument records of  *)
(* crates/bffi/src/callback/{abi,value}.rs, and their JS side in           *)
(* packages/bffi/src/runtime/wire.ts.                                      *)
(*                                                                         *)
(* A buffer is a sequence of cells, one per tag and one per fixed-width    *)
(* payload (a header is two cells, five bytes in the code); the bytes of a *)
(* string are a cell each.  Offsets count from 0, as in the code.  Floats  *)
(* and JS numbers are those of Numbers, NaN and the infinities included.   *)
(* A reader returns [ok, value, next], with `last` where it may enter a    *)
(* composite.                                                              *)
(***************************************************************************)
EXTENDS Numbers, Utf8, SequencesExt

CONSTANTS MaxPayload,   \* WIRE_PAYLOAD_LIMIT
          MaxDepth      \* WIRE_DEPTH_LIMIT

ASSUME WireAssumption == {MaxPayload, MaxDepth} \subseteq Nat \ {0}

UNIT == 0
I32 == 1
I64 == 2
F64 == 3
BOOL == 4
STR == 5
BYTES == 6
RECORD == 7
SEQ == 8
WIRE == 9
U64 == 10
ERROR == 11
Tags == UNIT .. ERROR

Cell(b, o) == b[o + 1]
Has(b, o, n) == o + n <= Len(b)
Read(value, next) == [ok |-> TRUE, value |-> value, next |-> next]
Malformed == [ok |-> FALSE, value |-> <<>>, next |-> 0]

-----------------------------------------------------------------------------
(* The Rust writers and readers of one record.                             *)

Fixed(tag, payload) == <<tag, payload>>
LenPrefixed(tag, bytes) == <<tag, Len(bytes)>> \o bytes
Header(tag, count) == <<tag, count>>

ExpectTag(b, o, tag) == Has(b, o, 1) /\ Cell(b, o) = tag

DecodeFixed(tag, b, o) ==
    IF ExpectTag(b, o, tag) /\ Has(b, o, 2) THEN Read(Cell(b, o + 1), o + 2) ELSE Malformed

\* A number: the JS encoder picks i32 or f64 by value.
DecodeNumber(b, o) ==
    IF ExpectTag(b, o, I32)
    THEN LET d == DecodeFixed(I32, b, o) IN IF d.ok THEN Read(Integer(d.value), d.next) ELSE d
    ELSE DecodeFixed(F64, b, o)

\* Mutant: the I64 that JS sends for a small bigint is refused.
DecodeU64Lenient_Strict(b, o) == DecodeFixed(U64, b, o)

\* An exact u64: U64, or I64 where the value is not negative.
DecodeU64Lenient(b, o) ==
    LET d == DecodeFixed(I64, b, o)
    IN  IF ~ExpectTag(b, o, I64) THEN DecodeFixed(U64, b, o)
        ELSE IF d.ok /\ d.value >= 0 THEN d ELSE Malformed

\* A declared length: under the limit, and inside the buffer, before it is taken.
DecodeLenPrefixed(b, at) ==
    IF ~Has(b, at, 1) \/ Cell(b, at) > MaxPayload \/ ~Has(b, at + 1, Cell(b, at)) THEN Malformed
    ELSE Read(SubSeq(b, at + 2, at + 1 + Cell(b, at)), at + 1 + Cell(b, at))

DecodeBytes(tag, b, o) == IF ExpectTag(b, o, tag) THEN DecodeLenPrefixed(b, o + 1) ELSE Malformed
DecodeStr(b, o) ==
    LET d == DecodeBytes(STR, b, o) IN IF d.ok /\ Validate(d.value) THEN d ELSE Malformed

\* A rich error: code, variant, message, and a record or the unit marker.
EncodeErrorRich(e) ==
    <<ERROR, e.code, Len(e.variant)>> \o e.variant \o <<Len(e.message)>> \o e.message
        \o (IF e.payload = <<>> THEN <<UNIT>> ELSE e.payload)
DecodeErrorRich(b, o) ==
    LET variant == DecodeLenPrefixed(b, o + 2)
        message == DecodeLenPrefixed(b, variant.next)
        tail == SubSeq(b, message.next + 1, Len(b))
        payload == IF tail # <<>> /\ Head(tail) = RECORD THEN tail ELSE <<>>
    IN  IF ~(ExpectTag(b, o, ERROR) /\ Has(b, o, 2) /\ variant.ok /\ message.ok) THEN Malformed
        ELSE Read([code |-> Cell(b, o + 1), variant |-> variant.value,
                   message |-> message.value, payload |-> payload],
                  message.next + (IF payload = <<>> THEN 1 ELSE Len(payload)))

-----------------------------------------------------------------------------
(* Composite headers and the depth limit.                                  *)

\* LAST_COMPOSITE of a thread that decoded nothing yet.
NoComposite == [start |-> -3, count |-> 0, depth |-> 0]

\* Mutant: any header after a non-empty one counts as its child.
EnterComposite_AnyParent(last, start, count) ==
    [start |-> start, count |-> count,
     depth |-> IF last.count > 0 /\ start > last.start THEN last.depth + 1 ELSE 1]

\* A header chains onto the last one when it is its only child.
EnterComposite(last, start, count) ==
    [start |-> start, count |-> count,
     depth |-> IF start = last.start + 2 /\ last.count = 1 THEN last.depth + 1 ELSE 1]

DecodeHeader(tag, b, o, last) ==
    LET entered == EnterComposite(last, o, Cell(b, o + 1))
    IN  IF ~(ExpectTag(b, o, tag) /\ Has(b, o, 2)) \/ Cell(b, o + 1) > MaxPayload
        THEN Malformed @@ [last |-> last]
        ELSE IF entered.depth > MaxDepth THEN Malformed @@ [last |-> entered]
        ELSE Read(Cell(b, o + 1), o + 2) @@ [last |-> entered]

-----------------------------------------------------------------------------
(* The arguments of a callback invoked from JS: callback/abi.rs.           *)

\* The offset past the record at o, or -1: truncated, too large or too deep.
RECURSIVE RecordEnd(_, _, _), RecordsEnd(_, _, _, _), RecordsEnd_Flat(_, _, _, _)
RecordEnd(b, o, depth) ==
    LET tag == Cell(b, o)
        end == CASE tag = UNIT -> o + 1
                 [] tag \in {I32, I64, U64, F64, BOOL} -> o + 2
                 [] tag \in {STR, BYTES, ERROR} ->
                      IF Has(b, o + 1, 1) /\ Cell(b, o + 1) <= MaxPayload
                      THEN o + 2 + Cell(b, o + 1) ELSE -1
                 [] tag \in {RECORD, SEQ} ->
                      IF Has(b, o + 1, 1) /\ Cell(b, o + 1) <= MaxPayload
                      THEN RecordsEnd(b, o + 2, Cell(b, o + 1), depth + 1) ELSE -1
                 [] OTHER -> -1
    IN  IF depth > MaxDepth \/ ~Has(b, o, 1) \/ end > Len(b) THEN -1 ELSE end
\* Mutant: the children are walked at the depth of their parent.
RecordsEnd_Flat(b, o, n, depth) ==
    IF n = 0 \/ o = -1 THEN o ELSE RecordsEnd_Flat(b, RecordEnd(b, o, depth - 1), n - 1, depth)
RecordsEnd(b, o, n, depth) ==
    IF n = 0 \/ o = -1 THEN o ELSE RecordsEnd(b, RecordEnd(b, o, depth), n - 1, depth)

TypeOfTag == UNIT :> "Unit" @@ I32 :> "I32" @@ I64 :> "I64" @@ U64 :> "U64" @@ F64 :> "F64"
             @@ BOOL :> "Bool" @@ STR :> "Str" @@ BYTES :> "Bytes" @@ RECORD :> "Wire" @@ SEQ :> "Wire"

\* One argument: a composite keeps its whole span, the rest their payload.
DecodeArg(b, o) ==
    LET tag == Cell(b, o)
        span == RecordEnd(b, o, 0)
        fixed == DecodeFixed(tag, b, o)
        d == CASE tag = UNIT -> Read(<<>>, o + 1)
               [] tag = BOOL -> [fixed EXCEPT !.value = <<IF fixed.ok /\ @ # 0 THEN 1 ELSE 0>>]
               [] tag \in {I32, I64, U64, F64} -> [fixed EXCEPT !.value = <<@>>]
               [] tag = STR -> DecodeStr(b, o)
               [] tag = BYTES -> DecodeBytes(tag, b, o)
               [] OTHER -> IF span = -1 THEN Malformed ELSE Read(SubSeq(b, o + 1, span), span)
    IN  IF tag \notin DOMAIN TypeOfTag \/ ~d.ok THEN Malformed
        ELSE Read([type |-> TypeOfTag[tag], payload |-> d.value], d.next)

RECURSIVE DecodeArgsFrom(_, _)
DecodeArgsFrom(b, o) ==
    IF o >= Len(b) THEN Read(<<>>, o)
    ELSE LET first == DecodeArg(b, o)
             rest == DecodeArgsFrom(b, first.next)
         IN  IF first.ok /\ rest.ok THEN Read(<<first.value>> \o rest.value, rest.next)
             ELSE Malformed
DecodeArgs(b) == DecodeArgsFrom(b, 0)

\* Value::encode_into.
EncodeArg(v) ==
    CASE v.type = "Wire" -> v.payload
      [] v.type = "Str" -> LenPrefixed(STR, v.payload)
      [] v.type = "Bytes" -> LenPrefixed(BYTES, v.payload)
      [] v.type = "Unit" -> <<UNIT>>
      [] OTHER -> <<CHOOSE t \in Tags : t \in DOMAIN TypeOfTag /\ TypeOfTag[t] = v.type>> \o v.payload

\* CallbackSig::matches: arity first, then the types, tolerant between I64 and U64.
ArgMatches(v, param) ==
    \/ v.type = param
    \/ v.type = "I64" /\ param = "U64" /\ v.payload[1] >= 0
    \/ v.type = "U64" /\ param = "I64" /\ v.payload[1] <= Hi("i64")
Matches(args, params) ==
    Len(args) = Len(params) /\ \A i \in DOMAIN args : ArgMatches(args[i], params[i])

-----------------------------------------------------------------------------
(* The JS side.  A JS value is <<"kind", payload>>, a record's payload its  *)
(* fields by position.                                                     *)

RECURSIVE JsDecode(_, _, _), JsDecodeAll(_, _, _, _)
JsDecode(b, o, depth) ==
    LET tag == Cell(b, o)
        number == DecodeFixed(tag, b, o)
        text == DecodeLenPrefixed(b, o + 1)
        items == JsDecodeAll(b, o + 2, Cell(b, o + 1), depth + 1)
        as(kind, d) == IF d.ok THEN Read(<<kind, d.value>>, d.next) ELSE Malformed
    IN  IF depth > MaxDepth \/ ~Has(b, o, 1) THEN Malformed
        ELSE CASE tag = UNIT -> Read(<<"undefined">>, o + 1)
               [] tag = I32 -> as("number", IF number.ok THEN Read(Integer(number.value), number.next) ELSE number)
               [] tag = F64 -> as("number", number)
               [] tag \in {I64, U64} -> as("bigint", number)
               [] tag = BOOL -> Read(<<"boolean", Has(b, o, 2) /\ Cell(b, o + 1) # 0>>, o + 2)
               [] tag = STR -> as("string", text)
               [] tag = BYTES -> as("Uint8Array", text)
               [] tag = ERROR -> as("Error", text)
               [] tag \in {RECORD, SEQ} ->
                    IF ~Has(b, o, 2) \/ Cell(b, o + 1) > MaxPayload THEN Malformed
                    ELSE as(IF tag = SEQ THEN "array" ELSE "fields", items)
               [] OTHER -> Malformed
JsDecodeAll(b, o, n, depth) ==
    IF n = 0 THEN Read(<<>>, o)
    ELSE LET first == JsDecode(b, o, depth)
             rest == JsDecodeAll(b, first.next, n - 1, depth)
         IN  IF first.ok /\ rest.ok THEN Read(<<first.value>> \o rest.value, rest.next)
             ELSE Malformed

\* encodeValue, or <<>> where it throws: a negative bigint, one past u64.
RECURSIVE JsEncode(_)
JsEncode(v) ==
    LET parts == [i \in DOMAIN v[2] |-> JsEncode(v[2][i])]
    IN  CASE v[1] \in {"undefined", "null"} -> <<UNIT>>
          [] v[1] = "number" ->
               LET n == Trunc(v[2].halves)
               IN  IF v[2] = Integer(n) /\ InRange("i32", n) THEN Fixed(I32, n) ELSE Fixed(F64, v[2])
          [] v[1] = "bigint" ->
               IF v[2] < 0 \/ v[2] > Hi("u64") THEN <<>>
               ELSE Fixed(IF v[2] > Hi("i64") THEN U64 ELSE I64, v[2])
          [] v[1] = "boolean" -> Fixed(BOOL, IF v[2] THEN 1 ELSE 0)
          [] v[1] = "Error" -> LenPrefixed(ERROR, v[2])
          [] v[1] = "string" -> LenPrefixed(STR, v[2])
          [] v[1] = "Uint8Array" -> LenPrefixed(BYTES, v[2])
          [] OTHER -> IF \E i \in DOMAIN parts : parts[i] = <<>> THEN <<>>
                      ELSE Header(IF v[1] = "array" THEN SEQ ELSE RECORD, Len(v[2]))
                           \o FlattenSeq(parts)
=============================================================================
