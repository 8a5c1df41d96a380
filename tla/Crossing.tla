------------------------------ MODULE Crossing ------------------------------
(***************************************************************************)
(* What happens to a value that crosses the boundary: the codec the derive *)
(* macros generate, the parameter and return plumbing of the generated     *)
(* shims (crates/bffi-macros, async/value.rs, stream/mod.rs), and the JS   *)
(* loader on the other side (packages/bffi/src/loader, runtime).           *)
(*                                                                         *)
(* Rust values: integers, floats of Numbers, TRUE and FALSE, byte          *)
(* sequences for text and bytes, sequences for a Vec and a record's        *)
(* fields, <<>> and <<v>> for an Option, <<variant, fields>> for an enum.  *)
(* JS values are those of Wire, plus <<"object", values of the fields in   *)
(* declared order>>, where a payload enum's first field is its `kind`.     *)
(* A value that a step refuses is Throws (JS) or a refusal (Rust).         *)
(***************************************************************************)
EXTENDS Types

Throws == <<"throws">>
Null == <<"null">>

HasPayload(N) == \E i \in DOMAIN Shape[N].variants : Shape[N].variants[i].fields # <<>>
Variant(N, name) == {i \in DOMAIN Shape[N].variants : Shape[N].variants[i].name = name}

-----------------------------------------------------------------------------
(* The derived codec.                                                      *)

RECURSIVE PutItem(_, _), PutField(_, _), PutShape(_, _)

\* One item of a sequence, or a field that is no Vec and no Option.
PutItem(ty, v) ==
    LET item == SeqItem(ty)
    IN  CASE item[1] = "Narrow" -> Fixed(I32, v)
          [] item[1] = "Wide" -> Fixed(F64, IF ty[1] \in Floats THEN v ELSE Integer(v))
          [] item[1] = "I64" -> Fixed(I64, v)
          [] item[1] = "U64" -> Fixed(U64, v)
          [] item[1] = "Bool" -> Fixed(BOOL, IF v THEN 1 ELSE 0)
          [] item[1] = "Str" -> LenPrefixed(STR, v)
          [] item[1] = "Bytes" -> LenPrefixed(BYTES, v)
          [] item[1] = "Record" -> PutShape(ty[1], v)

PutSeq(ty, v) == Header(SEQ, Len(v)) \o FlattenSeq([i \in DOMAIN v |-> PutItem(ty, v[i])])

PutField(ty, v) ==
    CASE Generic(ty, "Option") -> IF v = <<>> THEN <<UNIT>> ELSE PutField(ty[2], v[1])
      [] Generic(ty, "Vec") /\ ty # ByteVec -> PutSeq(ty[2], v)
      [] OTHER -> PutItem(ty, v)

PutFields(tys, vs) == FlattenSeq([i \in DOMAIN tys |-> PutField(tys[i], vs[i])])

PutRecord(N, v) == Header(RECORD, Len(v)) \o PutFields(Shape[N].fields, v)

PutEnum(N, v) ==
    LET variant == Shape[N].variants[v[1]]
        name == LenPrefixed(STR, variant.name)
    IN  IF HasPayload(N)
        THEN Header(RECORD, 1 + Len(variant.fields)) \o name \o PutFields(variant.fields, v[2])
        ELSE name

PutShape(N, v) == IF Shape[N].variants = <<>> THEN PutRecord(N, v) ELSE PutEnum(N, v)

\* `as f32`.
Single(x) == IF Finite(x) THEN Num(Round(Mant32, x.halves)) ELSE x

\* `as _`: an integer wraps to a narrow width, a float saturates to u32.
AsType(ty, n) ==
    CASE ty[1] \in Narrow -> ((n - Lo(ty[1])) % 2 ^ Bits[ty[1]]) + Lo(ty[1])
      [] ty[1] = "u32" -> Saturating("u32", n)
      [] ty[1] = "f32" -> Single(n)
      [] ty[1] = "bool" -> n # 0
      [] OTHER -> n

RECURSIVE GetItem(_, _, _, _), GetField(_, _, _, _), GetAll(_, _, _, _), GetShape(_, _, _, _)

GetItem(ty, b, o, last) ==
    LET item == SeqItem(ty)
        d == CASE item[1] = "Narrow" -> DecodeFixed(I32, b, o)
               [] item[1] = "Wide" -> DecodeNumber(b, o)
               [] item[1] = "I64" -> DecodeFixed(I64, b, o)
               [] item[1] = "U64" -> DecodeU64Lenient(b, o)
               [] item[1] = "Bool" -> DecodeFixed(BOOL, b, o)
               [] item[1] = "Str" -> DecodeStr(b, o)
               [] item[1] = "Bytes" -> DecodeBytes(BYTES, b, o)
    IN  IF item[1] = "Record" THEN GetShape(ty[1], b, o, last)
        ELSE IF d.ok THEN [d EXCEPT !.value = AsType(ty, @)] @@ [last |-> last]
        ELSE Malformed @@ [last |-> last]

\* The values of tys, one after the other.
GetAll(tys, b, o, last) ==
    IF tys = <<>> THEN Read(<<>>, o) @@ [last |-> last]
    ELSE LET first == GetField(Head(tys), b, o, last)
             rest == GetAll(Tail(tys), b, first.next, first.last)
         IN  IF first.ok THEN [rest EXCEPT !.value = <<first.value>> \o @] ELSE first

GetSeq(ty, b, o, last) ==
    LET header == DecodeHeader(SEQ, b, o, last)
    IN  IF header.ok THEN GetAll([i \in 1 .. header.value |-> ty], b, header.next, header.last)
        ELSE header

GetField(ty, b, o, last) ==
    LET none == Has(b, o, 1) /\ Cell(b, o) = UNIT
        some == GetField(ty[2], b, o, last)
    IN  CASE Generic(ty, "Option") -> IF none THEN Read(<<>>, o + 1) @@ [last |-> last]
                                      ELSE [some EXCEPT !.value = <<@>>]
          [] Generic(ty, "Vec") /\ ty # ByteVec -> GetSeq(ty[2], b, o, last)
          [] OTHER -> GetItem(ty, b, o, last)

GetRecord(N, b, o, last) ==
    LET header == DecodeHeader(RECORD, b, o, last)
    IN  IF header.ok /\ header.value = Len(Shape[N].fields)
        THEN GetAll(Shape[N].fields, b, header.next, header.last)
        ELSE Malformed @@ [last |-> header.last]

\* The kind envelope: the variant's name, then its fields.
GetPayloadEnum(N, b, o, last) ==
    LET header == DecodeHeader(RECORD, b, o, last)
        name == DecodeStr(b, header.next)
        known == {i \in Variant(N, name.value) :
                    header.value = 1 + Len(Shape[N].variants[i].fields)}
        i == CHOOSE i \in known : TRUE
        fields == GetAll(Shape[N].variants[i].fields, b, name.next, header.last)
    IN  IF header.ok /\ name.ok /\ known # {} THEN [fields EXCEPT !.value = <<i, @>>]
        ELSE Malformed @@ [last |-> header.last]

GetUnitEnum(N, b, o, last) ==
    LET name == DecodeStr(b, o)
    IN  IF name.ok /\ Variant(N, name.value) # {}
        THEN Read(<<CHOOSE i \in Variant(N, name.value) : TRUE, <<>>>>, name.next) @@ [last |-> last]
        ELSE Malformed @@ [last |-> last]

GetShape(N, b, o, last) ==
    CASE Shape[N].variants = <<>> -> GetRecord(N, b, o, last)
      [] HasPayload(N) -> GetPayloadEnum(N, b, o, last)
      [] OTHER -> GetUnitEnum(N, b, o, last)

-----------------------------------------------------------------------------
(* The loader's composite conversions, by TypeScript type.                 *)

FieldTs(ty) == TsField(FieldKind(ty))
Composite(ts) ==
    CASE ts[1] = "| null" -> ts[2][1] \in {"[]", "named"}
      [] OTHER -> ts[1] \in {"[]", "named"}

RECURSIVE JsToWire(_, _)
JsToWire(ts, js) ==
    LET convert(tss, values) == [i \in DOMAIN values |-> JsToWire(tss[i], values[i])]
        as(kind, parts) == IF \E i \in DOMAIN parts : parts[i] = Throws THEN Throws
                           ELSE <<kind, parts>>
        fieldsTs(tys) == [i \in DOMAIN tys |-> FieldTs(tys[i])]
        variants == Shape[ts[2]].variants
        chosen == Variant(ts[2], IF js[1] = "object" THEN js[2][1][2] ELSE js[2])
        payload == fieldsTs(variants[CHOOSE i \in chosen : TRUE].fields)
    IN  CASE ts[1] = "| null" -> IF js[1] \in {"null", "undefined"} THEN <<"undefined">>
                                 ELSE JsToWire(ts[2], js)
          [] ts \in Scalars -> IF js[1] = ts[1] THEN js ELSE Throws
          [] ts[1] = "[]" -> IF js[1] # "array" THEN Throws
                             ELSE as("array", convert([i \in DOMAIN js[2] |-> ts[2]], js[2]))
          [] ts[1] = "named" /\ variants = <<>> ->
               IF js[1] # "object" THEN Throws
               ELSE as("fields", convert(fieldsTs(Shape[ts[2]].fields), js[2]))
          [] ts[1] = "named" /\ variants # <<>> /\ ~HasPayload(ts[2]) ->
               IF js[1] # "string" \/ chosen = {} THEN Throws ELSE js
          [] ts[1] = "named" /\ HasPayload(ts[2]) ->
               IF js[1] # "object" \/ chosen = {} THEN Throws
               ELSE as("fields", <<js[2][1]>> \o convert(payload, Tail(js[2])))

RECURSIVE WireToJs(_, _)
WireToJs(ts, w) ==
    LET convert(tss, values) == [i \in DOMAIN values |-> WireToJs(tss[i], values[i])]
        as(kind, parts) == IF \E i \in DOMAIN parts : parts[i] = Throws THEN Throws
                           ELSE <<kind, parts>>
        fieldsTs(tys) == [i \in DOMAIN tys |-> FieldTs(tys[i])]
        variants == Shape[ts[2]].variants
        chosen == {i \in Variant(ts[2], w[2][1][2]) : Len(w[2]) = 1 + Len(variants[i].fields)}
        payload == fieldsTs(variants[CHOOSE i \in chosen : TRUE].fields)
    IN  CASE ts[1] = "| null" -> IF w[1] = "undefined" THEN Null ELSE WireToJs(ts[2], w)
          [] ts \in Scalars -> w
          [] ts[1] = "[]" -> IF w[1] # "array" THEN Throws
                             ELSE as("array", convert([i \in DOMAIN w[2] |-> ts[2]], w[2]))
          [] ts[1] = "named" /\ variants = <<>> ->
               IF w[1] # "fields" \/ Len(w[2]) # Len(Shape[ts[2]].fields) THEN Throws
               ELSE as("object", convert(fieldsTs(Shape[ts[2]].fields), w[2]))
          [] ts[1] = "named" /\ variants # <<>> /\ ~HasPayload(ts[2]) -> w
          [] ts[1] = "named" /\ HasPayload(ts[2]) ->
               IF w[1] # "fields" \/ chosen = {} THEN Throws
               ELSE as("object", <<w[2][1]>> \o convert(payload, Tail(w[2])))
=============================================================================
