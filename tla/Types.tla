------------------------------- MODULE Types -------------------------------
(***************************************************************************)
(* How a Rust signature becomes a boundary signature: the classifiers and  *)
(* generators of crates/bffi-macros, the descriptor types of               *)
(* crates/bffi/src/dts/ir.rs, and the JS loader that reads the descriptor. *)
(*                                                                         *)
(* A Rust type is a tuple: a plain path is <<"u32">>, a generic one        *)
(* <<"Vec", item>>, a reference <<"&", target>>, the empty tuple <<>>; the *)
(* error type of a Result is left out.  Shape declares the user's records  *)
(* and enums.  Kinds and TypeScript types are tuples too, <<"| null", t>>  *)
(* standing for `t | null`.                                                *)
(***************************************************************************)
EXTENDS Wire

CONSTANT Shape      \* name -> [fields, variants], no variants for a record

Narrow == {"i8", "i16", "i32", "u8", "u16"}
Wide == {"u32", "f32", "f64"}
Floats == {"f32", "f64"}
Prims == Narrow \cup Wide \cup {"bool"}
BigInts == {"i64", "u64"}
ByteVec == <<"Vec", <<"u8">>>>
Buffers == {<<"String">>, <<"CopiedBuf">>, ByteVec}

\* Bare names that are no record: DENIED_BARE_NAMES, and those no sequence takes.
Unsized == {"str", "char", "i128", "u128", "isize", "usize", "CopiedBuf"}
Denied == Unsized \cup {"String", "Option"}

Plain(ty) == Len(ty) = 1
Generic(ty, name) == Len(ty) = 2 /\ ty[1] = name
Rejected == <<"rejected">>
Wrapped(wrapper, kind) == IF kind = Rejected THEN Rejected ELSE <<wrapper, kind>>

-----------------------------------------------------------------------------
(* The classifiers.                                                        *)

PathKind(ty) ==
    IF ~Plain(ty) THEN Rejected
    ELSE IF ty[1] \in Prims THEN <<"Prim", ty[1]>>
    ELSE IF ty[1] \in BigInts THEN <<"BigInt", ty[1]>> ELSE Rejected

ItemOf == [n \in Narrow |-> "Narrow"] @@ [n \in Wide |-> "Wide"]
          @@ "i64" :> "I64" @@ "u64" :> "U64" @@ "bool" :> "Bool" @@ "String" :> "Str"

SeqItem(ty) ==
    IF ty = ByteVec THEN <<"Bytes">>
    ELSE IF ~Plain(ty) \/ ty[1] \in Unsized THEN Rejected
    ELSE IF ty[1] \in DOMAIN ItemOf THEN <<ItemOf[ty[1]]>> ELSE <<"Record", ty[1]>>

\* What a parameter may be, and an optional one may hold: classify_param and
\* option_param_inner take the same types, and neither a nested Option.
ParamKind(ty) ==
    CASE PathKind(ty) # Rejected -> PathKind(ty)
      [] ty = <<"&", <<"str">>>> -> <<"Str">>
      [] ty = <<"&", <<"slice", <<"u8">>>>>> -> <<"BufferView">>
      [] Generic(ty, "Vec") /\ ty # ByteVec -> Wrapped("Seq", SeqItem(ty[2]))
      [] PathKind(ty) = Rejected /\ Plain(ty) /\ ty[1] \notin Denied -> <<"Record", ty[1]>>
      [] OTHER -> Rejected
ClassifyParam(ty) ==
    IF Generic(ty, "Option") THEN Wrapped("Opt", ParamKind(ty[2])) ELSE ParamKind(ty)

NullableReturn(ty) ==
    CASE ty \in Buffers -> <<"Nullable", ty>>
      [] Plain(ty) /\ PathKind(ty) = Rejected /\ ty[1] \notin Denied -> <<"NullableRecord", ty[1]>>
      [] Generic(ty, "Vec") /\ ty # ByteVec -> Wrapped("NullableSeq", SeqItem(ty[2]))
      [] OTHER -> Rejected

RECURSIVE ClassifyReturn(_)
ClassifyReturn(ty) ==
    CASE ty = <<>> -> <<"Unit">>
      [] PathKind(ty) # Rejected -> PathKind(ty)
      [] ty \in Buffers -> <<"Buffer", ty>>
      [] Generic(ty, "Vec") /\ ty # ByteVec -> Wrapped("Seq", SeqItem(ty[2]))
      [] Generic(ty, "Option") -> NullableReturn(ty[2])
      [] Generic(ty, "Result") -> Wrapped("Result", ClassifyReturn(ty[2]))
      [] Plain(ty) /\ PathKind(ty) = Rejected /\ ty[1] \notin Denied -> <<"Record", ty[1]>>
      [] OTHER -> Rejected

\* An async parameter is owned; its ABI is that of the borrowed twin.
ClassifyAsyncParam(ty) ==
    CASE PathKind(ty) # Rejected -> PathKind(ty)
      [] ty = <<"String">> -> <<"Str">>
      [] ty = ByteVec -> <<"BufferView">>
      [] OTHER -> Rejected

\* A record field: no bare name is refused, an unknown one is a nested type.
RECURSIVE FieldKind(_)
FieldKind(ty) ==
    CASE Plain(ty) -> IF ty[1] \in DOMAIN ItemOf THEN <<ItemOf[ty[1]]>> ELSE <<"Record", ty[1]>>
      [] ty = ByteVec -> <<"Bytes">>
      [] Generic(ty, "Vec") /\ ty # ByteVec -> Wrapped("Seq", SeqItem(ty[2]))
      [] Generic(ty, "Option") /\ ~Generic(ty[2], "Option") -> Wrapped("Opt", FieldKind(ty[2]))
      [] OTHER -> Rejected

StreamItem(ty) ==
    LET ok == IF Generic(ty, "Result") THEN ty[2] ELSE ty
        item == IF Plain(ok) \/ ok = ByteVec THEN FieldKind(ok) ELSE Rejected
    IN  IF Generic(ty, "Result") THEN Wrapped("ResultItem", item) ELSE item

-----------------------------------------------------------------------------
(* TypeScript types.                                                       *)

Scalars == {<<"number">>, <<"bigint">>, <<"boolean">>, <<"string">>, <<"Uint8Array">>}
TsItems == Scalars \cup {<<"named", n>> : n \in DOMAIN Shape}
TsArrays == {<<"[]", t>> : t \in TsItems}

\* Every type the descriptor can spell: TsType::as_str.
TsTypes ==
    LET values == TsItems \cup TsArrays
        awaitedOrNull == values \ {<<"number">>, <<"bigint">>, <<"boolean">>}
    IN  values \cup {<<"void">>} \cup {<<"| null", t>> : t \in values}
        \cup {<<"Promise", t>> : t \in values \cup {<<"void">>}}
        \cup {<<"Promise", <<"| null", t>>>> : t \in awaitedOrNull}
        \cup {<<"AsyncIterableIterator", t>> : t \in TsItems}
        \cup {<<"AsyncIterableIterator", <<"| Error", t>>>> : t \in TsItems}

TsPrim(prim) == IF prim = "bool" THEN <<"boolean">> ELSE <<"number">>
TsItem(item) ==
    IF item[1] = "Record" THEN <<"named", item[2]>>
    ELSE ("Narrow" :> <<"number">> @@ "Wide" :> <<"number">> @@ "I64" :> <<"bigint">>
          @@ "U64" :> <<"bigint">> @@ "Bool" :> <<"boolean">> @@ "Str" :> <<"string">>
          @@ "Bytes" :> <<"Uint8Array">>)[item[1]]
TsBuffer(ty) == IF ty = <<"String">> THEN <<"string">> ELSE <<"Uint8Array">>

RECURSIVE TsType(_), TsReturn(_), TsField(_)
TsType(kind) ==
    CASE kind[1] = "Prim" -> TsPrim(kind[2])
      [] kind[1] = "BigInt" -> <<"bigint">>
      [] kind[1] = "Str" -> <<"string">>
      [] kind[1] = "BufferView" -> <<"Uint8Array">>
      [] kind[1] = "Record" -> <<"named", kind[2]>>
      [] kind[1] = "Seq" -> <<"[]", TsItem(kind[2])>>
      [] kind[1] = "Opt" -> <<"| null", TsType(kind[2])>>

TsReturn(ret) ==
    CASE ret[1] = "Unit" -> <<"void">>
      [] ret[1] \in {"Prim", "BigInt", "Record", "Seq"} -> TsType(ret)
      [] ret[1] = "Buffer" -> TsBuffer(ret[2])
      [] ret[1] = "Nullable" -> <<"| null", TsBuffer(ret[2])>>
      [] ret[1] = "NullableRecord" -> <<"| null", <<"named", ret[2]>>>>
      [] ret[1] = "NullableSeq" -> <<"| null", <<"[]", TsItem(ret[2])>>>>
      [] ret[1] = "Result" -> TsReturn(ret[2])

TsPromise(ret) == <<"Promise", TsReturn(ret)>>

TsStream(item) ==
    <<"AsyncIterableIterator",
      IF item[1] = "ResultItem" THEN <<"| Error", TsItem(item[2])>> ELSE TsItem(item)>>

\* The `ts` of a field of a record or of a variant.
TsField(kind) ==
    CASE kind[1] = "Seq" -> <<"[]", TsItem(kind[2])>>
      [] kind[1] = "Opt" -> <<"| null", TsField(kind[2])>>
      [] OTHER -> TsItem(kind)
=============================================================================
