------------------------------- MODULE Shims -------------------------------
(***************************************************************************)
(* The C ABI between the loader and the generated shims: the signature the *)
(* shim is compiled with (support/codegen.rs, async_fn.rs), the one the    *)
(* descriptor records (support/abi.rs, dts/ir.rs) and the loader opens the *)
(* library with (loader/loader.ts), and the values in its slots.           *)
(*                                                                         *)
(* A slot holds a number, a pointer <<"ptr", bytes>>, or Null.  A return   *)
(* is a primitive, <<"handle", bytes>>, or Null for the 0 handle.          *)
(***************************************************************************)
EXTENDS Crossing

\* The C parameters of a shim.
ShimParam(kind) ==
    CASE kind[1] \in {"Prim", "BigInt"} -> <<kind[2]>>
      [] kind[1] = "Str" -> <<"cstring">>
      [] kind[1] \in {"BufferView", "Record", "Seq"} -> <<"ptr", "u64">>
      [] kind[1] = "Opt" ->
           CASE kind[2][1] = "Str" -> <<"cstring">>
             [] kind[2][1] = "BufferView" -> <<"ptr", "u64", "u8">>
             [] kind[2][1] \in {"Record", "Seq"} -> <<"ptr", "u64">>
             [] kind[2][1] = "Prim" -> <<"f64", "u8">>
             [] kind[2][1] = "BigInt" -> <<kind[2][2], "u8">>
RECURSIVE OutParam(_)
OutParam(ret) ==
    CASE ret[1] = "Unit" -> <<>>
      [] ret[1] \in {"Prim", "BigInt"} -> <<ret[2]>>
      [] ret[1] = "Result" -> OutParam(ret[2])
      [] OTHER -> <<"u64">>

\* AbiType and AbiOut: the descriptor's names for them.
AbiParam(kind) ==
    CASE kind[1] \in {"Prim", "BigInt"} -> kind[2]
      [] kind[1] = "Str" -> "cstring"
      [] kind[1] \in {"BufferView", "Record", "Seq"} -> "ptr_len"
      [] kind[1] = "Opt" ->
           CASE kind[2][1] = "Str" -> "cstring"
             [] kind[2][1] = "BufferView" -> "opt_ptr_len"
             [] kind[2][1] \in {"Record", "Seq"} -> "ptr_len"
             [] kind[2][1] = "Prim" -> "opt_number"
             [] kind[2] = <<"BigInt", "i64">> -> "opt_i64"
             [] kind[2] = <<"BigInt", "u64">> -> "opt_u64"
RECURSIVE AbiOut(_)
AbiOut(ret) ==
    CASE ret[1] = "Unit" -> "none"
      [] ret[1] \in {"Prim", "BigInt"} -> ret[2]
      [] ret[1] = "Result" -> AbiOut(ret[2])
      [] OTHER -> "handle"
AbiNames == Prims \cup BigInts \cup {"cstring", "ptr_len", "opt_number", "opt_i64", "opt_u64", "opt_ptr_len"}

\* What the loader makes of them: dlopen arguments, and the out slot it allocates.
FfiArg(abi) ==
    CASE abi = "bool" -> <<"u8">>
      [] abi = "ptr_len" -> <<"ptr", "u64">>
      [] abi = "opt_number" -> <<"f64", "u8">>
      [] abi = "opt_i64" -> <<"i64", "u8">>
      [] abi = "opt_u64" -> <<"u64", "u8">>
      [] abi = "opt_ptr_len" -> <<"ptr", "u64", "u8">>
      [] OTHER -> <<abi>>
\* Mutant: a handle is read from a 32-bit slot.
AllocOut_Handle(out) == IF out = "none" THEN <<>> ELSE IF out = "handle" THEN <<"u32">> ELSE <<out>>
AllocOut(out) ==
    CASE out = "none" -> <<>> [] out = "bool" -> <<"u8">> [] out = "handle" -> <<"u64">> [] OTHER -> <<out>>

-----------------------------------------------------------------------------
(* Arguments.                                                              *)

\* bun:ffi hands a number over as the C type the slot declares.
ByValue(abi, js) == IF js[1] = "number" /\ abi \notin Floats THEN Trunc(js[2].halves) ELSE js[2]
Pointer(bytes) == IF bytes = <<>> THEN Null ELSE <<"ptr", bytes>>

\* encodeArgs: the slots of one argument, or a TypeError.
EncodeJsArg(abi, ts, js) ==
    LET wire == JsToWire(ts, js)
        bytes == IF wire = Throws THEN <<>> ELSE JsEncode(wire)
        when(ok, slots) == IF ok THEN Ok(slots) ELSE Refused(<<"TypeError">>)
        orNull(slots, some) == IF js = Null THEN when(ts[1] = "| null", slots) ELSE some
        isBytes == js[1] = "Uint8Array"
    IN  CASE abi = "bool" -> when(js[1] = "boolean", <<IF js = <<"boolean", TRUE>> THEN 1 ELSE 0>>)
          [] abi = "cstring" -> orNull(<<Null>>, Ok(<<<<"ptr", js[2]>>>>))
          [] abi = "ptr_len" ->
               orNull(<<Null, 0>>, IF Composite(ts) THEN when(bytes # <<>>, <<Pointer(bytes), Len(bytes)>>)
                                   ELSE when(isBytes, <<Pointer(js[2]), Len(js[2])>>))
          [] abi = "opt_number" ->
               orNull(<<Integer(0), 0>>,
                      IF js[1] = "boolean" THEN Ok(<<Integer(IF js[2] THEN 1 ELSE 0), 1>>)
                      ELSE when(js[1] = "number" /\ Finite(js[2]), <<js[2], 1>>))
          [] abi \in {"opt_i64", "opt_u64"} -> orNull(<<0, 0>>, when(js[1] = "bigint", <<js[2], 1>>))
          [] abi = "opt_ptr_len" ->
               orNull(<<Null, 0, 0>>, when(isBytes, <<Pointer(js[2]), Len(js[2]), 1>>))
          [] OTHER -> Ok(<<ByValue(abi, js)>>)

\* CStr::from_ptr: up to the first NUL.
CStr(bytes) ==
    LET nul == {i \in DOMAIN bytes : bytes[i] = 0}
    IN  IF nul = {} THEN bytes ELSE SubSeq(bytes, 1, Min(nul) - 1)
StrView(ptr) == IF Validate(CStr(ptr[2])) THEN Ok(CStr(ptr[2])) ELSE Refused("InvalidUtf8")

\* One wire payload, read from its start; what the thread decoded last lives on.
DecodePayload(ty, bytes, last) ==
    LET d == GetField(ty, bytes, 0, last)
    IN  IF d.ok THEN Ok(d.value) ELSE Refused("InvalidArgument")

\* The conversion preamble of a parameter.
ConvertParam(ty, kind, s, last) ==
    CASE kind[1] \in {"Prim", "BigInt"} -> Ok(IF kind[2] = "bool" THEN s[1] # 0 ELSE s[1])
      [] kind[1] = "Str" -> IF s[1] = Null THEN Refused("NullPointer") ELSE StrView(s[1])
      [] kind[1] = "BufferView" ->
           IF s[2] = 0 THEN Ok(<<>>)
           ELSE IF s[1] = Null THEN Refused("NullPointer") ELSE Ok(s[1][2])
      [] kind[1] \in {"Record", "Seq"} ->
           IF s[2] = 0 \/ s[1] = Null THEN Refused("NullPointer")
           ELSE DecodePayload(ty, s[1][2], last)

\* The same for an Option: the nullable slot of each inner kind is None.
ConvertOpt(ty, inner, s, last) ==
    LET none == CASE inner[1] = "Str" -> s[1] = Null
                  [] inner[1] = "BufferView" -> s[3] = 0
                  [] inner[1] \in {"Record", "Seq"} -> s[2] = 0 \/ s[1] = Null
                  [] inner[1] \in {"Prim", "BigInt"} -> s[2] = 0
        some == IF inner[1] # "Prim" THEN ConvertParam(ty, inner, s, last)
                ELSE Ok(CASE inner[2] = "bool" -> s[1] # Integer(0)
                          [] inner[2] = "f64" -> s[1]
                          [] inner[2] = "f32" -> Single(s[1])
                          [] OTHER -> Saturating(inner[2], s[1]))
    IN  IF none THEN Ok(<<>>) ELSE IF some.ok THEN Ok(<<some.value>>) ELSE some

Convert(ty, kind, s, last) ==
    IF kind[1] = "Opt" THEN ConvertOpt(ty[2], kind[2], s, last) ELSE ConvertParam(ty, kind, s, last)

\* The spawn shim of an async function copies its arguments before the task
\* exists; of no bytes it copies none, whatever the pointer is.
ConvertAsync(kind, s) ==
    CASE kind[1] \in {"Prim", "BigInt"} -> Ok(IF kind[2] = "bool" THEN s[1] # 0 ELSE s[1])
      [] kind[1] = "Str" -> IF s[1] = Null THEN Refused("NullPointer") ELSE StrView(s[1])
      [] kind[1] = "BufferView" ->
           IF s[2] > 0 /\ s[1] = Null THEN Refused("NullPointer")
           ELSE Ok(IF s[2] = 0 THEN <<>> ELSE s[1][2])

-----------------------------------------------------------------------------
(* Synchronous returns.                                                    *)

WireEncodeValue(ret, ty, v) == IF ret[1] = "Seq" THEN PutSeq(ty[2], v) ELSE PutShape(ty[1], v)

\* Mutant: None is stored as an empty buffer.
NullableTail_Empty(some, v) == IF v = <<>> THEN <<"handle", <<>>>> ELSE some
NullableTail(some, v) == IF v = <<>> THEN Null ELSE some

\* The out slot as the loader allocated it, which nothing wrote.
Untouched(out) ==
    CASE out \in {"none", "handle"} -> Null
      [] out = "bool" -> FALSE
      [] out \in Floats -> Integer(0)
      [] OTHER -> 0

\* The slot of a value; that of an inner Result is not written.
RECURSIVE ValueTail(_, _, _)
ValueTail(ret, ty, v) ==
    CASE ret[1] = "Unit" -> Null
      [] ret[1] \in {"Prim", "BigInt"} -> v
      [] ret[1] = "Buffer" -> <<"handle", v>>
      [] ret[1] \in {"Record", "Seq"} -> <<"handle", WireEncodeValue(ret, ty, v)>>
      [] ret[1] = "Nullable" -> NullableTail(<<"handle", v[1]>>, v)
      [] ret[1] = "NullableRecord" -> NullableTail(ValueTail(<<"Record">>, ty[2], v[1]), v)
      [] ret[1] = "NullableSeq" -> NullableTail(ValueTail(<<"Seq">>, ty[2], v[1]), v)
      [] ret[1] = "Result" -> Untouched(AbiOut(ret))

\* A Result is opened once, here; its Err is a status and no value.
RetBody(ret, ty, v) ==
    IF ret[1] = "Result" THEN ValueTail(ret[2], ty[2], v) ELSE ValueTail(ret, ty, v)

\* The value in a primitive out slot.
ReadOut(out, raw) ==
    CASE out = "none" -> <<"undefined">>
      [] out = "bool" -> <<"boolean", raw>>
      [] out \in BigInts -> <<"bigint", raw>>
      [] out \in Floats -> <<"number", raw>>
      [] OTHER -> <<"number", Integer(raw)>>
\* readBuffer finds no bytes behind the 0 handle.
DecodeReturn(ts, out, raw) ==
    LET bytes == IF raw = Null THEN <<>> ELSE raw[2]
        bare == IF ts[1] = "| null" THEN ts[2] ELSE ts
        decoded == JsDecode(bytes, 0, 0)
    IN  CASE out # "handle" -> ReadOut(out, raw)
          [] out = "handle" ->
               IF raw = Null /\ ts[1] = "| null" THEN Null
               ELSE IF Composite(ts)
                    THEN IF decoded.ok THEN WireToJs(bare, decoded.value) ELSE Throws
               ELSE IF ts[1] = "| null" /\ bytes = <<>> THEN Null
               ELSE <<bare[1], bytes>>

-----------------------------------------------------------------------------
(* What a promise and a stream carry.                                      *)

\* From<T> for AsyncValue, then AsyncValue::encode.
AsyncValueOf(ty, v) ==
    CASE ty = <<>> -> <<UNIT>>
      [] ty \in Buffers \ {<<"String">>} -> LenPrefixed(BYTES, v)
      [] ty = <<"String">> -> LenPrefixed(STR, v)
      [] Plain(ty) /\ ty[1] \in Narrow -> Fixed(I32, v)
      [] Plain(ty) /\ ty[1] \in {"u32", "i64"} -> Fixed(I64, v)
      [] ty = <<"u64">> -> Fixed(U64, v)
      [] Plain(ty) /\ ty[1] \in Floats -> Fixed(F64, v)
      [] ty = <<"bool">> -> Fixed(BOOL, IF v THEN 1 ELSE 0)

AsyncValueFrom(ret, ty, v) ==
    IF ret[1] \in {"Record", "Seq"} THEN WireEncodeValue(ret, ty, v) ELSE AsyncValueOf(ty, v)

AsyncTail(ret, ty, v) ==
    CASE ret[1] = "Result" -> AsyncValueFrom(ret[2], ty[2], v)
      [] ret[1] \in {"Nullable", "NullableRecord", "NullableSeq"} ->
           IF v = <<>> THEN <<UNIT>> ELSE AsyncValueFrom(ClassifyReturn(ty[2]), ty[2], v[1])
      [] OTHER -> AsyncValueFrom(ret, ty, v)

\* wrapTask: what the promise of a `Promise<ts>` resolves with.
WrapTask(ts, bytes) ==
    LET d == JsDecode(bytes, 0, 0)
        bare == IF ts[1] = "| null" THEN ts[2] ELSE ts
    IN  CASE ~d.ok -> Throws
          [] d.ok /\ ts[1] = "| null" /\ d.value = <<"undefined">> -> Null
          [] OTHER -> IF Composite(ts) THEN WireToJs(bare, d.value) ELSE d.value

\* One stream item: BffiStreamItem::encode_into, or an error record.
EncodeItem(ty, v) == IF Generic(ty, "Result") /\ v[1] = "Err" THEN LenPrefixed(ERROR, v[2])
                     ELSE IF Generic(ty, "Result") THEN PutItem(ty[2], v[2]) ELSE PutItem(ty, v)

StreamItemTs(ts) == IF ts[2][1] = "| Error" THEN ts[2][2] ELSE ts[2]

\* The iterator's next: a chunk is one sequence, an Error passes as it is.
ReadChunk(itemTs, bytes) ==
    LET d == JsDecode(bytes, 0, 0)
    IN  IF ~d.ok THEN Throws
        ELSE [i \in DOMAIN d.value[2] |->
                 IF d.value[2][i][1] = "Error" THEN d.value[2][i] ELSE WireToJs(itemTs, d.value[2][i])]
=============================================================================
