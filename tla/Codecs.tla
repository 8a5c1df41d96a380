------------------------------- MODULE Codecs -------------------------------
(***************************************************************************)
(* What the conversions of the boundary promise, checked over bounded      *)
(* inputs: a step draws one input, the invariants say what every function  *)
(* on its way makes of it.  Numbers and texts are drawn by Primitives.     *)
(***************************************************************************)
EXTENDS Shims, Primitives

CONSTANTS
    RawCells,       \* cells of a hand-made wire buffer
    MaxRaw,         \* how many follow its nested headers
    Params, AsyncParams, Returns, AsyncReturns, Items,  \* Rust types
    CallbackArgs,   \* ValueType -> its JS values
    Trees           \* values of Tree, a record of Vec<Tree>

VARIABLE input

Init == PrimitivesInit /\ input = <<"none">>
Fresh == input = <<"none">> /\ PrimitivesInit

-----------------------------------------------------------------------------
(* The values of a type.                                                   *)

Texts == {<<>>, <<65>>, <<194, 160>>, <<65, 0>>}
Blobs == {<<>>, <<200, 1>>}
RECURSIVE Values(_), Product(_)
Product(tys) ==
    IF tys = <<>> THEN {<<>>}
    ELSE {<<v>> \o rest : v \in Values(Head(tys)), rest \in Product(Tail(tys))}
Values(ty) ==
    CASE ty = <<>> -> {<<>>}
      [] Plain(ty) /\ ty[1] \in Ints -> {Lo(ty[1]), 0, 1, Hi(ty[1])} \cup (IF ty[1] \in Signed THEN {-1} ELSE {})
      [] ty \in {<<"f32">>, <<"f64">>} -> {Num(h) : h \in {-3, 0, 2, 14}} \cup Special
      [] ty = <<"bool">> -> BOOLEAN
      [] ty \in {<<"String">>, <<"&", <<"str">>>>} -> Texts
      [] ty \in {ByteVec, <<"CopiedBuf">>, <<"&", <<"slice", <<"u8">>>>>>} -> Blobs
      [] Generic(ty, "Option") -> {<<>>} \cup {<<v>> : v \in Values(ty[2])}
      [] Generic(ty, "Result") -> Values(ty[2])
      [] Generic(ty, "Vec") /\ ty # ByteVec ->
           LET items == Values(ty[2]) IN {<<>>} \cup {<<v>> : v \in items} \cup {<<v, v>> : v \in items}
      [] ty[1] \in DOMAIN Shape ->
           LET shape == Shape[ty[1]]
           IN  IF shape.variants = <<>> THEN Product(shape.fields)
               ELSE UNION {{<<i, f>> : f \in Product(shape.variants[i].fields)} :
                             i \in DOMAIN shape.variants}

\* The JS value that stands for v.
RECURSIVE Js(_, _)
Js(ty, v) ==
    LET all(tys, vs) == [i \in DOMAIN vs |-> Js(tys[i], vs[i])]
        variant == Shape[ty[1]].variants[v[1]]
    IN  CASE ty = <<>> -> <<"undefined">>
          [] Plain(ty) /\ ty[1] \in Ints \ BigInts -> <<"number", Integer(v)>>
          [] Plain(ty) /\ ty[1] \in Floats -> <<"number", v>>
          [] Plain(ty) /\ ty[1] \in BigInts -> <<"bigint", v>>
          [] ty = <<"bool">> -> <<"boolean", v>>
          [] ty \in {<<"String">>, <<"&", <<"str">>>>} -> <<"string", v>>
          [] ty \in {ByteVec, <<"CopiedBuf">>, <<"&", <<"slice", <<"u8">>>>>>} -> <<"Uint8Array", v>>
          [] Generic(ty, "Option") -> IF v = <<>> THEN Null ELSE Js(ty[2], v[1])
          [] Generic(ty, "Result") -> Js(ty[2], v)
          [] Generic(ty, "Vec") /\ ty # ByteVec -> <<"array", all([i \in DOMAIN v |-> ty[2]], v)>>
          [] ty[1] \in DOMAIN Shape ->
               IF Shape[ty[1]].variants = <<>> THEN <<"object", all(Shape[ty[1]].fields, v)>>
               ELSE IF HasPayload(ty[1])
                    THEN <<"object", <<<<"string", variant.name>>>> \o all(variant.fields, v[2])>>
               ELSE <<"string", variant.name>>

-----------------------------------------------------------------------------
(* Drawing an input.                                                       *)

\* A wire buffer somebody else wrote: headers of one child each, then anything.
Raw == /\ Fresh
       /\ \E tag \in {RECORD, SEQ}, depth \in 0 .. MaxDepth + 1, n \in 0 .. MaxRaw :
            \E cells \in [1 .. n -> RawCells] :
              input' = <<"raw", FlattenSeq([i \in 1 .. depth |-> Header(tag, 1)]) \o cells>>

RichError == /\ Fresh
             /\ \E variant, message \in Blobs, payload \in {<<>>, <<RECORD, 0>>} :
                  input' = <<"error", [code |-> 13, variant |-> variant, message |-> message,
                                       payload |-> payload]>>

\* A tree, decoded by a thread whose last payload ended anywhere.
Nested == /\ Fresh
          /\ \E tree \in Trees, start \in 0 .. 4, count \in 0 .. 2, depth \in 1 .. MaxDepth + 1 :
               input' = <<"tree", tree, [start |-> start, count |-> count, depth |-> depth]>>

Pass(kind, types) == Fresh /\ \E ty \in types : \E v \in Values(ty) : input' = <<kind, ty, v>>
Argument == Pass("argument", Params)
AsyncArgument == Pass("asyncArgument", AsyncParams)
Return == Pass("return", Returns)
AsyncReturn == Pass("asyncReturn", AsyncReturns)

Callback == /\ Fresh
            /\ \E params \in UNION {[1 .. n -> DOMAIN CallbackArgs] : n \in 0 .. 2} :
                 \E args \in [DOMAIN params -> UNION {CallbackArgs[t] : t \in DOMAIN CallbackArgs}] :
                   /\ \A i \in DOMAIN params : args[i] \in CallbackArgs[params[i]]
                   /\ input' = <<"callback", params, args>>

\* Two items of a stream, of a fallible one possibly an error.
Stream == /\ Fresh
          /\ \E ty \in Items :
               LET values == IF Generic(ty, "Result")
                             THEN {<<"Ok", v>> : v \in Values(ty[2])} \cup {<<"Err", t>> : t \in Texts}
                             ELSE Values(ty)
               IN  \E first, second \in values : input' = <<"stream", ty, <<first, second>>>>

Next == \/ /\ \/ Raw \/ RichError \/ Nested
              \/ Argument \/ AsyncArgument \/ Callback
              \/ Return \/ AsyncReturn \/ Stream
           /\ UNCHANGED <<number, text>>
        \/ input = <<"none">> /\ PrimitivesNext /\ UNCHANGED input

Spec == Init /\ [][Next]_<<input, number, text>>

-----------------------------------------------------------------------------
(* Properties.                                                             *)

\* The JS decoder as a reader of an argument record.
JsSees(v) ==
    CASE v.type = "Unit" -> <<"undefined">>
      [] v.type = "I32" -> <<"number", Integer(v.payload[1])>>
      [] v.type = "F64" -> <<"number", v.payload[1]>>
      [] v.type \in {"I64", "U64"} -> <<"bigint", v.payload[1]>>
      [] v.type = "Bool" -> <<"boolean", v.payload[1] # 0>>
      [] v.type = "Str" -> <<"string", v.payload>>
      [] v.type = "Bytes" -> <<"Uint8Array", v.payload>>
      [] v.type = "Wire" -> JsDecode(v.payload, 0, 0).value

\* Whatever the bytes, the Rust and the JS decoder find the same values ending
\* at the same place, and a value encodes to what it was read from: an argument
\* list that decodes is read alike by JS, record by record.  A rich error comes
\* back as it was.  types/wire.rs, callback/abi.rs, wire.ts.
WireSidesAgree ==
    /\ input[1] = "raw" /\ input[2] # <<>> =>
         LET b == input[2]
             rust == DecodeArg(b, 0)
             end == RecordEnd(b, 0, 0)
             js == JsDecode(b, 0, 0)
             args == DecodeArgs(b)
         IN  /\ rust.ok => /\ js.ok /\ js.next = rust.next /\ js.value = JsSees(rust.value)
                           /\ end = rust.next
             /\ js.ok /\ Cell(b, 0) # ERROR /\ rust.ok = FALSE =>
                  \/ Cell(b, 0) = STR /\ ~Validate(js.value[2])
                  \/ js.next > Len(b)
             /\ args.ok => DecodeArgs(FlattenSeq([i \in DOMAIN args.value |-> EncodeArg(args.value[i])])) = args
    /\ input[1] = "error" =>
         LET b == EncodeErrorRich(input[2]) IN DecodeErrorRich(b, 0) = Read(input[2], Len(b))

\* The longest run of composites of one child each, c of them already open.
RECURSIVE Chain(_, _)
Chain(tree, c) ==
    LET children == tree[1]
        open == IF Len(children) = 1 THEN c + 2 ELSE 0
    IN  Max({c + 2} \cup {Chain(children[i], open) : i \in DOMAIN children})

\* A payload is refused for its depth exactly when it nests deeper than the
\* limit, and never because of what the thread decoded before: LAST_COMPOSITE
\* outlives a decode, a failed one too.  types/wire.rs.
DepthRespected ==
    input[1] = "tree" =>
        DecodePayload(<<"Tree">>, PutShape("Tree", input[2]), input[3]).ok
            = (Chain(input[2], 0) <= MaxDepth)

AsSlots(types) == [i \in DOMAIN types |-> IF types[i] = "bool" THEN "u8" ELSE types[i]]

\* Every drawn type is one a macro accepts, a Result of a Result among them, and
\* has one C signature on both sides: dlopen is told the parameters and the out
\* slot the shim was compiled with, and the descriptor can spell the TypeScript
\* type.  support/{codegen,abi}.rs, loader.ts, dts/ir.rs.
SignaturesAgree ==
    LET ty == input[2]
        param == IF input[1] = "argument" THEN ClassifyParam(ty) ELSE ClassifyAsyncParam(ty)
        ret == ClassifyReturn(ty)
    IN  /\ input[1] \in {"argument", "asyncArgument"} =>
             /\ param # Rejected /\ AbiParam(param) \in AbiNames /\ TsType(param) \in TsTypes
             /\ AsSlots(ShimParam(param)) = FfiArg(AbiParam(param))
        /\ input[1] \in {"return", "asyncReturn"} => ret # Rejected
        /\ input[1] = "return" =>
             TsReturn(ret) \in TsTypes /\ AsSlots(OutParam(ret)) = AllocOut(AbiOut(ret))
        /\ input[1] = "asyncReturn" => TsPromise(ret) \in TsTypes
        /\ input[1] = "stream" => StreamItem(ty) # Rejected /\ TsStream(StreamItem(ty)) \in TsTypes

\* A conversion succeeded, with this value.
Gives(result, v) == result.ok /\ result.value = v

\* encodeValue throws on a negative bigint.
RECURSIVE NegativeBigInt(_)
NegativeBigInt(js) ==
    CASE js[1] = "bigint" -> js[2] < 0
      [] js[1] \in {"array", "object"} -> \E i \in DOMAIN js[2] : NegativeBigInt(js[2][i])
      [] OTHER -> FALSE

\* What JS passes is what the Rust function, or the callback, gets: by the
\* slots of every parameter type, by the owned ones of an async function, and
\* through a callback whose signature the arguments then match.  Known losses:
\* a negative bigint inside a composite or a callback throws, an optional float
\* that is not finite throws, a C string ends at its first NUL, and a whole
\* number is never an F64 of a callback.
ArgumentsArrive ==
    /\ input[1] \in {"argument", "asyncArgument"} =>
         LET ty == input[2]
             v == input[3]
             kind == IF input[1] = "argument" THEN ClassifyParam(ty) ELSE ClassifyAsyncParam(ty)
             convert(s) == IF input[1] = "argument" THEN Convert(ty, kind, s, NoComposite)
                           ELSE ConvertAsync(kind, s)
             sent == IF kind[1] = "Str" THEN CStr(v)
                     ELSE IF kind = <<"Opt", <<"Str">>>> /\ v # <<>> THEN <<CStr(v[1])>> ELSE v
         IN  \A slots \in {EncodeJsArg(AbiParam(kind), TsType(kind), Js(ty, v))} :
               IF slots.ok THEN Gives(convert(slots.value), sent)
               ELSE \/ Composite(TsType(kind)) /\ NegativeBigInt(Js(ty, v))
                    \/ ty \in {<<"Option", <<f>>>> : f \in Floats} /\ ~Finite(v[1])
    /\ input[1] = "callback" =>
         LET params == input[2]
             args == input[3]
         IN  \A bytes \in {FlattenSeq([i \in DOMAIN args |-> JsEncode(args[i])])} :
               \/ DecodeArgs(bytes).ok /\ Matches(DecodeArgs(bytes).value, params)
               \/ \E i \in DOMAIN args :
                    \/ NegativeBigInt(args[i])
                    \/ params[i] = "F64" /\ JsEncode(args[i])[1] = I32

\* What JS makes of an out slot that nothing wrote.
Zero(ts) ==
    CASE ts = <<"void">> -> <<"undefined">>
      [] ts = <<"number">> -> <<"number", Integer(0)>>
      [] ts = <<"bigint">> -> <<"bigint", 0>>
      [] ts = <<"boolean">> -> <<"boolean", FALSE>>
      [] ts \in {<<"string">>, <<"Uint8Array">>} -> <<ts[1], <<>>>>
      [] ts[1] = "| null" -> Null
      [] OTHER -> Throws

\* What Rust returns, resolves a promise with or streams is the JS value of its
\* declared type.  Known losses: an empty optional string or buffer is null, a
\* promised u32 is a bigint, and of a Result inside a Result JS gets a zero.
ReturnsArrive ==
    LET ty == input[2]
        v == input[3]
        ret == ClassifyReturn(ty)
        plain == IF ret[1] = "Result" THEN ret[2] ELSE ret
        nested == ret[1] = "Result" /\ plain[1] = "Result"
        emptyBuffer == plain[1] = "Nullable" /\ v = <<<<>>>>
        chunk == Header(SEQ, 2) \o FlattenSeq([i \in DOMAIN v |-> EncodeItem(ty, v[i])])
        item(x) == IF Generic(ty, "Result") /\ x[1] = "Err" THEN <<"Error", x[2]>>
                   ELSE IF Generic(ty, "Result") THEN Js(ty[2], x[2]) ELSE Js(ty, x)
    IN  /\ input[1] = "return" =>
             DecodeReturn(TsReturn(ret), AbiOut(ret), RetBody(ret, ty, v))
                 = IF nested THEN Zero(TsReturn(ret)) ELSE IF emptyBuffer THEN Null ELSE Js(ty, v)
        /\ input[1] = "asyncReturn" =>
             WrapTask(TsReturn(ret), AsyncTail(ret, ty, v))
                 = IF ty \in {<<"u32">>, <<"Result", <<"u32">>>>} THEN <<"bigint", v>> ELSE Js(ty, v)
        /\ input[1] = "stream" =>
             ReadChunk(StreamItemTs(TsStream(StreamItem(ty))), chunk) = [i \in DOMAIN v |-> item(v[i])]
=============================================================================
