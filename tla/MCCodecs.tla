----------------------------- MODULE MCCodecs -----------------------------
(***************************************************************************)
(* Types, values and bytes for Codecs: the widths keep the order the code  *)
(* relies on (i8 < i16 < f32 < i32 < f64 < i64), the numbers are those     *)
(* around and beyond the largest of them, and the bytes are one or two of  *)
(* each class the validator tells apart.                                   *)
(***************************************************************************)
EXTENDS Codecs

MCBits == "i8" :> 2 @@ "u8" :> 2 @@ "i16" :> 3 @@ "u16" :> 3 @@ "i32" :> 5 @@ "u32" :> 5
          @@ "i64" :> 8 @@ "u64" :> 8
MCHalves == {h \in -700 .. 700 : Round(Mant64, h) = h}
MCAlphabet == {65, 128, 143, 144, 160, 192, 194, 224, 237, 240, 244, 245}
MCRawCells == 0 .. 12 \cup {200}

Opt(ty) == <<"Option", ty>>
Vec(ty) == <<"Vec", ty>>
Str == <<"&", <<"str">>>>
Slice == <<"&", <<"slice", <<"u8">>>>>>
Paths == {<<n>> : n \in Prims \cup BigInts}
Named == {<<"Point">>, <<"Line">>, <<"Color">>, <<"Shape">>}

RecordOf(fields) == [fields |-> fields, variants |-> <<>>]
EnumOf(variants) == [fields |-> <<>>, variants |-> variants]
MCShape ==
    "Point" :> RecordOf(<<<<"i16">>, Opt(<<"u32">>)>>)
    @@ "Line" :> RecordOf(<<Vec(<<"u64">>), <<"Color">>, Opt(<<"String">>)>>)
    @@ "Color" :> EnumOf(<<[name |-> <<1>>, fields |-> <<>>], [name |-> <<2>>, fields |-> <<>>]>>)
    @@ "Shape" :> EnumOf(<<[name |-> <<1>>, fields |-> <<>>],
                           [name |-> <<2>>, fields |-> <<<<"i64">>, Opt(<<"bool">>)>>]>>)
    @@ "Tree" :> RecordOf(<<Vec(<<"Tree">>)>>)

SeqTypes == {Vec(ty) : ty \in (Paths \ {<<"u8">>}) \cup Named \cup {<<"String">>, ByteVec}}
MCParams == LET plain == Paths \cup Named \cup SeqTypes \cup {Str, Slice}
            IN  plain \cup {Opt(ty) : ty \in plain}
MCAsyncParams == Paths \cup {<<"String">>, ByteVec}
Owned == {<<"String">>, <<"CopiedBuf">>, ByteVec}
MCReturns == LET nullable == Owned \cup Named \cup SeqTypes
                 plain == Paths \cup nullable \cup {Opt(ty) : ty \in nullable} \cup {<<>>}
                 fallible == {<<"Result", ty>> : ty \in plain}
             IN  plain \cup fallible \cup {<<"Result", ty>> : ty \in fallible}
\* A task's value has no conversion from an Option or a Result.
MCAsyncReturns == {ty \in MCReturns : ~(/\ Generic(ty, "Result")
                                        /\ Generic(ty[2], "Option") \/ Generic(ty[2], "Result"))}
MCItems == LET items == Paths \cup Named \cup {<<"String">>, ByteVec}
           IN  items \cup {<<"Result", ty>> : ty \in items}

MCCallbackArgs ==
    "I32" :> {<<"number", Integer(-1)>>, <<"number", Integer(2)>>}
    @@ "F64" :> {<<"number", Num(3)>>, <<"number", Integer(1)>>, <<"number", [kind |-> "NaN", halves |-> 0]>>}
    @@ "I64" :> {<<"bigint", 0>>, <<"bigint", -1>>, <<"bigint", 127>>}
    @@ "U64" :> {<<"bigint", 1>>, <<"bigint", 255>>} @@ "Bool" :> {<<"boolean", TRUE>>}
    @@ "Str" :> {<<"string", <<65>>>>} @@ "Bytes" :> {<<"Uint8Array", <<>>>>}
    @@ "Unit" :> {<<"undefined">>}
    @@ "Wire" :> {<<"array", <<<<"number", Num(3)>>>>>>, <<"fields", <<<<"string", <<>>>>, <<"array", <<>>>>>>>>}

RECURSIVE TreesOf(_)
TreesOf(depth) ==
    IF depth = 0 THEN {<<<<>>>>}
    ELSE LET smaller == TreesOf(depth - 1)
         IN  {<<<<>>>>} \cup {<<<<t>>>> : t \in smaller} \cup {<<<<t, u>>>> : t, u \in smaller}
MCTrees == TreesOf(3)
=============================================================================
