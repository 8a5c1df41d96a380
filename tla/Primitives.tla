----------------------------- MODULE Primitives -----------------------------
(***************************************************************************)
(* What the conversions of Numbers and the validator of Utf8 promise.  A   *)
(* step draws one JS number or one more byte of a text, the invariants say *)
(* what every conversion makes of it.                                      *)
(***************************************************************************)
EXTENDS Numbers, Utf8

CONSTANTS
    Halves,         \* the finite numbers that are drawn, in halves
    Alphabet,       \* bytes a text is drawn from
    MaxText         \* longest text

ASSUME DrawAssumption == Halves \subseteq Int /\ Alphabet \subseteq 0 .. 255

\* f64 counts integers exactly up to a limit within i64 and u64, which are
\* more than a bit wider, and ToInt32 and ToUint32 share a modulus.
ASSUME WidthAssumption ==
    /\ Bits["i32"] = Bits["u32"]
    /\ Mant64 >= 1 /\ Mant64 < Bits["i64"] - 1 /\ Mant64 < Bits["u64"]

VARIABLES number, text

PrimitivesInit == number = Num(0) /\ text = <<>>

DrawNumber ==
    /\ number = Num(0) /\ text = <<>>
    /\ \E x \in Special \cup {Num(h) : h \in Halves} : number' = x
    /\ UNCHANGED text

\* One more byte, while some text may begin with those drawn so far.
DrawByte ==
    /\ number = Num(0) /\ Len(text) < MaxText
    /\ DfaRun(Start, text)[Len(text)].ok
    /\ \E b \in Alphabet : text' = Append(text, b)
    /\ UNCHANGED number

PrimitivesNext == DrawNumber \/ DrawByte
PrimitivesSpec == PrimitivesInit /\ [][PrimitivesNext]_<<number, text>>

-----------------------------------------------------------------------------
(* Numbers.                                                                *)

\* ToInt32 and ToUint32 by the name of their type.
JsInto(ty, x) == IF ty = "u32" THEN ToU32Js(x) ELSE ToI32Js(x)

\* A strict conversion gives what the saturating one gives, the value itself.
StrictExact(ty, x) ==
    TryInto(ty, x).ok => /\ TryInto(ty, x).value = Saturating(ty, x)
                         /\ TryInto(ty, x).value = Trunc(x.halves)

\* One to a wide type stands for one integer, the limit of the exact ones aside.
WideExact(ty, x) ==
    LET t == Trunc(x.halves)
    IN  TryInto(ty, x).ok =>
          /\ FromLossy(t) = x
          /\ Abs(t) = 2 ^ Mant64 \/ \A n \in {t - 1, t + 1} : FromLossy(n) # x

\* The wrapping conversions land in range, on the residue ECMAScript asks for.
WrapsExactly(ty, x) ==
    /\ InRange(ty, JsInto(ty, x))
    /\ Finite(x) => (JsInto(ty, x) - Trunc(x.halves)) % 2 ^ Bits[ty] = 0

SinglesExact(x) == TryIntoF32(x).ok /\ Finite(x) => Round(Mant32, x.halves) = x.halves

\* The checked way from i64 and u64 gives what f64::from gives: it never rounds.
WideReturnsExact(n) == TryFromWide(n).ok => FromLossy(n) = LosslessFrom(n)

\* An accepted conversion keeps the number: the value is in range, is the
\* one the saturating twin gives and the only integer that the number could
\* have stood for (the limit of exact integers aside); the saturating and the
\* wrapping ones always land in range, ToInt32 and ToUint32 on the right
\* residue; the checked way back to JS never rounds.  types/num.rs.
NumbersExact ==
    /\ \A ty \in Ints : InRange(ty, Saturating(ty, number)) /\ StrictExact(ty, number)
    /\ \A ty \in {"i64", "u64"} : WideExact(ty, number)
    /\ \A ty \in {"i32", "u32"} : WrapsExactly(ty, number)
    /\ SinglesExact(number)
    /\ WideReturnsExact(number.halves)

-----------------------------------------------------------------------------
(* Texts.                                                                  *)

\* A Unicode scalar value, no smaller than least: encoded as short as can be.
Scalar(point, least) == least <= point /\ point <= 1114111 /\ (point < 55296 \/ 57343 < point)

\* The n bytes after c are the shortest encoding of a scalar value.
Character(bytes, c, n) ==
    LET lead(mark) == bytes[c + 1] - mark
        tail(k) == bytes[c + k] - 128
    IN  /\ \A k \in 2 .. n : tail(k) \in 0 .. 63
        /\ \/ n = 1 /\ lead(0) \in 0 .. 127
           \/ n = 2 /\ lead(192) \in 0 .. 31 /\ Scalar(64 * lead(192) + tail(2), 128)
           \/ /\ n = 3 /\ lead(224) \in 0 .. 15
              /\ Scalar(4096 * lead(224) + 64 * tail(2) + tail(3), 2048)
           \/ /\ n = 4 /\ lead(240) \in 0 .. 7
              /\ Scalar(262144 * lead(240) + 4096 * tail(2) + 64 * tail(3) + tail(4), 65536)

\* UTF-8: the bytes can be cut into characters.
WellFormed(bytes) ==
    \E cuts \in SUBSET (0 .. Len(bytes)) :
      /\ {0, Len(bytes)} \subseteq cuts
      /\ \A c \in cuts \ {Len(bytes)} :
           \E n \in 1 .. 4 : c + n \in cuts /\ Character(bytes, c, n)

\* The block validator, the scalar DFA and the definition of UTF-8 accept the
\* same texts, whatever character straddles a block: types/utf8.rs.
TextChecked ==
    LET isText == WellFormed(text)
    IN  /\ Validate(text) <=> isText
        /\ ScalarDfa(text) <=> isText
        /\ BytesToString(text) = IF isText THEN <<text>> ELSE <<>>
=============================================================================
