------------------------------ MODULE Numbers ------------------------------
(***************************************************************************)
(* JsNumber of crates/bffi/src/types/num.rs: the conversions between a     *)
(* JavaScript number and the fixed-width integers.                         *)
(*                                                                         *)
(* Floats are modelled by their grid.  A number is finite with its value   *)
(* counted in halves (halves are the only fractions), NaN or an infinity;  *)
(* an f64 keeps Mant64 significant bits (53), an f32 Mant32 (24), and      *)
(* rounds to nearest, ties to even.  Widths are parameters: an instance    *)
(* keeps their order, i8 < i16 < f32 < i32 < f64 < i64.                    *)
(***************************************************************************)
EXTENDS Integers

CONSTANTS Bits, Mant64, Mant32

Signed == {"i8", "i16", "i32", "i64"}
Unsigned == {"u8", "u16", "u32", "u64"}
Ints == Signed \cup Unsigned

ASSUME NumbersAssumption == Bits \in [Ints -> Nat \ {0}] /\ {Mant64, Mant32} \subseteq Nat

Lo(ty) == IF ty \in Signed THEN -(2 ^ (Bits[ty] - 1)) ELSE 0
Hi(ty) == 2 ^ (IF ty \in Signed THEN Bits[ty] - 1 ELSE Bits[ty]) - 1
InRange(ty, n) == n \in Lo(ty) .. Hi(ty)

Num(h) == [kind |-> "finite", halves |-> h]
Integer(n) == Num(2 * n)
Special == [kind : {"NaN", "Infinity", "-Infinity"}, halves : {0}]
Finite(x) == x.kind = "finite"

Trunc(h) == IF h >= 0 THEN h \div 2 ELSE -((-h) \div 2)
Abs(n) == IF n < 0 THEN -n ELSE n

\* `as f64`, `as f32`: the nearest value with that many significant bits.
Round(mant, h) ==
    LET a == Abs(h)
        ulp == 2 ^ (CHOOSE e \in 0 .. a : a < 2 ^ (mant + e) /\ (e = 0 \/ a >= 2 ^ (mant + e - 1)))
        down == a \div ulp
        up == \/ 2 * (a % ulp) > ulp
              \/ 2 * (a % ulp) = ulp /\ down % 2 = 1
        near == (IF up THEN down + 1 ELSE down) * ulp
    IN  IF h < 0 THEN -near ELSE near

Ok(v) == [ok |-> TRUE, value |-> v]
Refused(why) == [ok |-> FALSE, value |-> why]

-----------------------------------------------------------------------------
\* The strict_int! family: truncation toward zero, then the range.
TryIntoSmall(ty, x) ==
    IF ~Finite(x) THEN Refused("NotFinite")
    ELSE IF InRange(ty, Trunc(x.halves)) THEN Ok(Trunc(x.halves)) ELSE Refused("OutOfRange")

\* Mutant: the range of the type is tested, not that of the exact integers.
TryIntoWide_AnyMagnitude(ty, x) ==
    LET t == Trunc(x.halves)
    IN  IF ~Finite(x) THEN Refused("NotFinite")
        ELSE IF x.halves = 2 * t /\ InRange(ty, t) THEN Ok(t) ELSE Refused("OutOfRange")

\* try_into_i64, try_into_u64: whole numbers up to the exact-integer limit.
TryIntoWide(ty, x) ==
    LET low == IF ty = "i64" THEN -(2 ^ Mant64) ELSE 0
        t == Trunc(x.halves)
    IN  IF ~Finite(x) THEN Refused("NotFinite")
        ELSE IF x.halves = 2 * t /\ t \in low .. 2 ^ Mant64 THEN Ok(t) ELSE Refused("OutOfRange")
TryInto(ty, x) == IF ty \in {"i64", "u64"} THEN TryIntoWide(ty, x) ELSE TryIntoSmall(ty, x)

TryIntoF32(x) ==
    IF x.kind = "NaN" THEN Refused("NotFinite")
    ELSE IF ~Finite(x) \/ Round(Mant32, x.halves) = x.halves THEN Ok(x) ELSE Refused("OutOfRange")

\* Rust's `as`: clamp to the bounds, NaN to zero.
Saturating(ty, x) ==
    CASE x.kind = "NaN" -> 0
      [] x.kind = "Infinity" -> Hi(ty)
      [] x.kind = "-Infinity" -> Lo(ty)
      [] OTHER -> LET t == Trunc(x.halves)
                  IN  IF t < Lo(ty) THEN Lo(ty) ELSE IF t > Hi(ty) THEN Hi(ty) ELSE t

\* ToUint32 and ToInt32: fmod keeps the sign of its dividend.
Fmod(n, m) == IF n >= 0 THEN n % m ELSE -((-n) % m)
JsMod(x) ==
    LET m == 2 ^ Bits["u32"]
        r == Fmod(Trunc(x.halves), m)
    IN  IF ~Finite(x) THEN 0 ELSE IF r < 0 THEN r + m ELSE r
ToU32Js(x) == JsMod(x)
ToI32Js(x) == IF JsMod(x) >= 2 ^ (Bits["u32"] - 1) THEN JsMod(x) - 2 ^ Bits["u32"] ELSE JsMod(x)

\* try_from_i64, try_from_u64 and their lossy twins.
TryFromWide(n) == IF Abs(n) <= 2 ^ Mant64 THEN Ok(Integer(n)) ELSE Refused("OutOfRange")
FromLossy(n) == Num(Round(Mant64, 2 * n))

\* lossless_from!: every narrow type, whose range f64 covers.
LosslessFrom(n) == Integer(n)
=============================================================================
