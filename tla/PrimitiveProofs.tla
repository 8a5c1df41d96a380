-------------------------- MODULE PrimitiveProofs --------------------------
(***************************************************************************)
(* Every conversion between a JS number and an integer is exact, for every *)
(* width of the integers, every number of significant bits and every       *)
(* finite, infinite or NaN input; and the UTF-8 validator accepts exactly  *)
(* the well-formed texts, for every block size and every text.             *)
(*                                                                         *)
(* Numbers.  The powers of two are counted: 2^n is the number of subsets   *)
(* of 1 .. n, so it doubles with n and grows with it (PowersAre).          *)
(* Rounding keeps the integers up to 2^m because the exponent it takes is  *)
(* the only one that fits (OneExponent), and divides them (RoundExact).    *)
(*                                                                         *)
(* Texts.  The state of the DFA after each byte is a function of the last  *)
(* three bytes (StateAt), so the lanes of the block path are the steps of  *)
(* the DFA (LanesAreRun) and three bytes give back the state where the     *)
(* blocks end (BoundaryIs): both paths agree.  The DFA is back between two *)
(* characters exactly where a character ends (CharacterTaken and           *)
(* CharacterFound), which are the cuts of the definition of UTF-8.         *)
(***************************************************************************)
EXTENDS Primitives, FiniteSetTheorems, WellFoundedInduction, SequenceTheorems, TLAPS

-----------------------------------------------------------------------------
(* Powers of two.                                                          *)

\* 2^n is the number of subsets of n things.
LEMMA PowerCounts ==
  ASSUME NEW n \in Nat
  PROVE  IsFiniteSet(SUBSET (1 .. n)) /\ Cardinality(SUBSET (1 .. n)) = 2 ^ n /\ 2 ^ n \in Nat
<1>1. IsFiniteSet(1 .. n) /\ Cardinality(1 .. n) = n
  <2>1. IsFiniteSet(1 .. n) /\ Cardinality(1 .. n) = IF 1 > n THEN 0 ELSE n - 1 + 1
    BY FS_Interval
  <2> QED  BY <2>1
<1>2. IsFiniteSet(SUBSET (1 .. n)) /\ Cardinality(SUBSET (1 .. n)) = 2 ^ n
  BY <1>1, FS_SUBSET
<1> QED  BY <1>2, FS_CardinalityType

\* The empty set has one subset.
LEMMA PowerZero == 2 ^ 0 = 1
<1>1. 1 .. 0 = {}
  OBVIOUS
<1>2. SUBSET (1 .. 0) = {{}}
  BY <1>1
<1>3. Cardinality(SUBSET (1 .. 0)) = 1
  BY <1>2, FS_Singleton
<1> QED  BY <1>3, PowerCounts

\* A smaller set has fewer subsets.
LEMMA PowerGrows ==
  ASSUME NEW m \in Nat, NEW n \in Nat, m < n
  PROVE  2 ^ m < 2 ^ n
<1>1. SUBSET (1 .. m) \in SUBSET (SUBSET (1 .. n)) /\ n \in 1 .. n /\ n \notin 1 .. m
  OBVIOUS
<1>2. SUBSET (1 .. m) # SUBSET (1 .. n)
  BY <1>1
<1>3. /\ Cardinality(SUBSET (1 .. m)) <= Cardinality(SUBSET (1 .. n))
      /\ Cardinality(SUBSET (1 .. n)) # Cardinality(SUBSET (1 .. m))
  BY <1>1, <1>2, FS_Subset, PowerCounts
<1>4. Cardinality(SUBSET (1 .. m)) = 2 ^ m /\ Cardinality(SUBSET (1 .. n)) = 2 ^ n
  BY PowerCounts
<1>5. 2 ^ m \in Nat /\ 2 ^ n \in Nat
  BY PowerCounts
<1>6. 2 ^ m <= 2 ^ n /\ 2 ^ n # 2 ^ m
  BY <1>3, <1>4, Zenon
<1> QED  BY <1>5, <1>6

\* One more element doubles the subsets: each is taken with it and without it.
LEMMA PowerDoubles ==
  ASSUME NEW n \in Nat
  PROVE  2 ^ (n + 1) = 2 * 2 ^ n
<1> DEFINE low == SUBSET (1 .. n)
           high == {S \in SUBSET (1 .. (n + 1)) : n + 1 \in S}
           f == [S \in low |-> S \cup {n + 1}]
<1>1. low \cup high = SUBSET (1 .. (n + 1)) /\ low \cap high = {}
  <2>1. ASSUME NEW S \in SUBSET (1 .. (n + 1)), n + 1 \notin S
        PROVE  S \in low
    BY <2>1
  <2>2. low \subseteq SUBSET (1 .. (n + 1)) /\ n + 1 \notin 1 .. n
    OBVIOUS
  <2> QED  BY <2>1, <2>2
<1>2. f \in Bijection(low, high)
  <2>1. f \in [low -> high]
    OBVIOUS
  <2>2. ASSUME NEW S \in low, NEW T \in low, f[S] = f[T]
        PROVE  S = T
    <3>1. n + 1 \notin S /\ n + 1 \notin T
      OBVIOUS
    <3> QED  BY <2>2, <3>1
  <2>3. ASSUME NEW U \in high
        PROVE  \E S \in low : f[S] = U
    <3>1. U \ {n + 1} \in low
      OBVIOUS
    <3>2. f[U \ {n + 1}] = U
      BY <3>1
    <3> QED  BY <3>1, <3>2
  <2> QED  BY <2>1, <2>2, <2>3 DEF Bijection, Injection, Surjection, IsInjective
<1>3. IsFiniteSet(low) /\ IsFiniteSet(high) /\ Cardinality(high) = Cardinality(low)
  BY <1>2, PowerCounts, FS_Bijection DEF ExistsBijection
<1>4. Cardinality(low \cup high) = Cardinality(low) + Cardinality(high) - Cardinality(low \cap high)
  BY <1>3, FS_Union
<1>5. Cardinality(low \cap high) = 0
  BY <1>1, FS_EmptySet
<1> HIDE DEF low, high
<1>6. Cardinality(low) = 2 ^ n /\ 2 ^ n \in Nat
  BY PowerCounts DEF low
<1>7. Cardinality(low \cup high) = 2 ^ (n + 1)
  BY <1>1, PowerCounts, n + 1 \in Nat
<1> QED  BY <1>3, <1>4, <1>5, <1>6, <1>7

\* What the conversions need to know of the powers of two.
LEMMA PowersAre ==
  /\ 2 ^ 0 = 1
  /\ \A n \in Nat : 2 ^ n \in Nat \ {0}
  /\ \A n \in Nat : 2 ^ (n + 1) = 2 * 2 ^ n
  /\ \A m, n \in Nat : m < n => 2 ^ m < 2 ^ n
<1>1. \A n \in Nat : 2 ^ n \in Nat
  BY PowerCounts
<1>2. \A n \in Nat : 2 ^ n \in Nat \ {0}
  <2> TAKE n \in Nat
  <2>1. CASE n = 0
    BY <2>1, PowerZero
  <2>2. CASE 0 < n
    <3>1. 2 ^ 0 < 2 ^ n
      BY <2>2, PowerGrows
    <3> QED  BY <3>1, <1>1, PowerZero
  <2> QED  BY <2>1, <2>2
<1> QED  BY <1>2, PowerZero, PowerDoubles, PowerGrows

\* The remainder of a multiple is zero.
LEMMA MultiplesVanish ==
  ASSUME NEW k \in Int, NEW m \in Nat \ {0}
  PROVE  (m * k) % m = 0 /\ (m * k) \div m = k
<1>1. m * k = (m * ((m * k) \div m)) + ((m * k) % m) /\ (m * k) % m \in 0 .. (m - 1) /\ (m * k) \div m \in Int
  OBVIOUS
<1>2. PICK q \in Int, r \in 0 .. (m - 1) : q = (m * k) \div m /\ r = (m * k) % m
  BY <1>1
<1>3. m * k = m * q + r
  BY <1>1, <1>2
<1>4. m * (k - q) = r
  BY <1>3
<1>5. k - q = 0
  <2>1. PICK d \in Int : d = k - q
    OBVIOUS
  <2>2. CASE d >= 1
    <3>1. m * d >= m
      BY <2>2
    <3> QED  BY <3>1, <1>4, <2>1
  <2>3. CASE d <= -1
    <3>1. m * d <= -m
      BY <2>3
    <3> QED  BY <3>1, <1>4, <2>1
  <2> QED  BY <2>1, <2>2, <2>3
<1> QED  BY <1>2, <1>4, <1>5

\* The exponent Round takes is the only one that fits.
LEMMA OneExponent ==
  ASSUME NEW m \in Nat, NEW a \in Nat, NEW e \in 0 .. a,
         a < 2 ^ (m + e), e = 0 \/ a >= 2 ^ (m + e - 1)
  PROVE  (CHOOSE x \in 0 .. a : a < 2 ^ (m + x) /\ (x = 0 \/ a >= 2 ^ (m + x - 1))) = e
<1> DEFINE P(x) == a < 2 ^ (m + x) /\ (x = 0 \/ a >= 2 ^ (m + x - 1))
<1>1. ASSUME NEW x \in 0 .. a, NEW y \in 0 .. a, P(x), P(y), x < y
      PROVE  FALSE
  <2>1. a >= 2 ^ (m + y - 1)
    BY <1>1
  <2>2. 2 ^ (m + x) <= 2 ^ (m + y - 1)
    <3>1. PICK u \in Nat, v \in Nat : u = m + x /\ v = m + y - 1 /\ u <= v
      BY <1>1
    <3>2. 2 ^ u <= 2 ^ v
      BY <3>1, PowersAre
    <3> QED  BY <3>1, <3>2
  <2>3. 2 ^ (m + x) \in Nat /\ 2 ^ (m + y - 1) \in Nat
    <3>1. m + x \in Nat /\ m + y - 1 \in Nat
      BY <1>1
    <3> QED  BY <3>1, PowersAre
  <2> QED  BY <1>1, <2>1, <2>2, <2>3
<1>2. P(e)
  OBVIOUS
<1> HIDE DEF P
<1>3. \A x \in 0 .. a : P(x) => x = e
  BY <1>1, <1>2
<1>4. (CHOOSE x \in 0 .. a : P(x)) = e
  BY <1>2, <1>3
<1> QED  BY <1>4 DEF P

\* Integers up to 2^m survive the rounding to m significant bits.
LEMMA RoundExact ==
  ASSUME NEW m \in Nat \ {0}, NEW n \in Int, Abs(n) <= 2 ^ m
  PROVE  Round(m, 2 * n) = 2 * n
<1> DEFINE a == Abs(2 * n)
           e == CHOOSE x \in 0 .. a : a < 2 ^ (m + x) /\ (x = 0 \/ a >= 2 ^ (m + x - 1))
           RoundedBy(ulp) ==
             LET down == a \div ulp
                 up == \/ 2 * (a % ulp) > ulp
                       \/ 2 * (a % ulp) = ulp /\ down % 2 = 1
                 near == (IF up THEN down + 1 ELSE down) * ulp
             IN  IF 2 * n < 0 THEN -near ELSE near
<1>0. Round(m, 2 * n) = RoundedBy(2 ^ e)
  BY DEF Round
<1> HIDE DEF e, RoundedBy
<1>1. a \in Nat /\ a = 2 * Abs(n) /\ Abs(n) \in Nat
  BY DEF Abs
<1> HIDE DEF a
<1>2. PICK p \in Nat \ {0} : p = 2 ^ (m - 1)
  <2>1. m - 1 \in Nat
    OBVIOUS
  <2> QED  BY <2>1, PowersAre
<1>3. 2 ^ m = 2 * p /\ 2 ^ (m + 1) = 4 * p /\ 2 ^ (m + 2) = 8 * p
  <2>1. m - 1 \in Nat /\ m = (m - 1) + 1 /\ m + 2 = (m + 1) + 1 /\ m + 1 \in Nat
    OBVIOUS
  <2>2. 2 ^ m = 2 * 2 ^ (m - 1)
    BY <2>1, PowersAre
  <2>3. 2 ^ (m + 1) = 2 * 2 ^ m
    BY PowersAre
  <2>4. 2 ^ (m + 2) = 2 * 2 ^ (m + 1)
    BY <2>1, PowersAre
  <2> QED  BY <1>2, <2>2, <2>3, <2>4
<1>4. 2 ^ 0 = 1 /\ 2 ^ 1 = 2 /\ 2 ^ 2 = 4
  <2>1. 2 ^ 0 = 1
    BY PowersAre
  <2>2. 2 ^ (0 + 1) = 2 * 2 ^ 0
    BY PowersAre
  <2>3. 2 ^ (1 + 1) = 2 * 2 ^ 1
    BY PowersAre
  <2> QED  BY <2>1, <2>2, <2>3
<1>5. \E u \in {1, 2, 4} : 2 ^ e = u /\ a % u = 0
  <2>1. a <= 4 * p
    BY <1>1, <1>3
  <2>2. CASE a < 2 * p
    <3>1. a < 2 ^ (m + 0)
      BY <2>2, <1>3
    <3>2. e = 0
      <4>1. 0 \in 0 .. a
        BY <1>1
      <4> QED  BY <1>1, <3>1, <4>1, OneExponent DEF e
    <3>3. a % 1 = 0
      BY <1>1
    <3>4. 2 ^ e = 1
      BY <3>2, <1>4
    <3> QED  BY <3>3, <3>4
  <2>3. CASE 2 * p <= a /\ a < 4 * p
    <3>1. a < 2 ^ (m + 1) /\ a >= 2 ^ (m + 1 - 1) /\ 1 \in 0 .. a
      <4>1. m + 1 - 1 = m
        OBVIOUS
      <4> QED  BY <1>1, <2>3, <1>3, <4>1
    <3>2. e = 1
      BY <1>1, <3>1, OneExponent DEF e
    <3>3. a % 2 = 0
      BY <1>1
    <3>4. 2 ^ e = 2
      BY <3>2, <1>4
    <3> QED  BY <3>3, <3>4
  <2>4. CASE a = 4 * p
    <3>1. a < 2 ^ (m + 2) /\ a >= 2 ^ (m + 2 - 1) /\ 2 \in 0 .. a
      <4>1. m + 2 - 1 = m + 1
        OBVIOUS
      <4> QED  BY <1>1, <2>4, <1>3, <4>1
    <3>2. e = 2
      BY <1>1, <3>1, OneExponent DEF e
    <3>3. a % 4 = 0
      BY <1>1, <1>2, <2>4
    <3>4. 2 ^ e = 4
      BY <3>2, <1>4
    <3> QED  BY <3>3, <3>4
  <2> QED  BY <1>1, <1>2, <2>1, <2>2, <2>3, <2>4
<1>6. PICK u \in {1, 2, 4} : 2 ^ e = u /\ a % u = 0
  BY <1>5
<1>7. Round(m, 2 * n) = RoundedBy(u)
  BY <1>0, <1>6
<1>8. (a \div u) * u = a
  BY <1>1, <1>6
<1>9. Round(m, 2 * n) = IF 2 * n < 0 THEN -((a \div u) * u) ELSE (a \div u) * u
  BY <1>1, <1>6, <1>7 DEF RoundedBy
<1> QED  BY <1>1, <1>8, <1>9 DEF Abs, a

-----------------------------------------------------------------------------
(* The conversions.                                                        *)

\* The inputs of types/num.rs: any f64.
JsNumber == Special \cup {Num(h) : h \in Int}

\* A JS number is finite, NaN or an infinity.
LEMMA JsNumberIs ==
  ASSUME NEW x \in JsNumber
  PROVE  /\ x.halves \in Int /\ Finite(x) \in BOOLEAN
         /\ x.kind \in {"finite", "NaN", "Infinity", "-Infinity"}
         /\ Finite(x) => x = Num(x.halves)
         /\ ~Finite(x) => x.halves = 0
<1>1. CASE x \in Special
  BY <1>1 DEF Special, Finite
<1>2. CASE x \in {Num(h) : h \in Int}
  <2>1. PICK h \in Int : x = Num(h)
    BY <1>2
  <2>2. x.halves = h /\ x.kind = "finite"
    BY <2>1 DEF Num
  <2> QED  BY <2>1, <2>2 DEF Finite
<1> QED  BY <1>1, <1>2 DEF JsNumber

\* Truncation is of integers, and drops no whole number.
LEMMA TruncIs ==
  ASSUME NEW h \in Int
  PROVE  Trunc(h) \in Int /\ \A n \in Int : Trunc(2 * n) = n
BY DEF Trunc

\* The bounds of a type hold zero between them.
LEMMA BoundsAre ==
  ASSUME NEW ty \in Ints
  PROVE  /\ Lo(ty) \in Int /\ Hi(ty) \in Nat /\ Lo(ty) <= 0
         /\ ty = "u32" => Lo(ty) = 0 /\ Hi(ty) = 2 ^ Bits["u32"] - 1
         /\ ty = "i32" => Lo(ty) = -(2 ^ (Bits["u32"] - 1)) /\ Hi(ty) = 2 ^ (Bits["u32"] - 1) - 1
<1>1. Bits[ty] \in Nat /\ Bits[ty] - 1 \in Nat /\ Bits["u32"] \in Nat
  BY NumbersAssumption DEF Ints, Signed, Unsigned
<1>2. PICK p \in Nat \ {0}, q \in Nat \ {0} : p = 2 ^ Bits[ty] /\ q = 2 ^ (Bits[ty] - 1)
  BY <1>1, PowersAre
<1>3. Lo(ty) = (IF ty \in Signed THEN -q ELSE 0) /\ Hi(ty) = (IF ty \in Signed THEN q ELSE p) - 1
  BY <1>2 DEF Lo, Hi
<1>4. Lo(ty) \in Int /\ Hi(ty) \in Nat /\ Lo(ty) <= 0
  BY <1>3
<1>5. ty = "u32" => Lo(ty) = 0 /\ Hi(ty) = 2 ^ Bits["u32"] - 1
  BY <1>2, <1>3 DEF Signed
<1>6. ty = "i32" => Lo(ty) = -(2 ^ (Bits["u32"] - 1)) /\ Hi(ty) = 2 ^ (Bits["u32"] - 1) - 1
  BY <1>2, <1>3, WidthAssumption DEF Signed
<1> QED  BY <1>4, <1>5, <1>6

\* The exact integers of f64 are integers of both wide types.
LEMMA ExactIntegersFit ==
  ASSUME NEW ty \in {"i64", "u64"}
  PROVE  /\ Mant64 \in Nat \ {0} /\ 2 ^ Mant64 \in Nat \ {0}
         /\ 2 ^ Mant64 <= Hi(ty)
         /\ ty = "i64" => Lo(ty) <= -(2 ^ Mant64)
<1>1. Mant64 \in Nat \ {0} /\ Bits["i64"] \in Nat /\ Bits["u64"] \in Nat
  BY NumbersAssumption, WidthAssumption DEF Ints, Signed, Unsigned
<1>2. Bits["i64"] - 1 \in Nat /\ Mant64 < Bits["i64"] - 1 /\ Mant64 < Bits["u64"]
  BY <1>1, WidthAssumption
<1>3. PICK x \in Nat \ {0}, p \in Nat, q \in Nat :
         x = 2 ^ Mant64 /\ p = 2 ^ Bits["u64"] /\ q = 2 ^ (Bits["i64"] - 1)
  BY <1>1, <1>2, PowersAre
<1>4. x < p /\ x < q
  BY <1>1, <1>2, <1>3, PowersAre
<1>5. CASE ty = "i64"
  BY <1>1, <1>3, <1>4, <1>5 DEF Lo, Hi, Signed
<1>6. CASE ty = "u64"
  BY <1>1, <1>3, <1>4, <1>6 DEF Hi, Signed
<1> QED  BY <1>5, <1>6

\* Saturating ends in range, and keeps what is there already.
LEMMA SaturatingInRange ==
  ASSUME NEW x \in JsNumber, NEW ty \in Ints
  PROVE  /\ InRange(ty, Saturating(ty, x))
         /\ Finite(x) /\ InRange(ty, Trunc(x.halves)) => Saturating(ty, x) = Trunc(x.halves)
<1>1. PICK lo \in Int, hi \in Nat : lo = Lo(ty) /\ hi = Hi(ty) /\ lo <= 0
  BY BoundsAre
<1>2. PICK t \in Int : t = Trunc(x.halves)
  BY JsNumberIs, TruncIs
<1>3. CASE x.kind = "NaN"
  <2>1. Saturating(ty, x) = 0 /\ ~Finite(x)
    BY <1>3 DEF Saturating, Finite
  <2> QED  BY <1>1, <2>1 DEF InRange
<1>4. CASE x.kind = "Infinity"
  <2>1. Saturating(ty, x) = hi /\ ~Finite(x)
    BY <1>1, <1>4 DEF Saturating, Finite
  <2> QED  BY <1>1, <2>1 DEF InRange
<1>5. CASE x.kind = "-Infinity"
  <2>1. Saturating(ty, x) = lo /\ ~Finite(x)
    BY <1>1, <1>5 DEF Saturating, Finite
  <2> QED  BY <1>1, <2>1 DEF InRange
<1>6. CASE x.kind = "finite"
  <2>1. Saturating(ty, x) = IF t < lo THEN lo ELSE IF t > hi THEN hi ELSE t
    BY <1>1, <1>2, <1>6 DEF Saturating
  <2> QED  BY <1>1, <1>2, <2>1 DEF InRange
<1> QED  BY <1>3, <1>4, <1>5, <1>6, JsNumberIs

\* A wide conversion accepts whole numbers within the exact integers only.
LEMMA WideAccepts ==
  ASSUME NEW x \in JsNumber, NEW ty \in {"i64", "u64"}, TryInto(ty, x).ok
  PROVE  LET t == Trunc(x.halves)
         IN  /\ Finite(x) /\ x = Num(2 * t) /\ t \in Int /\ Abs(t) <= 2 ^ Mant64
             /\ InRange(ty, t) /\ TryInto(ty, x).value = t
<1>1. PICK t \in Int, c \in Nat \ {0} : t = Trunc(x.halves) /\ c = 2 ^ Mant64
  BY JsNumberIs, TruncIs, ExactIntegersFit
<1>2. TryInto(ty, x) =
        IF ~Finite(x) THEN Refused("NotFinite")
        ELSE IF x.halves = 2 * t /\ t \in (IF ty = "i64" THEN -c ELSE 0) .. c THEN Ok(t) ELSE Refused("OutOfRange")
  BY <1>1 DEF TryInto, TryIntoWide
<1>3. Refused("NotFinite").ok = FALSE /\ Refused("OutOfRange").ok = FALSE /\ Ok(t).value = t
  BY DEF Refused, Ok
<1>4. /\ Finite(x) /\ x.halves = 2 * t /\ t \in (IF ty = "i64" THEN -c ELSE 0) .. c
      /\ TryInto(ty, x) = Ok(t)
  BY <1>2, <1>3
<1>5. x = Num(2 * t)
  BY <1>4, JsNumberIs
<1>6. Abs(t) <= c
  BY <1>4 DEF Abs
<1>7. InRange(ty, t)
  <2>1. ty \in Ints /\ c <= Hi(ty) /\ (ty = "i64" => Lo(ty) <= -c)
    BY <1>1, ExactIntegersFit DEF Ints, Signed, Unsigned
  <2>2. Lo(ty) \in Int /\ Hi(ty) \in Nat /\ Lo(ty) <= 0
    BY <2>1, BoundsAre
  <2> QED  BY <1>4, <2>1, <2>2 DEF InRange
<1> QED  BY <1>1, <1>3, <1>4, <1>5, <1>6, <1>7

\* A strict conversion answers with the truncated value or not at all.
LEMMA StrictIsExact ==
  ASSUME NEW x \in JsNumber, NEW ty \in Ints
  PROVE  StrictExact(ty, x)
<1> SUFFICES ASSUME TryInto(ty, x).ok
             PROVE  TryInto(ty, x).value = Saturating(ty, x) /\ TryInto(ty, x).value = Trunc(x.halves)
  BY DEF StrictExact
<1>1. Finite(x) /\ InRange(ty, Trunc(x.halves)) /\ TryInto(ty, x).value = Trunc(x.halves)
  <2>1. CASE ty \in {"i64", "u64"}
    BY <2>1, WideAccepts
  <2>2. CASE ty \notin {"i64", "u64"}
    <3>1. TryInto(ty, x) =
            IF ~Finite(x) THEN Refused("NotFinite")
            ELSE IF InRange(ty, Trunc(x.halves)) THEN Ok(Trunc(x.halves)) ELSE Refused("OutOfRange")
      BY <2>2 DEF TryInto, TryIntoSmall
    <3>2. Refused("NotFinite").ok = FALSE /\ Refused("OutOfRange").ok = FALSE
          /\ Ok(Trunc(x.halves)).value = Trunc(x.halves)
      BY DEF Refused, Ok
    <3> QED  BY <3>1, <3>2
  <2> QED  BY <2>1, <2>2
<1> QED  BY <1>1, SaturatingInRange

\* What a wide conversion accepts stands for one integer only.
LEMMA WideIsExact ==
  ASSUME NEW x \in JsNumber, NEW ty \in {"i64", "u64"}
  PROVE  WideExact(ty, x)
<1> SUFFICES ASSUME TryInto(ty, x).ok
             PROVE  LET t == Trunc(x.halves)
                    IN  /\ FromLossy(t) = x
                        /\ Abs(t) = 2 ^ Mant64 \/ \A n \in {t - 1, t + 1} : FromLossy(n) # x
  BY DEF WideExact
<1>1. PICK t \in Int, c \in Nat \ {0} : t = Trunc(x.halves) /\ c = 2 ^ Mant64
  BY JsNumberIs, TruncIs, ExactIntegersFit
<1>2. x = Num(2 * t) /\ Abs(t) <= c
  BY <1>1, WideAccepts
<1>3. ASSUME NEW n \in Int, Abs(n) <= c
      PROVE  FromLossy(n) = Num(2 * n)
  <2>1. Round(Mant64, 2 * n) = 2 * n
    BY <1>1, <1>3, RoundExact, ExactIntegersFit
  <2> QED  BY <2>1 DEF FromLossy
<1>4. ASSUME NEW n \in Int, n # t
      PROVE  Num(2 * n) # Num(2 * t)
  <2>1. Num(2 * n).halves = 2 * n /\ Num(2 * t).halves = 2 * t
    BY DEF Num
  <2> QED  BY <1>4, <2>1
<1>5. FromLossy(t) = x
  BY <1>2, <1>3
<1>6. CASE Abs(t) < c
  <2>1. ASSUME NEW n \in {t - 1, t + 1}
        PROVE  FromLossy(n) # x
    <3>1. n \in Int /\ n # t /\ Abs(n) <= c
      BY <1>6 DEF Abs
    <3> QED  BY <1>2, <1>3, <1>4, <3>1
  <2> QED  BY <1>1, <1>5, <2>1
<1>7. CASE Abs(t) = c
  BY <1>1, <1>5, <1>7
<1>8. Abs(t) \in Int
  BY DEF Abs
<1> QED  BY <1>2, <1>6, <1>7, <1>8

\* ToInt32 and ToUint32 take the number modulo 2^32 into their range.
LEMMA Wraps ==
  ASSUME NEW x \in JsNumber, NEW ty \in {"i32", "u32"}
  PROVE  WrapsExactly(ty, x)
<1>1. PICK t \in Int : t = Trunc(x.halves)
  BY JsNumberIs, TruncIs
<1>2. PICK k \in Nat \ {0}, m \in Nat \ {0} :
         m = 2 ^ Bits["u32"] /\ k = 2 ^ (Bits["u32"] - 1) /\ m = 2 * k
  <2>1. Bits["u32"] \in Nat /\ Bits["u32"] - 1 \in Nat /\ Bits["u32"] = (Bits["u32"] - 1) + 1
    BY NumbersAssumption DEF Ints, Unsigned
  <2>2. 2 ^ Bits["u32"] = 2 * 2 ^ (Bits["u32"] - 1)
    BY <2>1, PowersAre
  <2>3. 2 ^ Bits["u32"] \in Nat \ {0} /\ 2 ^ (Bits["u32"] - 1) \in Nat \ {0}
    BY <2>1, PowersAre
  <2> QED  BY <2>2, <2>3
<1>3. PICK q \in Int, r \in Int : t = q * m + r /\ r = Fmod(t, m) /\ -m < r /\ r < m
  <2>1. CASE t >= 0
    <3>1. t = (t \div m) * m + (t % m) /\ t \div m \in Int /\ t % m \in 0 .. (m - 1)
      OBVIOUS
    <3>2. Fmod(t, m) = t % m
      BY <2>1 DEF Fmod
    <3> QED  BY <3>1, <3>2
  <2>2. CASE t < 0
    <3>1. PICK u \in Nat : u = -t
      BY <2>2
    <3>2. u = (u \div m) * m + (u % m) /\ u \div m \in Int /\ u % m \in 0 .. (m - 1)
      OBVIOUS
    <3>3. Fmod(t, m) = -(u % m)
      BY <2>2, <3>1 DEF Fmod
    <3>4. PICK q \in Int, r \in 0 .. (m - 1) : q = u \div m /\ r = u % m
      BY <3>2
    <3>5. u = q * m + r
      BY <3>2, <3>4
    <3>6. PICK a \in Int, b \in Int : a = -q /\ b = -r
      BY <3>4
    <3>7. t = a * m + b
      BY <3>1, <3>5, <3>6
    <3>8. b = Fmod(t, m) /\ -m < b /\ b < m
      BY <3>3, <3>4, <3>6
    <3> QED  BY <3>7, <3>8
  <2> QED  BY <2>1, <2>2
<1>4. PICK w \in 0 .. (m - 1), p \in Int : w = JsMod(x) /\ (Finite(x) => w - t = p * m)
  <2>1. CASE ~Finite(x)
    <3>1. JsMod(x) = 0
      BY <2>1 DEF JsMod
    <3> QED  BY <2>1, <3>1
  <2>2. CASE Finite(x) /\ r < 0
    <3>1. JsMod(x) = r + m
      BY <1>1, <1>2, <1>3, <2>2 DEF JsMod
    <3>2. PICK w \in 0 .. (m - 1), p \in Int : w = r + m /\ p = 1 - q
      BY <1>3, <2>2
    <3>3. w - t = p * m
      BY <1>3, <3>2
    <3> QED  BY <3>1, <3>2, <3>3
  <2>3. CASE Finite(x) /\ r >= 0
    <3>1. JsMod(x) = r
      BY <1>1, <1>2, <1>3, <2>3 DEF JsMod
    <3>2. PICK p \in Int : p = -q
      OBVIOUS
    <3>3. r \in 0 .. (m - 1) /\ r - t = p * m
      BY <1>3, <2>3, <3>2
    <3> QED  BY <3>1, <3>3
  <2> QED  BY <1>3, <2>1, <2>2, <2>3
<1>5. PICK j \in Int, s \in Int :
         j = JsInto(ty, x) /\ InRange(ty, j) /\ (Finite(x) => j - t = s * m)
  <2>1. ty \in Ints
    BY DEF Ints, Signed, Unsigned
  <2>2. CASE ty = "u32"
    <3>1. JsInto(ty, x) = w
      BY <1>4, <2>2 DEF JsInto, ToU32Js
    <3>2. Lo(ty) = 0 /\ Hi(ty) = m - 1
      BY <1>2, <2>1, <2>2, BoundsAre
    <3>3. InRange(ty, w) /\ w \in Int
      BY <3>2 DEF InRange
    <3> QED  BY <1>4, <3>1, <3>3
  <2>3. CASE ty = "i32"
    <3>1. JsInto(ty, x) = IF w >= k THEN w - m ELSE w
      BY <1>2, <1>4, <2>3 DEF JsInto, ToI32Js
    <3>2. Lo(ty) = -k /\ Hi(ty) = k - 1
      BY <1>2, <2>1, <2>3, BoundsAre
    <3>3. PICK j \in Int, s \in Int : IF w >= k THEN j = w - m /\ s = p - 1 ELSE j = w /\ s = p
      <4>1. w \in Int /\ w - m \in Int /\ p - 1 \in Int
        OBVIOUS
      <4> QED  BY <4>1
    <3>4. j = JsInto(ty, x) /\ j \in (-k) .. (k - 1)
      BY <1>2, <3>1, <3>3
    <3>5. Finite(x) => j - t = s * m
      <4> SUFFICES ASSUME Finite(x)
                   PROVE  j - t = s * m
        OBVIOUS
      <4>1. w - t = p * m
        BY <1>4
      <4> QED  BY <3>3, <4>1
    <3>6. InRange(ty, j)
      BY <3>2, <3>4 DEF InRange
    <3> QED  BY <3>4, <3>5, <3>6
  <2> QED  BY <2>2, <2>3
<1>6. Finite(x) => (j - t) % m = 0
  <2>1. (m * s) % m = 0 /\ m * s = s * m
    BY MultiplesVanish
  <2> QED  BY <1>5, <2>1
<1>7. 2 ^ Bits[ty] = m
  BY <1>2, WidthAssumption
<1> QED  BY <1>1, <1>5, <1>6, <1>7 DEF WrapsExactly

\* A finite number is accepted as an f32 only if it is one.
LEMMA SinglesAreExact ==
  ASSUME NEW x \in JsNumber
  PROVE  SinglesExact(x)
BY JsNumberIs DEF SinglesExact, TryIntoF32, Refused, Finite

\* An i64 or u64 goes back to JS only if f64 holds it.
LEMMA WideReturnsAreExact ==
  ASSUME NEW n \in Int
  PROVE  WideReturnsExact(n)
<1> SUFFICES ASSUME TryFromWide(n).ok
             PROVE  FromLossy(n) = LosslessFrom(n)
  BY DEF WideReturnsExact
<1>1. Abs(n) <= 2 ^ Mant64
  BY DEF TryFromWide, Ok, Refused
<1>2. Round(Mant64, 2 * n) = 2 * n
  BY <1>1, RoundExact, ExactIntegersFit
<1> QED  BY <1>2 DEF FromLossy, LosslessFrom, Integer

-----------------------------------------------------------------------------
(* Texts.                                                                  *)

\* A nonempty set of natural numbers has a least element.
LEMMA LeastNat == ASSUME NEW T, T \subseteq Nat, T # {} PROVE \E n \in T : \A m \in T : n <= m
<1>1. IsWellFoundedOn(OpToRel(<, Nat), Nat)
  BY NatLessThanWellFounded, Zenon
<1>2. \A m, n \in Nat : m < n => <<m, n>> \in OpToRel(<, Nat)
  BY Zenon DEF OpToRel
<1>3. PICK n \in T : \A m \in T : <<m, n>> \notin OpToRel(<, Nat)
  BY <1>1, WFMin, Zenon
<1>4. \A m \in T : ~(m < n)
  BY <1>2, <1>3, Zenon
<1> QED  BY <1>4

\* What holds of 0 and passes from each number to the next holds up to n.
LEMMA StepByStep ==
  ASSUME NEW n \in Nat, NEW S, 0 \in S, \A k \in 0 .. n - 1 : k \in S => k + 1 \in S
  PROVE  \A k \in 0 .. n : k \in S
<1> DEFINE T == {k \in 0 .. n : k \notin S}
<1> SUFFICES ASSUME T # {} PROVE FALSE
  OBVIOUS
<1>1. PICK k \in T : \A m \in T : k <= m
  <2>1. T \subseteq Nat
    OBVIOUS
  <2> HIDE DEF T
  <2> QED  BY <2>1, LeastNat
<1>2. k # 0 /\ k - 1 \in 0 .. n - 1
  BY <1>1
<1>3. k - 1 \in S
  BY <1>1, <1>2
<1> QED  BY <1>1, <1>2, <1>3

\* A run of the DFA as a function g over the prefixes of up to k bytes.
Byte == 0 .. 255
Begun(s) == [ok |-> TRUE, state |-> s]
RunUpTo(g, k, s, bytes) ==
    g = [i \in 0 .. k |-> IF i = 0 THEN Begun(s) ELSE After(g[i - 1], bytes[i])]

\* The recursion of DfaRun has a solution: one for a prefix extends to the next byte.
LEMMA SomeRun ==
  ASSUME NEW s, NEW bytes \in Seq(Byte)
  PROVE  \E g : RunUpTo(g, Len(bytes), s, bytes)
<1> DEFINE S == {k \in 0 .. Len(bytes) : \E g : RunUpTo(g, k, s, bytes)}
<1>1. 0 \in S
  <2>1. RunUpTo([i \in 0 .. 0 |-> Begun(s)], 0, s, bytes)
    BY DEF RunUpTo
  <2> QED  BY <2>1
<1>2. ASSUME NEW k \in 0 .. Len(bytes) - 1, k \in S
      PROVE  k + 1 \in S
  <2>1. PICK g : RunUpTo(g, k, s, bytes)
    BY <1>2
  <2> DEFINE h == [i \in 0 .. k + 1 |-> IF i = k + 1 THEN After(g[k], bytes[k + 1]) ELSE g[i]]
             rhs == [i \in 0 .. k + 1 |-> IF i = 0 THEN Begun(s) ELSE After(h[i - 1], bytes[i])]
  <2>2. ASSUME NEW i \in 0 .. k + 1 PROVE h[i] = rhs[i]
    <3>1. CASE i = k + 1
      <4>1. h[i] = After(g[k], bytes[k + 1]) /\ h[i - 1] = g[k]
        BY <3>1
      <4> QED  BY <3>1, <4>1
    <3>2. CASE i # k + 1
      <4>1. i \in 0 .. k /\ h[i] = g[i]
        BY <3>2
      <4>2. g[i] = IF i = 0 THEN Begun(s) ELSE After(g[i - 1], bytes[i])
        BY <2>1, <4>1 DEF RunUpTo
      <4>3. i # 0 => h[i - 1] = g[i - 1]
        BY <4>1
      <4> QED  BY <4>1, <4>2, <4>3
    <3> QED  BY <3>1, <3>2
  <2>3. h = rhs
    BY <2>2
  <2>4. RunUpTo(h, k + 1, s, bytes)
    BY <2>3 DEF RunUpTo
  <2> QED  BY <2>4
<1> HIDE DEF S
<1>3. \A k \in 0 .. Len(bytes) : k \in S
  BY <1>1, <1>2, StepByStep
<1>4. Len(bytes) \in S
  BY <1>3
<1> QED  BY <1>4 DEF S

\* So DfaRun is one.
LEMMA RunIs ==
  ASSUME NEW s, NEW bytes \in Seq(Byte)
  PROVE  RunUpTo(DfaRun(s, bytes), Len(bytes), s, bytes)
<1>1. DfaRun(s, bytes) = CHOOSE g : RunUpTo(g, Len(bytes), s, bytes)
  BY DEF DfaRun, RunUpTo, Begun, After, Continue
<1> QED  BY <1>1, SomeRun

\* It begins in s and takes one byte after the other.
LEMMA RunAt ==
  ASSUME NEW s, NEW bytes \in Seq(Byte)
  PROVE  /\ DfaRun(s, bytes)[0] = Begun(s)
         /\ \A i \in 1 .. Len(bytes) : DfaRun(s, bytes)[i] = After(DfaRun(s, bytes)[i - 1], bytes[i])
<1> DEFINE run == DfaRun(s, bytes)
<1>1. Len(bytes) \in Nat
  OBVIOUS
<1>2. run = [i \in 0 .. Len(bytes) |-> IF i = 0 THEN Begun(s) ELSE After(run[i - 1], bytes[i])]
  BY RunIs DEF RunUpTo
<1> HIDE DEF run
<1>3. \A i \in 0 .. Len(bytes) : run[i] = IF i = 0 THEN Begun(s) ELSE After(run[i - 1], bytes[i])
  BY <1>2
<1>4. \A i \in 1 .. Len(bytes) : i \in 0 .. Len(bytes) /\ i # 0
  BY <1>1
<1>5. 0 \in 0 .. Len(bytes)
  BY <1>1
<1>6. run[0] = Begun(s) /\ \A i \in 1 .. Len(bytes) : run[i] = After(run[i - 1], bytes[i])
  BY <1>3, <1>4, <1>5, Zenon
<1> QED  BY <1>6 DEF run

\* A run that has refused a byte never accepts again.
LEMMA RefusedForEver ==
  ASSUME NEW s, NEW bytes \in Seq(Byte), NEW i \in 0 .. Len(bytes), NEW j \in i .. Len(bytes),
         DfaRun(s, bytes)[j].ok
  PROVE  DfaRun(s, bytes)[i].ok
<1> DEFINE run == DfaRun(s, bytes)
           S == {k \in 0 .. Len(bytes) - i : ~run[i + k].ok}
<1> SUFFICES ASSUME ~run[i].ok PROVE FALSE
  OBVIOUS
<1>1. 0 \in S
  OBVIOUS
<1>2. ASSUME NEW k \in 0 .. (Len(bytes) - i) - 1, k \in S
      PROVE  k + 1 \in S
  <2>1. i + (k + 1) \in 1 .. Len(bytes) /\ (i + (k + 1)) - 1 = i + k
    OBVIOUS
  <2>2. run[i + (k + 1)] = After(run[i + k], bytes[i + (k + 1)])
    BY <2>1, RunAt
  <2>3. run[i + (k + 1)].ok = (run[i + k].ok /\ DfaStep(run[i + k].state, bytes[i + (k + 1)]).ok)
    BY <2>2 DEF After, Continue
  <2>4. ~run[i + k].ok
    BY <1>2
  <2>5. ~run[i + (k + 1)].ok
    BY <2>3, <2>4, Zenon
  <2> QED  BY <2>5
<1> HIDE DEF S
<1>3. Len(bytes) - i \in Nat /\ j - i \in 0 .. Len(bytes) - i
  OBVIOUS
<1>4. j - i \in S
  BY <1>1, <1>2, <1>3, StepByStep
<1> QED  BY <1>4 DEF S

\* A run is taken up where it was left, by its state alone.
LEMMA TakenUp ==
  ASSUME NEW s, NEW bytes \in Seq(Byte), NEW m \in 0 .. Len(bytes), DfaRun(s, bytes)[m].ok,
         NEW i \in 0 .. Len(bytes) - m
  PROVE  DfaRun(DfaRun(s, bytes)[m].state, SubSeq(bytes, m + 1, Len(bytes)))[i] = DfaRun(s, bytes)[m + i]
<1> DEFINE run == DfaRun(s, bytes)
           rest == SubSeq(bytes, m + 1, Len(bytes))
           again == DfaRun(run[m].state, rest)
           S == {k \in 0 .. Len(bytes) - m : again[k] = run[m + k]}
<1>1. rest \in Seq(Byte) /\ Len(rest) = Len(bytes) - m
  BY SubSeqProperties
<1>2. \A k \in 1 .. Len(bytes) - m : rest[k] = bytes[m + k]
  BY SubSeqProperties
<1>3. 0 \in S
  <2>1. again[0] = Begun(run[m].state)
    BY <1>1, RunAt
  <2>2. run[m] = Begun(run[m].state)
    <3>1. CASE m = 0
      <4>1. run[0] = Begun(s)
        BY RunAt
      <4> QED  BY <3>1, <4>1 DEF Begun
    <3>2. CASE m # 0
      <4>1. run[m] = After(run[m - 1], bytes[m])
        BY <3>2, RunAt
      <4> QED  BY <4>1 DEF Begun, After, Continue
    <3> QED  BY <3>1, <3>2
  <2> QED  BY <2>1, <2>2
<1>4. ASSUME NEW k \in 0 .. (Len(bytes) - m) - 1, k \in S
      PROVE  k + 1 \in S
  <2>1. /\ k + 1 \in 1 .. Len(bytes) - m /\ (k + 1) - 1 = k
        /\ m + (k + 1) \in 1 .. Len(bytes) /\ (m + (k + 1)) - 1 = m + k
    OBVIOUS
  <2>2. again[k + 1] = After(again[k], rest[k + 1])
    <3>1. \A j \in 1 .. Len(rest) : again[j] = After(again[j - 1], rest[j])
      BY <1>1, RunAt, Zenon
    <3>2. k + 1 \in 1 .. Len(rest)
      BY <1>1, <2>1
    <3> QED  BY <2>1, <3>1, <3>2
  <2>3. run[m + (k + 1)] = After(run[m + k], bytes[m + (k + 1)])
    BY <2>1, RunAt
  <2> QED  BY <1>2, <1>4, <2>1, <2>2, <2>3
<1> HIDE DEF S
<1>5. Len(bytes) - m \in Nat
  OBVIOUS
<1>6. i \in S
  BY <1>3, <1>4, <1>5, StepByStep
<1> QED  BY <1>6 DEF S

-----------------------------------------------------------------------------
(* The block path.                                                         *)

\* Byte i of a text, zero before the first.
At(bytes, i) == IF i >= 1 THEN bytes[i] ELSE 0

\* The continuation bytes that are due after x, y and z, and the state.
Due(x, y, z) ==
    CASE z \in Lead4 -> 3
      [] z \in Lead3 -> 2
      [] z \in Lead2 -> 1
      [] z \notin AnyLead /\ y \in Lead4 -> 2
      [] z \notin AnyLead /\ y \in Lead3 -> 1
      [] z \notin AnyLead /\ y \notin Lead3 \cup Lead4 -> IF x \in Lead4 THEN 1 ELSE 0
After3(x, y, z) == State(Due(x, y, z), SecondLo(z), SecondHi(z))
StateAt(bytes, i) == After3(At(bytes, i - 2), At(bytes, i - 1), At(bytes, i))

\* Byte b of a lane, after x, y and z.
Required(x, y, z) == z \in AnyLead \/ y \in Lead3 \cup Lead4 \/ x \in Lead4
Lane(x, y, z, b) ==
    /\ IF Required(x, y, z) THEN b \in Cont ELSE b \in 0 .. 127 \/ b \in AnyLead
    /\ z \in {224, 237, 240, 244} => b \in SecondLo(z) .. SecondHi(z)

\* A lane of the block path looks at its byte and the three before it.
LEMMA LaneIs ==
  ASSUME NEW bytes \in Seq(Byte), NEW i \in 1 .. Len(bytes)
  PROVE  /\ LaneOk(bytes, i) <=> Lane(At(bytes, i - 3), At(bytes, i - 2), At(bytes, i - 1), At(bytes, i))
         /\ At(bytes, i) = bytes[i]
<1>1. bytes[i] = At(bytes, i)
  BY DEF At
<1>2. \A k \in {1, 2, 3} : Shifted(bytes, i, k) = At(bytes, i - k)
  BY DEF At, Shifted
<1>3. Shifted(bytes, i, 1) = At(bytes, i - 1) /\ Shifted(bytes, i, 2) = At(bytes, i - 2) /\ Shifted(bytes, i, 3) = At(bytes, i - 3)
  BY <1>2
<1> QED  BY <1>1, <1>3 DEF LaneOk, Lane, Required

\* Before the first byte stands a zero.
LEMMA AtByte ==
  ASSUME NEW bytes \in Seq(Byte), NEW i \in Int, i <= Len(bytes)
  PROVE  At(bytes, i) \in Byte
<1>1. CASE i >= 1
  BY <1>1 DEF At
<1>2. CASE i < 1
  BY <1>2 DEF At, Byte
<1> QED  BY <1>1, <1>2

\* A byte that is no lead, or no special one, narrows nothing.
LEMMA Seconds ==
  ASSUME NEW b \in Byte
  PROVE  /\ SecondLo(b) \in 128 .. 160 /\ SecondHi(b) \in 143 .. 191
         /\ b \notin AnyLead => SecondLo(b) = 128 /\ SecondHi(b) = 191
         /\ b \notin {224, 237, 240, 244} => SecondLo(b) = 128 /\ SecondHi(b) = 191
BY DEF SecondLo, SecondHi, AnyLead, Lead2, Lead3, Lead4, Byte

\* A lane is right exactly when the DFA takes its byte, and keeps its state.
LEMMA LaneStep ==
  \A x, y, z, b \in Byte : (z \in AnyLead => y \notin AnyLead) =>
    /\ Lane(x, y, z, b) =>
           DfaStep(After3(x, y, z), b).ok = TRUE /\ DfaStep(After3(x, y, z), b).state = After3(y, z, b)
    /\ ~Lane(x, y, z, b) => DfaStep(After3(x, y, z), b).ok = FALSE
<1> SUFFICES ASSUME NEW x \in Byte, NEW y \in Byte, NEW z \in Byte, NEW b \in Byte,
                    z \in AnyLead => y \notin AnyLead
             PROVE  /\ Lane(x, y, z, b) =>
                           DfaStep(After3(x, y, z), b).ok = TRUE /\ DfaStep(After3(x, y, z), b).state = After3(y, z, b)
                    /\ ~Lane(x, y, z, b) => DfaStep(After3(x, y, z), b).ok = FALSE
  BY Zenon
<1> DEFINE due == Due(x, y, z)
<1>1. due \in 0 .. 3 /\ (due > 0 <=> Required(x, y, z))
  BY DEF Due, Required, AnyLead, Lead2, Lead3, Lead4, Byte
<1>2. Lane(x, y, z, b) /\ due > 0 => Due(y, z, b) = due - 1
  BY DEF Due, Required, Lane, Cont, AnyLead, Lead2, Lead3, Lead4, Byte
<1>3. Lane(x, y, z, b) /\ due = 0 =>
        Due(y, z, b) = (CASE b \in Lead2 -> 1 [] b \in Lead3 -> 2 [] b \in Lead4 -> 3 [] OTHER -> 0)
  BY DEF Due, Required, Lane, Cont, AnyLead, Lead2, Lead3, Lead4, Byte
<1>4. /\ SecondLo(z) >= 128 /\ SecondHi(z) <= 191 /\ SecondLo(z) \in Nat /\ SecondHi(z) \in Nat
      /\ z \notin {224, 237, 240, 244} => SecondLo(z) = 128 /\ SecondHi(z) = 191
  BY Seconds
<1>5. CASE due > 0
  <2>1. Lane(x, y, z, b) <=> b >= SecondLo(z) /\ b <= SecondHi(z)
    BY <1>1, <1>4, <1>5 DEF Lane, Cont, Byte
  <2>2. DfaStep(After3(x, y, z), b) =
          IF b < SecondLo(z) \/ b > SecondHi(z) THEN [ok |-> FALSE, state |-> After3(x, y, z)]
          ELSE [ok |-> TRUE, state |-> State(due - 1, 128, 191)]
    BY <1>5 DEF DfaStep, After3, State
  <2>3. Lane(x, y, z, b) => After3(y, z, b) = State(due - 1, 128, 191)
    <3>1. Lane(x, y, z, b) => b \notin AnyLead
      BY <1>1, <1>5 DEF Lane, Cont, AnyLead, Lead2, Lead3, Lead4
    <3> QED  BY <1>2, <1>5, <3>1, Seconds DEF After3
  <2>4. ASSUME Lane(x, y, z, b)
        PROVE  DfaStep(After3(x, y, z), b).ok = TRUE /\ DfaStep(After3(x, y, z), b).state = After3(y, z, b)
    <3>1. ~(b < SecondLo(z) \/ b > SecondHi(z))
      BY <1>4, <2>1, <2>4 DEF Byte
    <3>2. DfaStep(After3(x, y, z), b) = [ok |-> TRUE, state |-> After3(y, z, b)]
      BY <2>2, <2>3, <2>4, <3>1, Zenon
    <3> QED  BY <3>2
  <2>5. ASSUME ~Lane(x, y, z, b)
        PROVE  DfaStep(After3(x, y, z), b).ok = FALSE
    <3>1. b < SecondLo(z) \/ b > SecondHi(z)
      BY <1>4, <2>1, <2>5 DEF Byte
    <3> QED  BY <2>2, <3>1
  <2> QED  BY <2>4, <2>5, Zenon
<1>6. CASE due = 0
  <2>1. Lane(x, y, z, b) <=> b \in 0 .. 127 \/ b \in AnyLead
    <3>1. z \notin {224, 237, 240, 244}
      BY <1>1, <1>6 DEF Required, AnyLead, Lead2, Lead3, Lead4
    <3> QED  BY <1>1, <1>6, <3>1 DEF Lane
  <2>2. DfaStep(After3(x, y, z), b) =
          IF b \in 0 .. 127 THEN [ok |-> TRUE, state |-> After3(x, y, z)]
          ELSE IF b \in AnyLead
               THEN [ok |-> TRUE,
                     state |-> State(CASE b \in Lead2 -> 1 [] b \in Lead3 -> 2 [] OTHER -> 3,
                                     SecondLo(b), SecondHi(b))]
          ELSE [ok |-> FALSE, state |-> After3(x, y, z)]
    BY <1>6 DEF DfaStep, After3, State
  <2>3. ASSUME b \in 0 .. 127 PROVE After3(y, z, b) = After3(x, y, z)
    <3>1. b \notin AnyLead /\ z \notin AnyLead
      BY <1>1, <1>6, <2>3 DEF Required, AnyLead, Lead2, Lead3, Lead4
    <3>2. Due(y, z, b) = 0
      BY <1>3, <1>6, <2>1, <2>3 DEF Lead2, Lead3, Lead4
    <3> QED  BY <1>6, <3>1, <3>2, Seconds DEF After3
  <2>4. ASSUME b \in AnyLead
        PROVE  After3(y, z, b) = State(CASE b \in Lead2 -> 1 [] b \in Lead3 -> 2 [] OTHER -> 3,
                                       SecondLo(b), SecondHi(b))
    <3>1. Due(y, z, b) = CASE b \in Lead2 -> 1 [] b \in Lead3 -> 2 [] OTHER -> 3
      BY <1>3, <1>6, <2>1, <2>4 DEF AnyLead, Lead2, Lead3, Lead4
    <3> QED  BY <3>1 DEF After3
  <2>5. ASSUME Lane(x, y, z, b)
        PROVE  DfaStep(After3(x, y, z), b).ok = TRUE /\ DfaStep(After3(x, y, z), b).state = After3(y, z, b)
    <3>1. CASE b \in 0 .. 127
      BY <2>2, <2>3, <3>1
    <3>2. CASE b \in AnyLead /\ b \notin 0 .. 127
      <4>1. DfaStep(After3(x, y, z), b) = [ok |-> TRUE, state |-> After3(y, z, b)]
        BY <2>2, <2>4, <3>2, Zenon
      <4> QED  BY <4>1
    <3> QED  BY <2>1, <2>5, <3>1, <3>2
  <2>6. ASSUME ~Lane(x, y, z, b)
        PROVE  DfaStep(After3(x, y, z), b).ok = FALSE
    <3>1. b \notin 0 .. 127 /\ b \notin AnyLead
      BY <2>1, <2>6
    <3> QED  BY <2>2, <3>1
  <2> QED  BY <2>5, <2>6, Zenon
<1>7. due > 0 \/ due = 0
  BY <1>1
<1> QED  BY <1>5, <1>6, <1>7, Zenon

\* No byte that is due is a lead byte.
LEMMA LeadsApart ==
  ASSUME NEW w, NEW x, NEW y, NEW z, Lane(w, x, y, z), z \in AnyLead
  PROVE  y \notin AnyLead
<1>1. z \notin Cont
  BY DEF Cont, AnyLead, Lead2, Lead3, Lead4
<1> QED  BY <1>1, Zenon DEF Lane, Required

\* The lanes up to i are right exactly when the DFA has come that far, and the
\* last three bytes tell the state it is in.
LEMMA LanesAreRun ==
  ASSUME NEW bytes \in Seq(Byte), NEW i \in 0 .. Len(bytes)
  PROVE  /\ ValidateBlocks(bytes, i) <=> DfaRun(Start, bytes)[i].ok
         /\ ValidateBlocks(bytes, i) => DfaRun(Start, bytes)[i].state = StateAt(bytes, i)
<1> DEFINE run == DfaRun(Start, bytes)
           P(k) == /\ ValidateBlocks(bytes, k) <=> run[k].ok
                   /\ ValidateBlocks(bytes, k) => run[k].state = StateAt(bytes, k)
           S == {k \in 0 .. Len(bytes) : P(k)}
<1>1. P(0)
  <2>1. run[0] = Begun(Start)
    BY RunAt
  <2>2. ValidateBlocks(bytes, 0)
    BY DEF ValidateBlocks
  <2>3. StateAt(bytes, 0) = Start
    BY DEF StateAt, After3, At, Due, SecondLo, SecondHi, Start, AnyLead, Lead2, Lead3, Lead4
  <2> QED  BY <2>1, <2>2, <2>3 DEF Begun
<1>2. ASSUME NEW k \in 0 .. Len(bytes) - 1, P(k)
      PROVE  P(k + 1)
  <2> DEFINE x == At(bytes, k - 2)
             y == At(bytes, k - 1)
             z == At(bytes, k)
             b == At(bytes, k + 1)
  <2>1. x \in Byte /\ y \in Byte /\ z \in Byte /\ b \in Byte
    BY AtByte
  <2>2. LaneOk(bytes, k + 1) <=> Lane(x, y, z, b)
    BY LaneIs
  <2>3. run[k + 1] = After(run[k], b)
    BY RunAt, LaneIs
  <2>4. StateAt(bytes, k) = After3(x, y, z) /\ StateAt(bytes, k + 1) = After3(y, z, b)
    BY DEF StateAt
  <2>5. ValidateBlocks(bytes, k + 1) <=> ValidateBlocks(bytes, k) /\ LaneOk(bytes, k + 1)
    BY DEF ValidateBlocks
  <2>6. CASE ~ValidateBlocks(bytes, k)
    <3>1. ~run[k].ok
      BY <1>2, <2>6
    <3>2. run[k + 1].ok = (run[k].ok /\ DfaStep(run[k].state, b).ok)
      BY <2>3 DEF After, Continue
    <3>3. ~run[k + 1].ok
      BY <3>1, <3>2, Zenon
    <3> QED  BY <2>5, <2>6, <3>3
  <2>7. CASE ValidateBlocks(bytes, k)
    <3>1. run[k].ok /\ run[k].state = After3(x, y, z)
      BY <1>2, <2>4, <2>7
    <3>2. z \in AnyLead => y \notin AnyLead
      <4>1. CASE k = 0
        BY <4>1 DEF At, AnyLead, Lead2, Lead3, Lead4
      <4>2. CASE k > 0
        <5>1. LaneOk(bytes, k)
          BY <2>7, <4>2 DEF ValidateBlocks
        <5>2. LaneOk(bytes, k) <=> Lane(At(bytes, k - 3), x, y, z)
          BY <4>2, LaneIs
        <5>3. Lane(At(bytes, k - 3), x, y, z)
          BY <5>1, <5>2, Zenon
        <5> QED  BY <5>3, LeadsApart, Zenon
      <4> QED  BY <4>1, <4>2
    <3>3. /\ Lane(x, y, z, b) =>
               DfaStep(run[k].state, b).ok = TRUE /\ DfaStep(run[k].state, b).state = After3(y, z, b)
          /\ ~Lane(x, y, z, b) => DfaStep(run[k].state, b).ok = FALSE
      <4>1. ASSUME Lane(x, y, z, b)
            PROVE  DfaStep(After3(x, y, z), b).ok = TRUE /\ DfaStep(After3(x, y, z), b).state = After3(y, z, b)
        BY <2>1, <3>2, <4>1, LaneStep
      <4>2. ASSUME ~Lane(x, y, z, b)
            PROVE  DfaStep(After3(x, y, z), b).ok = FALSE
        BY <2>1, <3>2, <4>2, LaneStep
      <4>3. run[k].state = After3(x, y, z)
        BY <3>1, Zenon
      <4> QED  BY <4>1, <4>2, <4>3, Zenon
    <3>4. /\ run[k + 1].ok = (run[k].ok /\ DfaStep(run[k].state, b).ok)
          /\ run[k + 1].state = DfaStep(run[k].state, b).state
      BY <2>3 DEF After, Continue
    <3>5. CASE Lane(x, y, z, b)
      <4>1. DfaStep(run[k].state, b).ok = TRUE /\ DfaStep(run[k].state, b).state = After3(y, z, b)
        BY <3>3, <3>5, Zenon
      <4>2. run[k + 1].state = After3(y, z, b) /\ run[k + 1].ok
        BY <3>1, <3>4, <4>1, Zenon
      <4> QED  BY <2>2, <2>4, <2>5, <2>7, <3>5, <4>2, Zenon
    <3>6. CASE ~Lane(x, y, z, b)
      <4>1. ~run[k + 1].ok
        BY <3>3, <3>4, <3>6
      <4> QED  BY <2>2, <2>5, <3>6, <4>1
    <3> QED  BY <3>5, <3>6
  <2> QED  BY <2>6, <2>7
<1> HIDE DEF P
<1>3. 0 \in S
  BY <1>1
<1>4. \A k \in 0 .. Len(bytes) - 1 : k \in S => k + 1 \in S
  BY <1>2
<1> HIDE DEF S
<1>5. i \in S
  BY <1>3, <1>4, StepByStep
<1> QED  BY <1>5 DEF S, P

\* From the start, any byte leaves the state that it alone determines.
LEMMA FirstStep == \A x \in Byte : DfaStep(Start, x).state = After3(0, 0, x)
<1> SUFFICES ASSUME NEW x \in Byte PROVE DfaStep(Start, x).state = After3(0, 0, x)
  OBVIOUS
<1>1. /\ x \in Lead2 => Due(0, 0, x) = 1
      /\ x \in Lead3 => Due(0, 0, x) = 2
      /\ x \in Lead4 => Due(0, 0, x) = 3
      /\ x \notin AnyLead => Due(0, 0, x) = 0
  BY DEF Due, AnyLead, Lead2, Lead3, Lead4
<1>2. DfaStep(Start, x) =
        IF x \in 0 .. 127 THEN [ok |-> TRUE, state |-> Start]
        ELSE IF x \in AnyLead
             THEN [ok |-> TRUE,
                   state |-> State(CASE x \in Lead2 -> 1 [] x \in Lead3 -> 2 [] OTHER -> 3,
                                   SecondLo(x), SecondHi(x))]
        ELSE [ok |-> FALSE, state |-> Start]
  BY DEF DfaStep, Start, State
<1>3. CASE x \notin AnyLead
  <2>1. DfaStep(Start, x).state = Start
    BY <1>2, <1>3
  <2>2. Due(0, 0, x) = 0 /\ SecondLo(x) = 128 /\ SecondHi(x) = 191
    BY <1>1, <1>3, Seconds
  <2> QED  BY <2>1, <2>2 DEF After3, Start
<1>4. CASE x \in AnyLead
  <2>1. x \notin 0 .. 127
    BY <1>4 DEF AnyLead, Lead2, Lead3, Lead4
  <2>2. DfaStep(Start, x).state = State(CASE x \in Lead2 -> 1 [] x \in Lead3 -> 2 [] OTHER -> 3,
                                        SecondLo(x), SecondHi(x))
    BY <1>2, <1>4, <2>1
  <2>3. Due(0, 0, x) = CASE x \in Lead2 -> 1 [] x \in Lead3 -> 2 [] OTHER -> 3
    BY <1>1, <1>4 DEF AnyLead, Lead2, Lead3, Lead4
  <2> QED  BY <2>2, <2>3 DEF After3
<1> QED  BY <1>3, <1>4

\* Three right lanes and the state the DFA is in after their bytes alone.
LEMMA Window ==
  ASSUME NEW v \in Byte, NEW w \in Byte, NEW x \in Byte, NEW y \in Byte, NEW z \in Byte,
         Lane(v, w, x, y), Lane(w, x, y, z)
  PROVE  DfaStep(DfaStep(DfaStep(Start, x).state, y).state, z).state = After3(x, y, z)
<1>0. 0 \in Byte
  BY DEF Byte
<1>1. DfaStep(Start, x).state = After3(0, 0, x)
  BY FirstStep
<1>2. DfaStep(After3(0, 0, x), y).state = After3(0, x, y)
  <2>1. CASE x \in AnyLead
    <3>1. Lane(0, 0, x, y)
      BY <2>1 DEF Lane, Required
    <3>2. 0 \notin AnyLead
      BY DEF AnyLead, Lead2, Lead3, Lead4
    <3> QED  BY <1>0, <3>1, <3>2, LaneStep
  <2>2. CASE x \notin AnyLead
    <3>1. After3(0, 0, x) = Start
      <4>1. Due(0, 0, x) = 0
        BY <2>2 DEF Due, AnyLead, Lead2, Lead3, Lead4
      <4> QED  BY <2>2, <4>1, Seconds DEF After3, Start
    <3>2. DfaStep(Start, y).state = After3(0, 0, y)
      BY FirstStep
    <3>3. Due(0, 0, y) = Due(0, x, y)
      BY <2>2 DEF Due, AnyLead, Lead2, Lead3, Lead4
    <3> QED  BY <3>1, <3>2, <3>3 DEF After3
  <2> QED  BY <2>1, <2>2
<1>3. DfaStep(After3(0, x, y), z).state = After3(x, y, z)
  <2>1. y \in AnyLead => x \notin AnyLead
    BY LeadsApart, Zenon
  <2>2. CASE Required(0, x, y)
    <3>1. Required(w, x, y)
      BY <2>2 DEF Required, Lead4
    <3>2. Lane(0, x, y, z)
      BY <2>2, <3>1, Zenon DEF Lane
    <3> QED  BY <1>0, <2>1, <3>2, LaneStep
  <2>3. CASE ~Required(0, x, y)
    <3>1. y \notin AnyLead /\ x \notin Lead3 \cup Lead4
      BY <2>3 DEF Required
    <3>2. After3(0, x, y) = Start
      <4>1. Due(0, x, y) = 0
        BY <3>1 DEF Due, AnyLead, Lead2, Lead3, Lead4
      <4> QED  BY <3>1, <4>1, Seconds DEF After3, Start
    <3>3. DfaStep(Start, z).state = After3(0, 0, z)
      BY FirstStep
    <3>4. Due(0, 0, z) = Due(x, y, z)
      BY <3>1 DEF Due, AnyLead, Lead2, Lead3, Lead4
    <3> QED  BY <3>2, <3>3, <3>4 DEF After3
  <2> QED  BY <2>2, <2>3
<1> QED  BY <1>1, <1>2, <1>3

\* After right lanes the last three bytes give the state of the whole run.
LEMMA BoundaryIs ==
  ASSUME NEW bytes \in Seq(Byte), NEW bulk \in 0 .. Len(bytes), bulk = 0 \/ bulk >= 3,
         ValidateBlocks(bytes, bulk)
  PROVE  BoundaryState(bytes, bulk) = DfaRun(Start, bytes)[bulk].state
<1> DEFINE last == SubSeq(bytes, IF bulk > 3 THEN bulk - 2 ELSE 1, bulk)
           run == DfaRun(Start, last)
<1>1. BoundaryState(bytes, bulk) = run[Len(last)].state
  BY DEF BoundaryState
<1>2. CASE bulk = 0
  <2>1. last \in Seq(Byte) /\ Len(last) = 0
    BY <1>2, SubSeqProperties
  <2>2. run[0] = Begun(Start) /\ DfaRun(Start, bytes)[0] = Begun(Start)
    BY <2>1, RunAt
  <2> QED  BY <1>1, <1>2, <2>1, <2>2
<1>3. CASE bulk >= 3
  <2> DEFINE x == At(bytes, bulk - 2)
             y == At(bytes, bulk - 1)
             z == At(bytes, bulk)
  <2>1. /\ last \in Seq(Byte) /\ Len(last) = 3
        /\ last[1] = x /\ last[2] = y /\ last[3] = z
    <3>1. last = SubSeq(bytes, bulk - 2, bulk)
      BY <1>3
    <3>2. /\ SubSeq(bytes, bulk - 2, bulk) \in Seq(Byte) /\ Len(SubSeq(bytes, bulk - 2, bulk)) = 3
          /\ \A i \in 1 .. 3 : SubSeq(bytes, bulk - 2, bulk)[i] = bytes[(bulk - 2) + i - 1]
      BY <1>3, SubSeqProperties
    <3> QED  BY <1>3, <3>1, <3>2 DEF At
  <2> HIDE DEF last
  <2>2. /\ run[0] = Begun(Start) /\ run[1] = After(run[0], x)
        /\ run[2] = After(run[1], y) /\ run[3] = After(run[2], z)
    BY <2>1, RunAt
  <2>3. run[3].state = DfaStep(DfaStep(DfaStep(Start, x).state, y).state, z).state
    BY <2>2 DEF After, Continue, Begun
  <2>4. x \in Byte /\ y \in Byte /\ z \in Byte /\ At(bytes, bulk - 3) \in Byte /\ At(bytes, bulk - 4) \in Byte
    BY <1>3, AtByte
  <2>5. LaneOk(bytes, bulk - 1) /\ LaneOk(bytes, bulk)
    BY <1>3 DEF ValidateBlocks
  <2>6. Lane(At(bytes, bulk - 4), At(bytes, bulk - 3), x, y) /\ Lane(At(bytes, bulk - 3), x, y, z)
    BY <1>3, <2>5, LaneIs
  <2>7. StateAt(bytes, bulk) = After3(x, y, z)
    BY DEF StateAt
  <2>8. DfaRun(Start, bytes)[bulk].state = StateAt(bytes, bulk)
    BY LanesAreRun
  <2> QED  BY <1>1, <2>1, <2>3, <2>4, <2>6, <2>7, <2>8, Window
<1> QED  BY <1>2, <1>3

\* The blocks end where a whole number of vectors does.
LEMMA BulkIs ==
  ASSUME NEW n \in Nat
  PROVE  n - (n % Block) \in 0 .. n /\ (n - (n % Block) = 0 \/ n - (n % Block) >= 3)
<1>1. Block \in Nat /\ Block >= 3
  BY BlockAssumption
<1>2. n = Block * (n \div Block) + (n % Block) /\ n \div Block \in Int /\ n % Block \in 0 .. Block - 1
  BY <1>1
<1>3. PICK q \in Int, r \in 0 .. Block - 1 : n = Block * q + r /\ r = n % Block
  BY <1>2
<1>4. q >= 0
  <2>1. CASE q <= -1
    <3>1. Block * q <= -Block
      BY <1>1, <2>1
    <3> QED  BY <1>1, <1>3, <3>1
  <2> QED  BY <2>1
<1>5. PICK p \in Int : p = Block * q
  BY <1>1
<1>6. p = 0 \/ p >= 3
  <2>1. CASE q >= 1
    <3>1. Block * q >= Block
      BY <1>1, <2>1
    <3> QED  BY <1>1, <1>5, <3>1
  <2>2. CASE q = 0
    BY <1>1, <1>5, <2>2
  <2> QED  BY <1>4, <2>1, <2>2
<1>7. n = p + r /\ r >= 0 /\ p >= 0
  BY <1>1, <1>3, <1>5, <1>6
<1>8. n - r \in 0 .. n /\ (n - r = 0 \/ n - r >= 3)
  BY <1>6, <1>7
<1> QED  BY <1>3, <1>8

\* The block path and the scalar DFA accept the same bytes.
LEMMA PathsAgree ==
  ASSUME NEW bytes \in Seq(Byte)
  PROVE  Validate(bytes) <=> ScalarDfa(bytes)
<1> DEFINE n == Len(bytes)
           bulk == n - (n % Block)
           run == DfaRun(Start, bytes)
           rest == SubSeq(bytes, bulk + 1, n)
<1>1. n \in Nat /\ bulk \in 0 .. n /\ (bulk = 0 \/ bulk >= 3)
  BY BulkIs
<1>2. Validate(bytes) <=> ValidateBlocks(bytes, bulk) /\ ValidateTail(bytes, bulk)
  BY DEF Validate
<1>3. ScalarDfa(bytes) <=> run[n].ok /\ run[n].state.remaining = 0
  BY DEF ScalarDfa, Accepts, Complete
<1> HIDE DEF bulk
<1>4. ValidateBlocks(bytes, bulk) <=> run[bulk].ok
  BY <1>1, LanesAreRun
<1>5. CASE ~ValidateBlocks(bytes, bulk)
  <2>1. ~run[n].ok
    BY <1>1, <1>4, <1>5, RefusedForEver
  <2> QED  BY <1>2, <1>3, <1>5, <2>1
<1>6. CASE ValidateBlocks(bytes, bulk)
  <2>1. BoundaryState(bytes, bulk) = run[bulk].state
    BY <1>1, <1>6, BoundaryIs
  <2>2. Len(rest) = n - bulk /\ n - bulk \in 0 .. n - bulk /\ bulk + (n - bulk) = n
    BY <1>1, SubSeqProperties
  <2>3. DfaRun(run[bulk].state, rest)[n - bulk] = run[bulk + (n - bulk)]
    BY <1>1, <1>4, <1>6, <2>2, TakenUp
  <2>4. ValidateTail(bytes, bulk) <=> run[n].ok /\ run[n].state.remaining = 0
    BY <2>1, <2>2, <2>3 DEF ValidateTail, Accepts, Complete
  <2> QED  BY <1>2, <1>3, <1>6, <2>4
<1> QED  BY <1>5, <1>6

-----------------------------------------------------------------------------
(* The definition of UTF-8.                                                *)

\* Three bytes encode a scalar value, shortest, if the second is in its range.
LEMMA ThreeBytes ==
  ASSUME NEW a \in Lead3, NEW b \in Cont, NEW d \in Cont
  PROVE  Scalar(4096 * (a - 224) + 64 * (b - 128) + (d - 128), 2048) <=> b \in SecondLo(a) .. SecondHi(a)
<1>1. PICK p \in Int : p = 4096 * (a - 224) + 64 * (b - 128) + (d - 128)
  BY DEF Lead3, Cont
<1>2. CASE a = 224
  <2>1. SecondLo(a) = 160 /\ SecondHi(a) = 191
    BY <1>2 DEF SecondLo, SecondHi
  <2>2. p = 64 * (b - 128) + (d - 128)
    BY <1>1, <1>2 DEF Cont
  <2>3. Scalar(p, 2048) <=> b >= 160
    BY <2>2, SMT DEF Scalar, Cont
  <2> QED  BY <1>1, <2>1, <2>3, SMT DEF Cont
<1>3. CASE a = 237
  <2>1. SecondLo(a) = 128 /\ SecondHi(a) = 159
    BY <1>3 DEF SecondLo, SecondHi
  <2>2. p = 53248 + 64 * (b - 128) + (d - 128)
    BY <1>1, <1>3, SMT DEF Cont
  <2>3. Scalar(p, 2048) <=> b <= 159
    BY <2>2, SMT DEF Scalar, Cont
  <2> QED  BY <1>1, <2>1, <2>3, SMT DEF Cont
<1>4. CASE a \notin {224, 237}
  <2>1. SecondLo(a) = 128 /\ SecondHi(a) = 191
    BY <1>4 DEF SecondLo, SecondHi, Lead3
  <2>2. a \in 225 .. 236 \/ a \in 238 .. 239
    BY <1>4 DEF Lead3
  <2>3. Scalar(p, 2048)
    BY <1>1, <2>2, SMT DEF Scalar, Cont
  <2> QED  BY <1>1, <2>1, <2>3, SMT DEF Cont
<1> QED  BY <1>2, <1>3, <1>4, SMT

Quad(a, b, d, e) ==
    Scalar(262144 * (a - 240) + 4096 * (b - 128) + 64 * (d - 128) + (e - 128), 65536)

\* Four bytes do if the first is a lead byte, too.
LEMMA FourBytes ==
  ASSUME NEW a \in 240 .. 247, NEW b \in Cont, NEW d \in Cont, NEW e \in Cont
  PROVE  Quad(a, b, d, e)
           <=> a \in Lead4 /\ b \in SecondLo(a) .. SecondHi(a)
<1>1. PICK p \in Int : p = 262144 * (a - 240) + 4096 * (b - 128) + 64 * (d - 128) + (e - 128)
  BY SMT DEF Cont
<1>7. Quad(a, b, d, e) <=> Scalar(p, 65536)
  BY <1>1, SMT DEF Quad
<1>2. CASE a = 240
  <2>1. SecondLo(a) = 144 /\ SecondHi(a) = 191
    BY <1>2 DEF SecondLo, SecondHi
  <2>2. p = 4096 * (b - 128) + 64 * (d - 128) + (e - 128)
    BY <1>1, <1>2, SMT DEF Cont
  <2>3. Scalar(p, 65536) <=> b >= 144
    BY <2>2, SMT DEF Scalar, Cont
  <2> QED  BY <1>7, <1>2, <2>1, <2>3, SMT DEF Cont, Lead4
<1>3. CASE a = 244
  <2>1. SecondLo(a) = 128 /\ SecondHi(a) = 143
    BY <1>3 DEF SecondLo, SecondHi
  <2>2. p = 1048576 + 4096 * (b - 128) + 64 * (d - 128) + (e - 128)
    BY <1>1, <1>3, SMT DEF Cont
  <2>3. Scalar(p, 65536) <=> b <= 143
    BY <2>2, SMT DEF Scalar, Cont
  <2> QED  BY <1>7, <1>3, <2>1, <2>3, SMT DEF Cont, Lead4
<1>4. CASE a \in 241 .. 243
  <2>1. SecondLo(a) = 128 /\ SecondHi(a) = 191
    BY <1>4 DEF SecondLo, SecondHi
  <2>3. Scalar(p, 65536)
    BY <1>1, <1>4, SMT DEF Scalar, Cont
  <2> QED  BY <1>7, <1>4, <2>1, <2>3, SMT DEF Cont, Lead4
<1>5. CASE a \in 245 .. 247
  <2>1. ~Scalar(p, 65536)
    BY <1>1, <1>5, SMT DEF Scalar, Cont
  <2> QED  BY <1>7, <1>5, <2>1, SMT DEF Lead4
<1>6. a = 240 \/ a = 244 \/ a \in 241 .. 243 \/ a \in 245 .. 247
  OBVIOUS
<1> QED  BY <1>2, <1>3, <1>4, <1>5, <1>6, SMT
\* The bytes of a character: the ranges of the second byte are those where the
\* encoding is the shortest, and of a scalar value.
LEMMA CharacterIs ==
  ASSUME NEW bytes \in Seq(Byte), NEW c \in Nat, NEW n \in 1 .. 4, c + n <= Len(bytes)
  PROVE  Character(bytes, c, n) <=>
           \/ n = 1 /\ bytes[c + 1] \in 0 .. 127
           \/ n = 2 /\ bytes[c + 1] \in Lead2 /\ bytes[c + 2] \in Cont
           \/ /\ n = 3 /\ bytes[c + 1] \in Lead3 /\ bytes[c + 3] \in Cont
              /\ bytes[c + 2] \in SecondLo(bytes[c + 1]) .. SecondHi(bytes[c + 1])
           \/ /\ n = 4 /\ bytes[c + 1] \in Lead4 /\ bytes[c + 3] \in Cont /\ bytes[c + 4] \in Cont
              /\ bytes[c + 2] \in SecondLo(bytes[c + 1]) .. SecondHi(bytes[c + 1])
<1>1. \A k \in 1 .. n : bytes[c + k] \in Byte
  OBVIOUS
<1>2. CASE n = 1
  <2>1. bytes[c + 1] \in Byte
    BY <1>1, <1>2
  <2>2. Character(bytes, c, 1) <=> bytes[c + 1] \in 0 .. 127
    BY <2>1, SMT DEF Character, Scalar, Byte
  <2> QED  BY <1>2, <2>2
<1>3. CASE n = 2
  <2>1. bytes[c + 1] \in Byte /\ bytes[c + 2] \in Byte
    BY <1>1, <1>3
  <2>2. PICK a \in Byte, b \in Byte : a = bytes[c + 1] /\ b = bytes[c + 2]
    BY <2>1
  <2>3. Character(bytes, c, 2) <=>
          /\ a - 192 \in 0 .. 31 /\ b - 128 \in 0 .. 63
          /\ Scalar(64 * (a - 192) + (b - 128), 128)
    BY <2>2 DEF Character
  <2>4. /\ a - 192 \in 0 .. 31 /\ b - 128 \in 0 .. 63
        /\ Scalar(64 * (a - 192) + (b - 128), 128)
        <=> a \in Lead2 /\ b \in Cont
    BY SMT DEF Scalar, Lead2, Cont, Byte
  <2> QED  BY <1>3, <2>2, <2>3, <2>4
<1>4. CASE n = 3
  <2>1. bytes[c + 1] \in Byte /\ bytes[c + 2] \in Byte /\ bytes[c + 3] \in Byte
    BY <1>1, <1>4
  <2>2. PICK a \in Byte, b \in Byte, d \in Byte : a = bytes[c + 1] /\ b = bytes[c + 2] /\ d = bytes[c + 3]
    BY <2>1
  <2>3. Character(bytes, c, 3) <=>
          /\ a - 224 \in 0 .. 15 /\ b - 128 \in 0 .. 63 /\ d - 128 \in 0 .. 63
          /\ Scalar(4096 * (a - 224) + 64 * (b - 128) + (d - 128), 2048)
    BY <2>2, SMT DEF Character
  <2>4. a - 224 \in 0 .. 15 /\ b - 128 \in 0 .. 63 /\ d - 128 \in 0 .. 63
          <=> a \in Lead3 /\ b \in Cont /\ d \in Cont
    BY SMT DEF Lead3, Cont, Byte
  <2>5. b \in SecondLo(a) .. SecondHi(a) => b \in Cont
    <3>1. SecondLo(a) \in 128 .. 160 /\ SecondHi(a) \in 143 .. 191
      BY Seconds
    <3>2. PICK lo \in 128 .. 160, hi \in 143 .. 191 : lo = SecondLo(a) /\ hi = SecondHi(a)
      BY <3>1
    <3>3. \A k \in Byte : k \in lo .. hi => k \in Cont
      BY DEF Byte, Cont
    <3> QED  BY <3>2, <3>3
  <2>6. Character(bytes, c, 3) <=> a \in Lead3 /\ d \in Cont /\ b \in SecondLo(a) .. SecondHi(a)
    BY <2>3, <2>4, <2>5, ThreeBytes, SMT
  <2> QED  BY <1>4, <2>2, <2>6, SMT
<1>5. CASE n = 4
  <2>1. bytes[c + 1] \in Byte /\ bytes[c + 2] \in Byte /\ bytes[c + 3] \in Byte /\ bytes[c + 4] \in Byte
    BY <1>1, <1>5
  <2>2. PICK a \in Byte, b \in Byte, d \in Byte, e \in Byte :
          a = bytes[c + 1] /\ b = bytes[c + 2] /\ d = bytes[c + 3] /\ e = bytes[c + 4]
    BY <2>1
  <2>3. Character(bytes, c, 4) <=>
          /\ a - 240 \in 0 .. 7 /\ b - 128 \in 0 .. 63 /\ d - 128 \in 0 .. 63 /\ e - 128 \in 0 .. 63
          /\ Quad(a, b, d, e)
    BY <2>2, SMT DEF Character, Quad
  <2>4. a - 240 \in 0 .. 7 /\ b - 128 \in 0 .. 63 /\ d - 128 \in 0 .. 63 /\ e - 128 \in 0 .. 63
          <=> a \in 240 .. 247 /\ b \in Cont /\ d \in Cont /\ e \in Cont
    BY SMT DEF Cont, Byte
  <2>5. (b \in SecondLo(a) .. SecondHi(a) => b \in Cont) /\ (a \in Lead4 => a \in 240 .. 247)
    <3>1. SecondLo(a) \in 128 .. 160 /\ SecondHi(a) \in 143 .. 191
      BY Seconds
    <3>2. PICK lo \in 128 .. 160, hi \in 143 .. 191 : lo = SecondLo(a) /\ hi = SecondHi(a)
      BY <3>1
    <3>3. \A k \in Byte : k \in lo .. hi => k \in Cont
      BY DEF Byte, Cont
    <3> QED  BY <3>2, <3>3 DEF Lead4
  <2>6. Character(bytes, c, 4) <=>
          a \in Lead4 /\ d \in Cont /\ e \in Cont /\ b \in SecondLo(a) .. SecondHi(a)
    <3>1. CASE a \in 240 .. 247 /\ b \in Cont /\ d \in Cont /\ e \in Cont
      <4>1. Character(bytes, c, 4) <=>
              Quad(a, b, d, e)
        BY <2>3, <2>4, <3>1, SMT
      <4>2. Quad(a, b, d, e)
              <=> a \in Lead4 /\ b \in SecondLo(a) .. SecondHi(a)
        BY <3>1, FourBytes, SMT
      <4> QED  BY <3>1, <4>1, <4>2, SMT
    <3>2. CASE ~(a \in 240 .. 247 /\ b \in Cont /\ d \in Cont /\ e \in Cont)
      BY <2>3, <2>4, <2>5, <3>2, SMT
    <3> QED  BY <3>1, <3>2, SMT
  <2> QED  BY <1>5, <2>2, <2>6, SMT
<1> QED  BY <1>2, <1>3, <1>4, <1>5

\* The continuation bytes that follow a lead byte.
Follow(b) == CASE b \in Lead2 -> 1 [] b \in Lead3 -> 2 [] OTHER -> 3

\* Between two characters the DFA takes the first byte of a character.
LEMMA FirstTaken ==
  ASSUME NEW bytes \in Seq(Byte), NEW i \in 0 .. Len(bytes) - 1, NEW j, j = i + 1,
         DfaRun(Start, bytes)[i].ok, DfaRun(Start, bytes)[i].state.remaining = 0
  PROVE  /\ DfaRun(Start, bytes)[j].ok <=> bytes[j] \in 0 .. 127 \/ bytes[j] \in AnyLead
         /\ bytes[j] \in 0 .. 127 => DfaRun(Start, bytes)[j].state.remaining = 0
         /\ bytes[j] \in AnyLead =>
              DfaRun(Start, bytes)[j].state = State(Follow(bytes[j]), SecondLo(bytes[j]), SecondHi(bytes[j]))
<1> DEFINE run == DfaRun(Start, bytes)
           b == bytes[j]
<1>1. run[j] = After(run[i], b)
  BY RunAt
<1> DEFINE s == run[i].state
<1>2. DfaStep(s, b) =
        IF b \in 0 .. 127 THEN [ok |-> TRUE, state |-> s]
        ELSE IF b \in AnyLead
             THEN [ok |-> TRUE, state |-> State(Follow(b), SecondLo(b), SecondHi(b))]
        ELSE [ok |-> FALSE, state |-> s]
  <2>1. s.remaining = 0
    OBVIOUS
  <2> HIDE DEF s, b
  <2> QED  BY <2>1 DEF DfaStep, Follow
<1>3. b \in AnyLead => b \notin 0 .. 127
  <2> HIDE DEF b
  <2> QED  BY DEF AnyLead, Lead2, Lead3, Lead4
<1>4. run[i].ok /\ s.remaining = 0
  OBVIOUS
<1>5. (run[j].ok = (run[i].ok /\ DfaStep(s, b).ok)) /\ run[j].state = DfaStep(s, b).state
  BY <1>1 DEF After, Continue
<1> HIDE DEF run, s, b
<1>6. CASE b \in 0 .. 127
  <2>1. DfaStep(s, b).ok = TRUE /\ DfaStep(s, b).state = s
    BY <1>2, <1>6
  <2>2. run[j].ok /\ run[j].state.remaining = 0 /\ b \notin AnyLead
    BY <1>3, <1>4, <1>5, <1>6, <2>1, Zenon
  <2> QED  BY <1>6, <2>2 DEF run, b
<1>7. CASE b \in AnyLead
  <2>1. DfaStep(s, b).ok = TRUE /\ DfaStep(s, b).state = State(Follow(b), SecondLo(b), SecondHi(b))
    BY <1>2, <1>3, <1>7
  <2>2. run[j].ok /\ run[j].state = State(Follow(b), SecondLo(b), SecondHi(b)) /\ b \notin 0 .. 127
    BY <1>3, <1>4, <1>5, <1>7, <2>1, Zenon
  <2> QED  BY <1>7, <2>2 DEF run, b
<1>8. CASE b \notin 0 .. 127 /\ b \notin AnyLead
  <2>1. DfaStep(s, b).ok = FALSE
    BY <1>2, <1>8
  <2>2. ~run[j].ok
    BY <1>5, <2>1, Zenon
  <2> QED  BY <1>8, <2>2 DEF run, b
<1> QED  BY <1>6, <1>7, <1>8, Zenon

\* Byte j of bytes stands after i of them; q bytes are due after one of r; and
\* what a range of bytes goes from and to.
Stands(bytes, i, j) == i \in 0 .. Len(bytes) - 1 /\ j = i + 1
Counts(r, q) == r \in 1 .. 3 /\ q = r - 1
Range2(lo, hi) == lo \in Nat /\ hi \in Nat

\* The DFA has taken i bytes and waits for r more, the next one of lo .. hi.
Waits(bytes, i, r, lo, hi) ==
    /\ i \in 0 .. Len(bytes)
    /\ DfaRun(Start, bytes)[i].ok /\ DfaRun(Start, bytes)[i].state = State(r, lo, hi)
Awaits(bytes, i, r) == Waits(bytes, i, r, 128, 191)

\* How many bytes follow a lead byte, and of which range the next one is.
LEMMA Follows ==
  ASSUME NEW b \in Byte
  PROVE  /\ b \in Lead2 => Follow(b) = 1 /\ SecondLo(b) = 128 /\ SecondHi(b) = 191
         /\ b \in Lead3 => Follow(b) = 2
         /\ b \in Lead4 => Follow(b) = 3
         /\ Range2(SecondLo(b), SecondHi(b))
BY DEF Follow, Lead2, Lead3, Lead4, SecondLo, SecondHi, Range2

\* What is due goes down to zero.
LEMMA Countdown == Counts(3, 2) /\ Counts(2, 1) /\ Counts(1, 0)
BY DEF Counts

\* Within a character it takes a byte of the range it waits for.
LEMMA TailTaken ==
  ASSUME NEW bytes \in Seq(Byte), NEW i, NEW j, NEW r, NEW q, NEW lo, NEW hi,
         Stands(bytes, i, j), Counts(r, q), Range2(lo, hi), Waits(bytes, i, r, lo, hi)
  PROVE  /\ DfaRun(Start, bytes)[j].ok <=> bytes[j] \in lo .. hi
         /\ bytes[j] \in lo .. hi => Awaits(bytes, j, q)
<1> USE DEF Stands, Counts, Range2, Waits, Awaits
<1> DEFINE run == DfaRun(Start, bytes)
           b == bytes[j]
<1>1. run[j] = After(run[i], b)
  BY RunAt
<1>7. b \in Byte
  OBVIOUS
<1>2. DfaStep(State(r, lo, hi), b) =
        IF b \in lo .. hi THEN [ok |-> TRUE, state |-> State(q, 128, 191)]
        ELSE [ok |-> FALSE, state |-> State(r, lo, hi)]
  <2> HIDE DEF b
  <2>1. (b < lo \/ b > hi) <=> b \notin lo .. hi
    BY <1>7 DEF Byte
  <2>2. DfaStep(State(r, lo, hi), b) =
          IF b < lo \/ b > hi THEN [ok |-> FALSE, state |-> State(r, lo, hi)]
          ELSE [ok |-> TRUE, state |-> State(q, 128, 191)]
    BY DEF DfaStep, State
  <2> QED  BY <2>1, <2>2, Zenon
<1>3. run[i].ok /\ run[i].state = State(r, lo, hi)
  OBVIOUS
<1>4. /\ run[j].ok = (run[i].ok /\ DfaStep(State(r, lo, hi), b).ok)
      /\ run[j].state = DfaStep(State(r, lo, hi), b).state
  BY <1>1, <1>3 DEF After, Continue
<1> HIDE DEF run, b
<1>5. CASE b \in lo .. hi
  <2>1. DfaStep(State(r, lo, hi), b).ok = TRUE /\ DfaStep(State(r, lo, hi), b).state = State(q, 128, 191)
    BY <1>2, <1>5
  <2>2. run[j].ok /\ run[j].state = State(q, 128, 191)
    BY <1>3, <1>4, <2>1, Zenon
  <2>3. Awaits(bytes, j, q)
    <3>1. j \in 0 .. Len(bytes)
      OBVIOUS
    <3> HIDE DEF Stands, Counts, Range2
    <3> QED  BY <2>2, <3>1, Zenon DEF run
  <2> QED  BY <1>5, <2>2, <2>3, Zenon DEF run, b
<1>6. CASE b \notin lo .. hi
  <2>1. DfaStep(State(r, lo, hi), b).ok = FALSE
    BY <1>2, <1>6
  <2>2. ~run[j].ok
    BY <1>4, <2>1, Zenon
  <2> QED  BY <1>6, <2>2, Zenon DEF run, b
<1> HIDE DEF Stands, Counts, Range2, Waits, Awaits
<1> QED  BY <1>5, <1>6, Zenon

\* The same of a byte after the second.
LEMMA ContTaken ==
  ASSUME NEW bytes \in Seq(Byte), NEW i, NEW j, NEW r, NEW q,
         Stands(bytes, i, j), Counts(r, q), Awaits(bytes, i, r)
  PROVE  /\ DfaRun(Start, bytes)[j].ok <=> bytes[j] \in Cont
         /\ bytes[j] \in Cont => Awaits(bytes, j, q)
<1>1. PICK lo, hi : lo = 128 /\ hi = 191
  OBVIOUS
<1>2. Range2(lo, hi) /\ Waits(bytes, i, r, lo, hi) /\ Cont = lo .. hi
  BY <1>1, SMT DEF Range2, Awaits, Cont
<1> QED  BY <1>2, TailTaken, Zenon

\* Between two characters the DFA takes a whole character.
LEMMA CharacterTaken ==
  ASSUME NEW bytes \in Seq(Byte), NEW c \in Nat, NEW n \in 1 .. 4, c + n <= Len(bytes),
         Character(bytes, c, n),
         DfaRun(Start, bytes)[c].ok, DfaRun(Start, bytes)[c].state.remaining = 0
  PROVE  DfaRun(Start, bytes)[c + n].ok /\ DfaRun(Start, bytes)[c + n].state.remaining = 0
<1> DEFINE run == DfaRun(Start, bytes)
           a == bytes[c + 1]
<1>1. /\ c \in 0 .. Len(bytes) - 1 /\ a \in Byte
      /\ n >= 2 => Stands(bytes, c + 1, c + 2)
      /\ n >= 3 => Stands(bytes, c + 2, c + 3)
      /\ n >= 4 => Stands(bytes, c + 3, c + 4)
  BY DEF Stands
<1>2. Range2(SecondLo(a), SecondHi(a))
  BY <1>1, Follows
<1>3. /\ a \in 0 .. 127 => run[c + 1].ok /\ run[c + 1].state.remaining = 0
      /\ a \in AnyLead => Waits(bytes, c + 1, Follow(a), SecondLo(a), SecondHi(a))
  BY <1>1, FirstTaken DEF Waits
<1>4. CASE n = 1
  <2>1. a \in 0 .. 127
    BY <1>4, CharacterIs
  <2> QED  BY <1>3, <1>4, <2>1
<1>5. CASE n = 2
  <2>1. a \in Lead2 /\ bytes[c + 2] \in Cont
    BY <1>5, CharacterIs
  <2>2. Awaits(bytes, c + 1, 1)
    BY <1>1, <1>3, <2>1, Follows DEF AnyLead, Waits, Awaits
  <2>3. Stands(bytes, c + 1, c + 2)
    BY <1>1, <1>5
  <2>4. Awaits(bytes, c + 2, 0)
    BY <2>1, <2>2, <2>3, ContTaken, Countdown
  <2> QED  BY <1>5, <2>4 DEF State, Waits, Awaits
<1>6. CASE n = 3
  <2>1. a \in Lead3 /\ bytes[c + 2] \in SecondLo(a) .. SecondHi(a) /\ bytes[c + 3] \in Cont
    BY <1>6, CharacterIs
  <2>2. Waits(bytes, c + 1, 2, SecondLo(a), SecondHi(a))
    BY <1>1, <1>3, <2>1, Follows DEF AnyLead, Waits, Awaits
  <2>3. Stands(bytes, c + 1, c + 2) /\ Stands(bytes, c + 2, c + 3)
    BY <1>1, <1>6
  <2>4. Awaits(bytes, c + 2, 1)
    BY <1>2, <2>1, <2>2, <2>3, TailTaken, Countdown, Zenon
  <2>5. Awaits(bytes, c + 3, 0)
    BY <2>1, <2>3, <2>4, ContTaken, Countdown
  <2> QED  BY <1>6, <2>5 DEF State, Waits, Awaits
<1>7. CASE n = 4
  <2>1. /\ a \in Lead4 /\ bytes[c + 2] \in SecondLo(a) .. SecondHi(a)
        /\ bytes[c + 3] \in Cont /\ bytes[c + 4] \in Cont
    BY <1>7, CharacterIs
  <2>2. Waits(bytes, c + 1, 3, SecondLo(a), SecondHi(a))
    BY <1>1, <1>3, <2>1, Follows DEF AnyLead, Waits, Awaits
  <2>3. Stands(bytes, c + 1, c + 2) /\ Stands(bytes, c + 2, c + 3) /\ Stands(bytes, c + 3, c + 4)
    BY <1>1, <1>7
  <2>4. Awaits(bytes, c + 2, 2)
    BY <1>2, <2>1, <2>2, <2>3, TailTaken, Countdown, Zenon
  <2>5. Awaits(bytes, c + 3, 1)
    BY <2>1, <2>3, <2>4, ContTaken, Countdown
  <2>6. Awaits(bytes, c + 4, 0)
    BY <2>1, <2>3, <2>5, ContTaken, Countdown
  <2> QED  BY <1>7, <2>6 DEF State, Waits, Awaits
<1> QED  BY <1>4, <1>5, <1>6, <1>7

\* What accepts a text does not end within a character.
LEMMA TailDue ==
  ASSUME NEW bytes \in Seq(Byte), ScalarDfa(bytes), NEW i, NEW j, NEW r, NEW q, NEW lo, NEW hi,
         j = i + 1, Counts(r, q), Range2(lo, hi), Waits(bytes, i, r, lo, hi)
  PROVE  bytes[j] \in lo .. hi /\ Awaits(bytes, j, q)
<1> DEFINE run == DfaRun(Start, bytes)
<1>1. run[Len(bytes)].ok /\ run[Len(bytes)].state.remaining = 0
  BY DEF ScalarDfa, Accepts, Complete
<1>2. i # Len(bytes)
  BY <1>1 DEF State, Counts, Waits
<1>3. j \in 0 .. Len(bytes) /\ i \in 0 .. Len(bytes) - 1
  BY <1>2 DEF Waits
<1>4. run[j].ok
  BY <1>1, <1>3, RefusedForEver
<1>5. Stands(bytes, i, j)
  BY <1>3 DEF Stands
<1> QED  BY <1>4, <1>5, TailTaken, Zenon

\* The same of a byte after the second.
LEMMA ContDue ==
  ASSUME NEW bytes \in Seq(Byte), ScalarDfa(bytes), NEW i, NEW j, NEW r, NEW q,
         j = i + 1, Counts(r, q), Awaits(bytes, i, r)
  PROVE  bytes[j] \in Cont /\ Awaits(bytes, j, q)
<1>1. PICK lo, hi : lo = 128 /\ hi = 191
  OBVIOUS
<1>2. Range2(lo, hi) /\ Waits(bytes, i, r, lo, hi) /\ Cont = lo .. hi
  BY <1>1, SMT DEF Range2, Awaits, Cont
<1> QED  BY <1>2, TailDue, Zenon

\* Where it is between two characters, but not at the end, a character begins.
LEMMA CharacterFound ==
  ASSUME NEW bytes \in Seq(Byte), ScalarDfa(bytes), NEW c \in 0 .. Len(bytes), c # Len(bytes),
         DfaRun(Start, bytes)[c].state.remaining = 0
  PROVE  \E n \in 1 .. 4 : /\ c + n \in 0 .. Len(bytes) /\ Character(bytes, c, n)
                          /\ DfaRun(Start, bytes)[c + n].state.remaining = 0
<1> DEFINE run == DfaRun(Start, bytes)
           a == bytes[c + 1]
<1>1. c \in 0 .. Len(bytes) - 1 /\ c \in Nat /\ a \in Byte /\ c + 1 \in 0 .. Len(bytes)
  OBVIOUS
<1>2. /\ c + 2 = (c + 1) + 1 /\ c + 3 = (c + 2) + 1 /\ c + 4 = (c + 3) + 1
      /\ Range2(SecondLo(a), SecondHi(a))
  BY <1>1, Follows
<1>3. run[c].ok /\ run[c + 1].ok
  <2>1. run[Len(bytes)].ok
    BY DEF ScalarDfa, Accepts, Complete
  <2> QED  BY <1>1, <2>1, RefusedForEver
<1>4. /\ a \in 0 .. 127 \/ a \in AnyLead
      /\ a \in 0 .. 127 => run[c + 1].state.remaining = 0
      /\ a \in AnyLead => run[c + 1].state = State(Follow(a), SecondLo(a), SecondHi(a))
  <2>1. c \in 0 .. Len(bytes) - 1 /\ run[c].ok /\ run[c].state.remaining = 0
    BY <1>1, <1>3
  <2>2. PICK j : j = c + 1
    OBVIOUS
  <2>3. /\ run[j].ok <=> bytes[j] \in 0 .. 127 \/ bytes[j] \in AnyLead
        /\ bytes[j] \in 0 .. 127 => run[j].state.remaining = 0
        /\ bytes[j] \in AnyLead =>
             run[j].state = State(Follow(bytes[j]), SecondLo(bytes[j]), SecondHi(bytes[j]))
    BY <2>1, <2>2, FirstTaken
  <2> QED  BY <1>3, <2>2, <2>3
<1>5. CASE a \in 0 .. 127
  <2>1. Character(bytes, c, 1)
    BY <1>1, <1>5, CharacterIs
  <2> QED  BY <1>1, <1>4, <1>5, <2>1
<1>6. CASE a \in Lead2
  <2>1. Awaits(bytes, c + 1, 1)
    BY <1>1, <1>3, <1>4, <1>6, Follows DEF AnyLead, Waits, Awaits
  <2>2. bytes[c + 2] \in Cont /\ Awaits(bytes, c + 2, 0)
    BY <1>1, <1>2, <2>1, ContDue, Countdown
  <2>3. Character(bytes, c, 2)
    BY <1>1, <1>6, <2>2, CharacterIs DEF Waits, Awaits
  <2> QED  BY <2>2, <2>3 DEF State, Waits, Awaits
<1>7. CASE a \in Lead3
  <2>1. Waits(bytes, c + 1, 2, SecondLo(a), SecondHi(a))
    BY <1>1, <1>3, <1>4, <1>7, Follows DEF AnyLead, Waits, Awaits
  <2>2. bytes[c + 2] \in SecondLo(a) .. SecondHi(a) /\ Awaits(bytes, c + 2, 1)
    BY <1>1, <1>2, <2>1, TailDue, Countdown, Zenon
  <2>3. bytes[c + 3] \in Cont /\ Awaits(bytes, c + 3, 0)
    BY <1>2, <2>2, ContDue, Countdown
  <2>4. Character(bytes, c, 3)
    BY <1>1, <1>7, <2>2, <2>3, CharacterIs DEF Waits, Awaits
  <2> QED  BY <2>3, <2>4 DEF State, Waits, Awaits
<1>8. CASE a \in Lead4
  <2>1. Waits(bytes, c + 1, 3, SecondLo(a), SecondHi(a))
    BY <1>1, <1>3, <1>4, <1>8, Follows DEF AnyLead, Waits, Awaits
  <2>2. bytes[c + 2] \in SecondLo(a) .. SecondHi(a) /\ Awaits(bytes, c + 2, 2)
    BY <1>1, <1>2, <2>1, TailDue, Countdown, Zenon
  <2>3. bytes[c + 3] \in Cont /\ Awaits(bytes, c + 3, 1)
    BY <1>2, <2>2, ContDue, Countdown
  <2>4. bytes[c + 4] \in Cont /\ Awaits(bytes, c + 4, 0)
    BY <1>2, <2>3, ContDue, Countdown
  <2>5. Character(bytes, c, 4)
    BY <1>1, <1>8, <2>2, <2>3, <2>4, CharacterIs DEF Waits, Awaits
  <2> QED  BY <2>4, <2>5 DEF State, Waits, Awaits
<1> QED  BY <1>4, <1>5, <1>6, <1>7, <1>8 DEF AnyLead

\* The scalar DFA accepts the well-formed texts.
LEMMA ScalarIsWellFormed ==
  ASSUME NEW bytes \in Seq(Byte)
  PROVE  ScalarDfa(bytes) <=> WellFormed(bytes)
<1> DEFINE run == DfaRun(Start, bytes)
           n == Len(bytes)
<1>1. n \in Nat /\ run[0].ok /\ run[0].state.remaining = 0
  <2>1. run[0] = Begun(Start)
    BY RunAt
  <2>2. Begun(Start).ok /\ Begun(Start).state.remaining = 0
    BY DEF Begun, Start, State
  <2> QED  BY <2>1, <2>2
<1>2. ASSUME ScalarDfa(bytes) PROVE WellFormed(bytes)
  <2> DEFINE cuts == {c \in 0 .. n : run[c].state.remaining = 0}
  <2>1. {0, n} \subseteq cuts
    BY <1>1, <1>2 DEF ScalarDfa, Accepts, Complete
  <2>2. ASSUME NEW c \in cuts \ {n}
        PROVE  \E k \in 1 .. 4 : c + k \in cuts /\ Character(bytes, c, k)
    BY <1>2, CharacterFound
  <2> QED  BY <2>1, <2>2 DEF WellFormed
<1>3. ASSUME WellFormed(bytes) PROVE ScalarDfa(bytes)
  <2>1. PICK cuts \in SUBSET (0 .. n) :
          /\ {0, n} \subseteq cuts
          /\ \A c \in cuts \ {n} : \E k \in 1 .. 4 : c + k \in cuts /\ Character(bytes, c, k)
    BY <1>3 DEF WellFormed
  <2> DEFINE Left == {d \in 0 .. n : n - d \in cuts /\ run[n - d].ok /\ run[n - d].state.remaining = 0}
  <2>2. Left \subseteq Nat /\ n \in Left
    BY <1>1, <2>1
  <2>3. PICK d \in Left : \A e \in Left : d <= e
    <3> HIDE DEF Left
    <3> QED  BY <2>2, LeastNat
  <2>4. CASE d = 0
    BY <1>1, <2>4 DEF ScalarDfa, Accepts, Complete
  <2>5. CASE d # 0
    <3>1. n - d \in cuts \ {n} /\ n - d \in Nat
      BY <1>1, <2>5
    <3>2. PICK k \in 1 .. 4 : (n - d) + k \in cuts /\ Character(bytes, n - d, k)
      BY <2>1, <3>1
    <3>3. (n - d) + k <= n
      BY <3>2
    <3>4. run[(n - d) + k].ok /\ run[(n - d) + k].state.remaining = 0
      BY <3>1, <3>2, <3>3, CharacterTaken
    <3>5. (n - d) + k = n - (d - k) /\ d - k \in 0 .. n
      BY <1>1, <3>1, <3>3
    <3>6. d - k \in Left
      BY <3>2, <3>4, <3>5
    <3> QED  BY <2>3, <3>6
  <2> QED  BY <2>4, <2>5
<1> QED  BY <1>2, <1>3

-----------------------------------------------------------------------------
(* The theorems.                                                           *)

\* Whatever is drawn is a JS number, and bytes.
DrawnType == number \in JsNumber /\ text \in Seq(Byte)

\* Every step keeps that.
LEMMA TypeKept ==
  /\ PrimitivesInit => DrawnType
  /\ DrawnType /\ [PrimitivesNext]_<<number, text>> => DrawnType'
<1>1. PrimitivesInit => DrawnType
  BY DEF PrimitivesInit, DrawnType, JsNumber
<1>2. ASSUME DrawnType, DrawNumber PROVE DrawnType'
  BY <1>2, DrawAssumption DEF DrawNumber, DrawnType, JsNumber
<1>3. ASSUME DrawnType, DrawByte PROVE DrawnType'
  <2>1. PICK b \in Alphabet : text' = Append(text, b)
    BY <1>3 DEF DrawByte
  <2>2. b \in Byte
    BY <2>1, DrawAssumption DEF Byte
  <2>3. text' \in Seq(Byte)
    BY <1>3, <2>1, <2>2 DEF DrawnType
  <2> QED  BY <1>3, <2>3 DEF DrawByte, DrawnType
<1>4. ASSUME DrawnType, UNCHANGED <<number, text>> PROVE DrawnType'
  BY <1>4 DEF DrawnType
<1> QED  BY <1>1, <1>2, <1>3, <1>4 DEF PrimitivesNext

\* For every width and every JS number the conversions of types/num.rs are
\* exact: an accepted one keeps the number, a clamped or wrapped one lands in
\* range and on the right residue, and the checked way back never rounds.
THEOREM ConversionsExact == PrimitivesSpec => []NumbersExact
<1>1. ASSUME number \in JsNumber
      PROVE  NumbersExact
  <2>1. number.halves \in Int
    BY <1>1, JsNumberIs
  <2>2. \A ty \in Ints : InRange(ty, Saturating(ty, number)) /\ StrictExact(ty, number)
    BY <1>1, SaturatingInRange, StrictIsExact
  <2>3. \A ty \in {"i64", "u64"} : WideExact(ty, number)
    BY <1>1, WideIsExact
  <2>4. \A ty \in {"i32", "u32"} : WrapsExactly(ty, number)
    BY <1>1, Wraps
  <2> QED  BY <1>1, <2>1, <2>2, <2>3, <2>4, SinglesAreExact, WideReturnsAreExact DEF NumbersExact
<1>2. DrawnType => NumbersExact
  BY <1>1 DEF DrawnType
<1> QED  BY <1>2, TypeKept, PTL DEF PrimitivesSpec

\* For every block size of at least three bytes and every sequence of bytes,
\* the block validator of types/utf8.rs and its scalar DFA accept exactly the
\* sequences that can be cut into shortest encodings of Unicode scalar values.
THEOREM ValidatorIsUtf8 ==
  ASSUME NEW bytes \in Seq(Byte)
  PROVE  (Validate(bytes) <=> WellFormed(bytes)) /\ (ScalarDfa(bytes) <=> WellFormed(bytes))
BY PathsAgree, ScalarIsWellFormed

\* So no text is refused that is one and none is taken that is not, by either
\* path or by bytes_to_string, wherever the blocks end: types/utf8.rs.
THEOREM TextsAreChecked == PrimitivesSpec => []TextChecked
<1>1. ASSUME text \in Seq(Byte)
      PROVE  TextChecked
  <2>1. (Validate(text) <=> WellFormed(text)) /\ (ScalarDfa(text) <=> WellFormed(text))
    BY <1>1, ValidatorIsUtf8
  <2>2. BytesToString(text) = IF WellFormed(text) THEN <<text>> ELSE <<>>
    BY <2>1, Zenon DEF BytesToString
  <2> QED  BY <2>1, <2>2, Zenon DEF TextChecked
<1>2. DrawnType => TextChecked
  BY <1>1 DEF DrawnType
<1> QED  BY <1>2, TypeKept, PTL DEF PrimitivesSpec
=============================================================================
