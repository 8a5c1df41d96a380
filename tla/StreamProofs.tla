---------------------------- MODULE StreamProofs ----------------------------
(***************************************************************************)
(* Theorems about Stream, for every number of producers and items, every   *)
(* capacity of the buffer and every chunk budget.                          *)
(*                                                                         *)
(* The order of the items rests on three facts: an item is pushed under a  *)
(* number its producer did not use before (Numbered); the wrapper has no   *)
(* chunk while it pulls, and a stream without a push buffer no queue, so   *)
(* that a chunk continues what was received (Phases); and what was taken   *)
(* out of the stream is a subsequence of what was pushed, the whole of it  *)
(* while nothing was dropped, failed or refused (Ordered).                 *)
(***************************************************************************)
EXTENDS Stream, SequenceTheorems, TLAPS

\* An item has the next number of who made it.
Numbered ==
    /\ \A p \in Producers \cup {ITERATOR} : sent[p] <= Len(produced)
    /\ \A n \in 1 .. Len(produced) : produced[n][2] <= sent[produced[n][1]]
    /\ \A m, n \in 1 .. Len(produced) : produced[m] = produced[n] => m = n

Phases ==
    /\ js # "idle" => chunk = <<>>
    /\ state # "buffer" => queue = <<>>
    /\ dropped => state \in {"done", "errored"}
    /\ seenError /\ state = "buffer" => failed /\ queue = <<>> /\ chunk = <<>>

Ordered ==
    /\ Subsequence(Given, produced)
    /\ ~lost => IsPrefix(Given, produced)
    /\ ~lost /\ ~dropped /\ state # "errored" => Given = produced

SInv == TypeOK /\ Numbered /\ Phases /\ Ordered /\ NoProducerSleepsBesideRoom

-----------------------------------------------------------------------------
(* Sequences: what is taken from, added to and prepended to a sequence *)

\* A subsequence of what was pushed stays one when both grow by the same items.
LEMMA BothGrow ==
    ASSUME NEW S, NEW s \in Seq(S), NEW t \in Seq(S), NEW u \in Seq(S), Subsequence(s, t)
    PROVE  Subsequence(s \o u, t \o u)
<1>1. /\ Len(s) \in Nat /\ Len(t) \in Nat /\ Len(u) \in Nat
      /\ DOMAIN s = 1 .. Len(s) /\ DOMAIN t = 1 .. Len(t)
  BY LenProperties
<1>2. /\ s \o u \in Seq(S) /\ t \o u \in Seq(S)
      /\ Len(s \o u) = Len(s) + Len(u) /\ Len(t \o u) = Len(t) + Len(u)
      /\ \A i \in 1 .. Len(s) + Len(u) : (s \o u)[i] = IF i <= Len(s) THEN s[i] ELSE u[i - Len(s)]
      /\ \A i \in 1 .. Len(t) + Len(u) : (t \o u)[i] = IF i <= Len(t) THEN t[i] ELSE u[i - Len(t)]
  BY ConcatProperties
<1>3. DOMAIN (s \o u) = 1 .. Len(s) + Len(u) /\ DOMAIN (t \o u) = 1 .. Len(t) + Len(u)
  BY <1>2, LenProperties
<1>4. PICK f \in [1 .. Len(s) -> 1 .. Len(t)] :
         /\ \A m, n \in 1 .. Len(s) : m < n => f[m] < f[n]
         /\ \A n \in 1 .. Len(s) : s[n] = t[f[n]]
  BY <1>1 DEF Subsequence
<1> DEFINE g == [n \in 1 .. Len(s) + Len(u) |-> IF n <= Len(s) THEN f[n] ELSE n - Len(s) + Len(t)]
<1>5. /\ \A n \in 1 .. Len(s) : g[n] = f[n] /\ f[n] \in 1 .. Len(t)
      /\ \A n \in 1 .. Len(s) + Len(u) :
           n > Len(s) => /\ g[n] = n - Len(s) + Len(t) /\ g[n] > Len(t)
                         /\ g[n] <= Len(t) + Len(u) /\ g[n] \in Int
  <2>1. ASSUME NEW n \in 1 .. Len(s) PROVE g[n] = f[n] /\ f[n] \in 1 .. Len(t)
    <3>1. n \in 1 .. Len(s) + Len(u) /\ n <= Len(s)
      BY <1>1
    <3> QED  BY <3>1
  <2>2. ASSUME NEW n \in 1 .. Len(s) + Len(u), n > Len(s)
        PROVE  /\ g[n] = n - Len(s) + Len(t) /\ g[n] > Len(t)
               /\ g[n] <= Len(t) + Len(u) /\ g[n] \in Int
    <3>1. ~(n <= Len(s)) /\ n \in Int
      BY <1>1, <2>2
    <3>2. g[n] = n - Len(s) + Len(t)
      BY <3>1
    <3> HIDE DEF g
    <3> QED  BY <1>1, <2>2, <3>1, <3>2
  <2> QED  BY <2>1, <2>2
<1>6. g \in [1 .. Len(s) + Len(u) -> 1 .. Len(t) + Len(u)]
  BY <1>1, <1>5
<1> HIDE DEF g
<1>7. \A m, n \in 1 .. Len(s) + Len(u) : m < n => g[m] < g[n]
  <2> SUFFICES ASSUME NEW m \in 1 .. Len(s) + Len(u), NEW n \in 1 .. Len(s) + Len(u), m < n
               PROVE  g[m] < g[n]
    OBVIOUS
  <2>1. CASE n <= Len(s)
    <3>1. m \in 1 .. Len(s) /\ n \in 1 .. Len(s)
      BY <1>1, <2>1
    <3>2. g[m] = f[m] /\ g[n] = f[n]
      BY <1>5, <3>1
    <3>3. m < n => f[m] < f[n]
      BY <1>4, <3>1
    <3> QED  BY <3>2, <3>3
  <2>2. CASE n > Len(s)
    <3>1. g[n] = n - Len(s) + Len(t) /\ g[n] > Len(t)
      BY <1>1, <1>5, <2>2
    <3>2. CASE m <= Len(s)
      <4>1. g[m] \in 1 .. Len(t)
        BY <1>1, <1>5, <3>2
      <4> QED  BY <1>1, <3>1, <4>1
    <3>3. CASE m > Len(s)
      <4>1. g[m] = m - Len(s) + Len(t)
        BY <1>1, <1>5, <3>3
      <4> QED  BY <1>1, <3>1, <4>1
    <3>4. m <= Len(s) \/ m > Len(s)
      BY <1>1
    <3> QED  BY <3>2, <3>3, <3>4
  <2>3. n <= Len(s) \/ n > Len(s)
    BY <1>1
  <2> QED  BY <2>1, <2>2, <2>3
<1>8. \A n \in 1 .. Len(s) + Len(u) : (s \o u)[n] = (t \o u)[g[n]]
  <2> SUFFICES ASSUME NEW n \in 1 .. Len(s) + Len(u) PROVE (s \o u)[n] = (t \o u)[g[n]]
    OBVIOUS
  <2>1. CASE n <= Len(s)
    BY <1>1, <1>2, <1>4, <1>5, <2>1
  <2>2. CASE n > Len(s)
    <3>1. g[n] = n - Len(s) + Len(t) /\ g[n] \in 1 .. Len(t) + Len(u) /\ ~(g[n] <= Len(t))
      BY <1>1, <1>5, <2>2
    <3>2. g[n] - Len(t) = n - Len(s)
      BY <1>1, <3>1
    <3>3. (s \o u)[n] = u[n - Len(s)]
      BY <1>1, <1>2, <2>2
    <3>4. (t \o u)[g[n]] = u[g[n] - Len(t)]
      BY <1>2, <3>1
    <3> QED  BY <3>2, <3>3, <3>4
  <2>3. n <= Len(s) \/ n > Len(s)
    BY <1>1
  <2> QED  BY <2>1, <2>2, <2>3
<1> QED  BY <1>3, <1>6, <1>7, <1>8 DEF Subsequence

\* More is pushed than what is taken.
LEMMA PushedGrows ==
    ASSUME NEW S, NEW s \in Seq(S), NEW t \in Seq(S), NEW u \in Seq(S), Subsequence(s, t)
    PROVE  Subsequence(s, t \o u)
<1>1. /\ Len(s) \in Nat /\ Len(t) \in Nat /\ Len(u) \in Nat
      /\ DOMAIN s = 1 .. Len(s) /\ DOMAIN t = 1 .. Len(t)
  BY LenProperties
<1>2. /\ t \o u \in Seq(S) /\ Len(t \o u) = Len(t) + Len(u)
      /\ \A i \in 1 .. Len(t) + Len(u) : (t \o u)[i] = IF i <= Len(t) THEN t[i] ELSE u[i - Len(t)]
  BY ConcatProperties
<1>3. DOMAIN (t \o u) = 1 .. Len(t) + Len(u)
  BY <1>2, LenProperties
<1>4. PICK f \in [1 .. Len(s) -> 1 .. Len(t)] :
         /\ \A m, n \in 1 .. Len(s) : m < n => f[m] < f[n]
         /\ \A n \in 1 .. Len(s) : s[n] = t[f[n]]
  BY <1>1 DEF Subsequence
<1>5. f \in [1 .. Len(s) -> 1 .. Len(t) + Len(u)] /\ \A n \in 1 .. Len(s) : s[n] = (t \o u)[f[n]]
  <2>1. \A i \in 1 .. Len(t) : i \in 1 .. Len(t) + Len(u) /\ (t \o u)[i] = t[i]
    BY <1>1, <1>2
  <2>2. \A n \in 1 .. Len(s) : f[n] \in 1 .. Len(t) + Len(u) /\ s[n] = (t \o u)[f[n]]
    BY <1>4, <2>1
  <2> QED  BY <2>2
<1> QED  BY <1>1, <1>3, <1>4, <1>5 DEF Subsequence

\* A part of a subsequence is one.
LEMMA PartOf ==
    ASSUME NEW S, NEW r \in Seq(S), NEW s \in Seq(S), NEW t \in Seq(S), Subsequence(s, t),
           NEW k \in Nat, Len(r) + k <= Len(s), \A n \in 1 .. Len(r) : r[n] = s[n + k]
    PROVE  Subsequence(r, t)
<1>1. /\ Len(r) \in Nat /\ Len(s) \in Nat /\ Len(t) \in Nat
      /\ DOMAIN r = 1 .. Len(r) /\ DOMAIN s = 1 .. Len(s) /\ DOMAIN t = 1 .. Len(t)
  BY LenProperties
<1>2. PICK f \in [1 .. Len(s) -> 1 .. Len(t)] :
         /\ \A m, n \in 1 .. Len(s) : m < n => f[m] < f[n]
         /\ \A n \in 1 .. Len(s) : s[n] = t[f[n]]
  BY <1>1 DEF Subsequence
<1> DEFINE g == [n \in 1 .. Len(r) |-> f[n + k]]
<1>3. \A n \in 1 .. Len(r) : n + k \in 1 .. Len(s) /\ g[n] = f[n + k]
  BY <1>1
<1>4. g \in [1 .. Len(r) -> 1 .. Len(t)]
  BY <1>3
<1> HIDE DEF g
<1>5. \A m, n \in 1 .. Len(r) : m < n => g[m] < g[n]
  <2> SUFFICES ASSUME NEW m \in 1 .. Len(r), NEW n \in 1 .. Len(r), m < n PROVE f[m + k] < f[n + k]
    BY <1>3
  <2>1. m + k < n + k /\ m + k \in 1 .. Len(s) /\ n + k \in 1 .. Len(s)
    BY <1>3
  <2> QED  BY <1>2, <2>1
<1>6. \A n \in 1 .. Len(r) : r[n] = t[g[n]]
  BY <1>2, <1>3
<1> QED  BY <1>1, <1>4, <1>5, <1>6 DEF Subsequence

\* Nothing comes twice in a subsequence of what has nothing twice.
LEMMA OnceEach ==
    ASSUME NEW S, NEW s \in Seq(S), NEW t \in Seq(S), Subsequence(s, t),
           \A m, n \in 1 .. Len(t) : t[m] = t[n] => m = n
    PROVE  IsInjective(s)
<1>1. /\ Len(s) \in Nat /\ Len(t) \in Nat /\ DOMAIN s = 1 .. Len(s) /\ DOMAIN t = 1 .. Len(t)
  BY LenProperties
<1>2. PICK f \in [1 .. Len(s) -> 1 .. Len(t)] :
         /\ \A m, n \in 1 .. Len(s) : m < n => f[m] < f[n]
         /\ \A n \in 1 .. Len(s) : s[n] = t[f[n]]
  BY <1>1 DEF Subsequence
<1>3. ASSUME NEW m \in 1 .. Len(s), NEW n \in 1 .. Len(s), s[m] = s[n] PROVE m = n
  <2>1. f[m] \in 1 .. Len(t) /\ f[n] \in 1 .. Len(t) /\ t[f[m]] = t[f[n]]
    BY <1>2, <1>3
  <2>2. f[m] = f[n] /\ f[m] \in Int
    BY <2>1
  <2>3. m < n \/ n < m \/ m = n
    BY <1>1
  <2>4. (m < n => f[m] < f[n]) /\ (n < m => f[n] < f[m])
    BY <1>2
  <2> QED  BY <2>2, <2>3, <2>4
<1> QED  BY <1>1, <1>3 DEF IsInjective

\* Prefixes, element by element.
LEMMA Prefix ==
    ASSUME NEW S, NEW s \in Seq(S), NEW t \in Seq(S)
    PROVE  IsPrefix(s, t) <=> Len(s) <= Len(t) /\ \A n \in 1 .. Len(s) : s[n] = t[n]
<1>1. /\ Len(s) \in Nat /\ Len(t) \in Nat
      /\ \A n \in 1 .. Len(s) : s[n] \in S /\ \A m \in 1 .. Len(t) : t[m] \in S
  BY LenProperties
<1>2. SubSeq(s, 1, Len(s)) = s
  BY SubSeqFull
<1>3. ASSUME Len(s) <= Len(t)
      PROVE  /\ SubSeq(t, 1, Len(s)) \in Seq(S) /\ Len(SubSeq(t, 1, Len(s))) = Len(s)
             /\ \A n \in 1 .. Len(s) : SubSeq(t, 1, Len(s))[n] = t[n]
  <2>1. \A i \in 1 .. Len(s) : t[i] \in S
    BY <1>1, <1>3, ElementOfSeq
  <2>2. /\ SubSeq(t, 1, Len(s)) \in Seq(S)
        /\ Len(SubSeq(t, 1, Len(s))) = IF 1 <= Len(s) THEN Len(s) - 1 + 1 ELSE 0
        /\ \A i \in 1 .. Len(s) - 1 + 1 : SubSeq(t, 1, Len(s))[i] = t[1 + i - 1]
    BY <1>1, <2>1, SubSeqProperties
  <2> QED  BY <1>1, <2>2
<1>4. ASSUME Len(s) <= Len(t), \A n \in 1 .. Len(s) : s[n] = t[n]
      PROVE  s = SubSeq(t, 1, Len(s))
  BY <1>3, <1>4, SeqEqual
<1> QED  BY <1>2, <1>3, <1>4 DEF IsPrefix

LEMMA PrefixOfItself == ASSUME NEW S, NEW s \in Seq(S) PROVE IsPrefix(s, s)
  BY Prefix, LenProperties

LEMMA StartOfConcat ==
    ASSUME NEW S, NEW r \in Seq(S), NEW c \in Seq(S), NEW q \in Seq(S)
    PROVE  /\ Len(r) <= Len(r \o c \o q)
           /\ \A i \in 1 .. Len(r) : r[i] = (r \o c \o q)[i]
  OBVIOUS

LEMMA PrefixOfConcat ==
    ASSUME NEW S, NEW s \in Seq(S), NEW u \in Seq(S)
    PROVE  IsPrefix(s, s \o u)
<1>1. /\ s \o u \in Seq(S) /\ Len(s) <= Len(s \o u)
      /\ \A i \in 1 .. Len(s) : s[i] = (s \o u)[i]
  OBVIOUS
<1> QED  BY <1>1, Prefix

LEMMA StartOf ==
    ASSUME NEW S, NEW r \in Seq(S), NEW s \in Seq(S), NEW t \in Seq(S), Subsequence(s, t),
           Len(r) <= Len(s), \A i \in 1 .. Len(r) : r[i] = s[i]
    PROVE  Subsequence(r, t)
<1>1. Len(r) \in Nat /\ Len(s) \in Nat
  BY LenProperties
<1>2. Len(r) + 0 <= Len(s) /\ \A n \in 1 .. Len(r) : r[n] = s[n + 0]
  BY <1>1
<1> QED  BY <1>2, PartOf

LEMMA EmptySubsequence == Subsequence(<<>>, <<>>)
<1>1. DOMAIN <<>> = {}
  OBVIOUS
<1>2. [n \in {} |-> n] \in [{} -> {}]
  OBVIOUS
<1> QED  BY <1>1, <1>2 DEF Subsequence

LEMMA LastGrows ==
    ASSUME NEW S, NEW a \in Seq(S), NEW q \in Seq(S), NEW u \in Seq(S)
    PROVE  (a \o q) \o u = a \o (q \o u)
  OBVIOUS

\* The first item of a sequence moves from one to the other.
LEMMA HeadMoves ==
    ASSUME NEW S, NEW r \in Seq(S), NEW c \in Seq(S), c # <<>>
    PROVE  /\ Append(r, Head(c)) \in Seq(S) /\ Tail(c) \in Seq(S)
           /\ Append(r, Head(c)) \o Tail(c) = r \o c
<1>1. /\ Head(c) \in S /\ Tail(c) \in Seq(S) /\ Len(Tail(c)) = Len(c) - 1 /\ Head(c) = c[1]
      /\ \A i \in 1 .. Len(Tail(c)) : Tail(c)[i] = c[i + 1]
      /\ Len(c) \in Nat \ {0} /\ Len(r) \in Nat
  BY HeadTailProperties, LenProperties, EmptySeq
<1>2. /\ Append(r, Head(c)) \in Seq(S) /\ Len(Append(r, Head(c))) = Len(r) + 1
      /\ \A i \in 1 .. Len(r) : Append(r, Head(c))[i] = r[i]
      /\ Append(r, Head(c))[Len(r) + 1] = c[1]
  BY <1>1, AppendProperties
<1> DEFINE a == Append(r, Head(c))
           b == Tail(c)
<1> HIDE DEF a, b
<1>3. /\ a \o b \in Seq(S) /\ Len(a \o b) = Len(a) + Len(b)
      /\ \A i \in 1 .. Len(a) + Len(b) : (a \o b)[i] = IF i <= Len(a) THEN a[i] ELSE b[i - Len(a)]
  BY <1>1, <1>2, ConcatProperties DEF a, b
<1>4. /\ r \o c \in Seq(S) /\ Len(r \o c) = Len(r) + Len(c)
      /\ \A i \in 1 .. Len(r) + Len(c) : (r \o c)[i] = IF i <= Len(r) THEN r[i] ELSE c[i - Len(r)]
  BY ConcatProperties
<1>5. /\ Len(a) = Len(r) + 1 /\ Len(b) = Len(c) - 1
      /\ \A i \in 1 .. Len(r) : a[i] = r[i]
      /\ a[Len(r) + 1] = c[1]
      /\ \A i \in 1 .. Len(c) - 1 : b[i] = c[i + 1]
  BY <1>1, <1>2 DEF a, b
<1>6. \A i \in 1 .. Len(r) + Len(c) : (a \o b)[i] = (r \o c)[i]
  <2> SUFFICES ASSUME NEW i \in 1 .. Len(r) + Len(c) PROVE (a \o b)[i] = (r \o c)[i]
    OBVIOUS
  <2>1. CASE i <= Len(r)
    BY <1>1, <1>3, <1>4, <1>5, <2>1
  <2>2. CASE i = Len(r) + 1
    BY <1>1, <1>3, <1>4, <1>5, <2>2
  <2>3. CASE i > Len(r) + 1
    <3>1. i - Len(a) \in 1 .. Len(c) - 1 /\ (i - Len(a)) + 1 = i - Len(r)
      BY <1>1, <1>5, <2>3
    <3>2. b[i - Len(a)] = c[i - Len(r)]
      BY <1>5, <3>1
    <3>3. (a \o b)[i] = b[i - Len(a)] /\ (r \o c)[i] = c[i - Len(r)]
      BY <1>1, <1>3, <1>4, <1>5, <2>3
    <3> QED  BY <3>2, <3>3
  <2>4. i <= Len(r) \/ i = Len(r) + 1 \/ i > Len(r) + 1
    BY <1>1
  <2> QED  BY <2>1, <2>2, <2>3, <2>4
<1>7. a \o b = r \o c
  <2>1. Len(a \o b) = Len(r \o c) /\ Len(a \o b) = Len(r) + Len(c)
    BY <1>1, <1>3, <1>4, <1>5
  <2>2. \A i \in 1 .. Len(a \o b) : (a \o b)[i] = (r \o c)[i]
    BY <1>6, <2>1
  <2>3. a \o b \in Seq(S) /\ r \o c \in Seq(S)
    BY <1>3, <1>4
  <2> QED  BY <2>1, <2>2, <2>3, SeqEqual
<1> QED  BY <1>1, <1>2, <1>7 DEF a, b

-----------------------------------------------------------------------------
(* Steps that take no item out of the stream *)

LEMMA Typed ==
    ASSUME TypeOK
    PROVE  /\ received \in Seq(Items) /\ chunk \in Seq(Items) /\ queue \in Seq(Items)
           /\ produced \in Seq(Items) /\ received \o chunk \in Seq(Items) /\ Given \in Seq(Items)
<1>1. received \in Seq(Items) /\ chunk \in Seq(Items) /\ queue \in Seq(Items) /\ produced \in Seq(Items)
  BY DEF TypeOK
<1>2. received \o chunk \in Seq(Items)
  BY <1>1, ConcatProperties
<1>3. Given \in Seq(Items)
  BY <1>1, <1>2, ConcatProperties DEF Given
<1> QED  BY <1>1, <1>2, <1>3

\* What was pushed and what was taken stay as they are.
LEMMA KeptStep ==
    ASSUME SInv, TypeOK', Phases', NoProducerSleepsBesideRoom', Given' = Given,
           UNCHANGED <<sent, produced, lost, dropped>>, state = "errored" => state' = "errored"
    PROVE  SInv'
<1>1. Numbered'
  BY DEF SInv, Numbered
<1>2. Ordered'
  BY DEF SInv, Ordered
<1> QED  BY <1>1, <1>2 DEF SInv

LEMMA QuietStep ==
    ASSUME SInv, TypeOK', NoProducerSleepsBesideRoom', failed => failed',
           UNCHANGED <<state, queue, sent, chunk, produced, received, lost, seenError, dropped>>,
           js' # "idle" => js # "idle" \/ chunk = <<>>
    PROVE  SInv'
<1>1. Phases'
  BY DEF SInv, Phases
<1>2. Given' = Given
  BY DEF Given
<1> QED  BY <1>1, <1>2, KeptStep

\* Nobody is parked once the producers were woken.
LEMMA NobodyParked ==
    ASSUME SInv, WakeProducers
    PROVE  /\ NoProducerSleepsBesideRoom' /\ producers' = {}
           /\ pc' \in [Producers -> {"run", "parking", "parked", "lost", "ended"}]
<1>1. pc \in [Producers -> {"run", "parking", "parked", "lost", "ended"}]
  BY DEF SInv, TypeOK
<1>2. /\ pc' \in [Producers -> {"run", "parking", "parked", "lost", "ended"}]
      /\ \A p \in Producers : pc'[p] \notin {"parking", "parked"}
  <2>1. Woken(producers, {})
    BY DEF WakeProducers
  <2>2. PICK unheard \in SUBSET {p \in producers : pc[p] = "parking"} :
            pc' = [p \in Producers |->
                     IF p \in {} THEN "ended" ELSE IF p \in unheard THEN "lost"
                     ELSE IF p \in producers /\ pc[p] \in {"parking", "parked"} THEN "run"
                     ELSE pc[p]]
    BY <2>1 DEF Woken
  <2>3. ASSUME NEW p \in Producers PROVE pc[p] \in {"parking", "parked"} => p \in producers
    BY DEF SInv, NoProducerSleepsBesideRoom
  <2> QED  BY <1>1, <2>2, <2>3
<1> QED  BY <1>1, <1>2 DEF NoProducerSleepsBesideRoom, WakeProducers

\* The list of parked producers and the room stay as they are.
LEMMA ParkedKept ==
    ASSUME SInv, UNCHANGED <<state, queue, completed, failed, producers>>,
           \A p \in Producers :
               pc'[p] \in {"parking", "parked"} => pc[p] \in {"parking", "parked"}
    PROVE  NoProducerSleepsBesideRoom'
  BY DEF SInv, NoProducerSleepsBesideRoom, Open

LEMMA Fired == ASSUME TypeOK, FireWake PROVE jobs' \in Seq({UNBOUND, JS})
<1>1. jobs \in Seq({UNBOUND, JS}) /\ wakeThread \in {UNBOUND, JS}
  BY DEF TypeOK
<1>2. Append(jobs, wakeThread) \in Seq({UNBOUND, JS})
  BY <1>1, AppendProperties
<1> QED  BY <1>1, <1>2 DEF FireWake

LEMMA ProducerStep ==
    ASSUME SInv, NEW p \in Producers,
           PushRefused(p) \/ PushPending(p) \/ ParkTask(p) \/ PolledAgain(p) \/ Ends(p)
    PROVE  SInv'
<1> USE DEF entry, registered, wrapper, history
<1>1. pc \in [Producers -> {"run", "parking", "parked", "lost", "ended"}] /\ producers \subseteq Producers
  BY DEF SInv, TypeOK
<1>2. CASE PushRefused(p) \/ ParkTask(p) \/ PolledAgain(p)
  <2>1. /\ pc' \in [Producers -> {"run", "parking", "parked", "lost", "ended"}]
        /\ \A u \in Producers :
               pc'[u] \in {"parking", "parked"} => pc[u] \in {"parking", "parked"}
    BY <1>1, <1>2 DEF PushRefused, ParkTask, PolledAgain
  <2>2. UNCHANGED <<entry, registered, jobs, closed, sent, wrapper, history>>
    BY <1>2 DEF PushRefused, ParkTask, PolledAgain
  <2>3. TypeOK'
    BY <2>1, <2>2 DEF SInv, TypeOK
  <2>4. NoProducerSleepsBesideRoom'
    BY <2>1, <2>2, ParkedKept
  <2> QED  BY <2>2, <2>3, <2>4, QuietStep
<1>3. CASE PushPending(p)
  <2>1. /\ Open /\ Len(queue) >= PUSH_CAPACITY /\ producers' = producers \cup {p}
        /\ pc' = [pc EXCEPT ![p] = "parking"]
        /\ UNCHANGED <<state, queue, completed, failed, registered, jobs, closed, sent, wrapper, history>>
    BY <1>3 DEF PushPending
  <2>2. TypeOK'
    BY <1>1, <2>1 DEF SInv, TypeOK
  <2>3. Len(queue) = PUSH_CAPACITY
    BY <2>1, StreamAssumption, LenProperties, Typed DEF SInv, TypeOK
  <2>4. NoProducerSleepsBesideRoom'
    BY <1>1, <2>1, <2>3 DEF SInv, NoProducerSleepsBesideRoom, Open
  <2> QED  BY <2>1, <2>2, <2>4, QuietStep
<1>4. CASE Ends(p)
  <2>1. completed' \in BOOLEAN /\ failed' \in BOOLEAN /\ (failed => failed')
    <3>1. completed \in BOOLEAN /\ failed \in BOOLEAN
      BY DEF SInv, TypeOK
    <3>2. (completed' = TRUE /\ failed' = failed) \/ (failed' = TRUE /\ completed' = completed)
      BY <1>4 DEF Ends
    <3> QED  BY <3>1, <3>2
  <2>2. /\ producers' = {} /\ FireWake /\ Woken(producers, {p})
        /\ UNCHANGED <<state, queue, registered, closed, sent, wrapper, history>>
    BY <1>4 DEF Ends
  <2>3. /\ pc' \in [Producers -> {"run", "parking", "parked", "lost", "ended"}]
        /\ \A q \in Producers : pc'[q] \notin {"parking", "parked"}
    <3>1. PICK unheard \in SUBSET {q \in producers : pc[q] = "parking"} :
            pc' = [q \in Producers |->
                     IF q \in {p} THEN "ended" ELSE IF q \in unheard THEN "lost"
                     ELSE IF q \in producers /\ pc[q] \in {"parking", "parked"} THEN "run"
                     ELSE pc[q]]
      BY <2>2 DEF Woken
    <3>2. ASSUME NEW q \in Producers PROVE pc[q] \in {"parking", "parked"} => q \in producers
      BY DEF SInv, NoProducerSleepsBesideRoom
    <3> QED  BY <1>1, <3>1, <3>2
  <2>4. jobs' \in Seq({UNBOUND, JS})
    BY <2>2, Fired DEF SInv
  <2>5. TypeOK'
    BY <2>1, <2>2, <2>3, <2>4 DEF SInv, TypeOK
  <2>6. NoProducerSleepsBesideRoom'
    BY <2>3 DEF NoProducerSleepsBesideRoom
  <2> QED  BY <2>1, <2>2, <2>5, <2>6, QuietStep
<1> QED  BY <1>2, <1>3, <1>4

\* The wrapper is created, waits, and the loop closes.
LEMMA WrapperStep ==
    ASSUME SInv,
           \/ WrapWithoutWake \/ SetWakePtr \/ SetWakeThread \/ NextPulls \/ RunWake \/ CloseLoop
           \/ \E n \in Timers : TimerFires(n)
    PROVE  SInv'
<1> USE DEF entry, registered, wrapper, history
<1>1. /\ UNCHANGED <<entry, pc, sent, chunk, done, max, produced, received, lost, seenError, dropped>>
      /\ js' # "idle" => js # "idle" \/ chunk = <<>>
  BY DEF WrapWithoutWake, SetWakePtr, SetWakeThread, NextPulls, RunWake, CloseLoop, TimerFires, Resume
<1>2. NoProducerSleepsBesideRoom'
  BY <1>1, ParkedKept
<1>3. /\ js' \in {"new", "set_thread", "idle", "pull", "wait", "collected"}
      /\ waitTimer' \in Timers \cup {NONE} /\ notify' \in Timers \cup {NONE} /\ timers' \subseteq Timers
      /\ trampoline' \in {"none", "open", "closed"} /\ closed' \in BOOLEAN
      /\ wake' \in BOOLEAN /\ wakeThread' \in {UNBOUND, JS}
  <2>1. CASE RunWake \/ \E n \in Timers : TimerFires(n)
    BY <2>1 DEF RunWake, TimerFires, Resume, SInv, TypeOK
  <2>2. CASE WrapWithoutWake \/ SetWakePtr \/ SetWakeThread \/ NextPulls \/ CloseLoop
    BY <2>2 DEF WrapWithoutWake, SetWakePtr, SetWakeThread, NextPulls, CloseLoop, SInv, TypeOK
  <2> QED  BY <2>1, <2>2
<1>4. jobs' \in Seq({UNBOUND, JS})
  <2>1. jobs \in Seq({UNBOUND, JS})
    BY DEF SInv, TypeOK
  <2>2. CASE RunWake
    BY <2>1, <2>2, HeadTailProperties DEF RunWake
  <2>3. CASE jobs' = jobs
    BY <2>1, <2>3
  <2> QED  BY <2>2, <2>3 DEF WrapWithoutWake, SetWakePtr, SetWakeThread, NextPulls, CloseLoop, TimerFires
<1>5. TypeOK'
  BY <1>1, <1>3, <1>4 DEF SInv, TypeOK
<1> QED  BY <1>1, <1>2, <1>5, QuietStep

\* A pull that ends with no item: an error, the end, or a wait.
LEMMA PullErrorStep == ASSUME SInv, PullError PROVE SInv'
<1> USE DEF entry, registered, wrapper, history
<1>1. /\ js = "pull" /\ js' = "idle" /\ seenError' = TRUE
      /\ state = "errored" \/ (state = "buffer" /\ queue = <<>> /\ failed)
      /\ UNCHANGED <<state, queue, completed, failed, registered, jobs, closed, sent, chunk, done,
                     max, trampoline, notify, timers, waitTimer, produced, received, lost, dropped>>
  BY DEF PullError, Throw
<1>2. chunk = <<>>
  BY <1>1 DEF SInv, Phases
<1>3. /\ NoProducerSleepsBesideRoom' /\ producers' \subseteq Producers
      /\ pc' \in [Producers -> {"run", "parking", "parked", "lost", "ended"}]
  <2>1. CASE WakeProducers
    BY <2>1, NobodyParked
  <2>2. CASE UNCHANGED <<producers, pc>>
    BY <1>1, <2>2, ParkedKept DEF SInv, TypeOK
  <2> QED  BY <2>1, <2>2 DEF PullError
<1>4. TypeOK'
  BY <1>1, <1>3 DEF SInv, TypeOK
<1>5. Phases'
  BY <1>1, <1>2 DEF SInv, Phases
<1>6. Given' = Given
  BY <1>1 DEF Given
<1> QED  BY <1>1, <1>3, <1>4, <1>5, <1>6, KeptStep

LEMMA PullDoneStep == ASSUME SInv, PullDone PROVE SInv'
<1> USE DEF entry, registered, wrapper, history
<1>1. /\ js = "pull" /\ js' = "idle" /\ done' = TRUE /\ CloseTrampoline
      /\ \/ state = "done" /\ UNCHANGED <<state, producers, pc>>
         \/ state = "buffer" /\ queue = <<>> /\ state' = "done" /\ WakeProducers
      /\ UNCHANGED <<queue, completed, failed, registered, jobs, closed, sent, chunk, max, notify,
                     timers, waitTimer, history>>
  BY DEF PullDone, EndReached
<1>2. chunk = <<>> /\ queue = <<>>
  BY <1>1 DEF SInv, Phases
<1>3. /\ NoProducerSleepsBesideRoom' /\ producers' \subseteq Producers
      /\ pc' \in [Producers -> {"run", "parking", "parked", "lost", "ended"}]
  <2>1. CASE WakeProducers
    BY <2>1, NobodyParked
  <2>2. CASE UNCHANGED <<state, producers, pc>>
    BY <1>1, <2>2, ParkedKept DEF SInv, TypeOK
  <2> QED  BY <1>1, <2>1, <2>2
<1>4. TypeOK'
  BY <1>1, <1>3 DEF SInv, TypeOK, CloseTrampoline
<1>5. Phases'
  BY <1>1, <1>2 DEF SInv, Phases
<1>6. Given' = Given
  BY <1>1 DEF Given
<1> QED  BY <1>1, <1>3, <1>4, <1>5, <1>6, KeptStep

LEMMA PullPendingStep == ASSUME SInv, PullPending PROVE SInv'
<1> USE DEF entry, registered, wrapper, history
<1>1. /\ js = "pull" /\ js' = "wait" /\ WakeProducers
      /\ timers' \subseteq Timers /\ waitTimer' \in Timers /\ notify' \in Timers \cup {NONE}
      /\ UNCHANGED <<state, queue, completed, failed, registered, jobs, closed, sent, chunk, done,
                     max, trampoline, history>>
  BY DEF PullPending, SInv, TypeOK
<1>2. /\ NoProducerSleepsBesideRoom' /\ producers' = {}
      /\ pc' \in [Producers -> {"run", "parking", "parked", "lost", "ended"}]
  BY <1>1, NobodyParked
<1>3. TypeOK'
  BY <1>1, <1>2 DEF SInv, TypeOK
<1> QED  BY <1>1, <1>2, <1>3, QuietStep

-----------------------------------------------------------------------------
(* Steps that add items, or take some *)

\* Who makes items numbers them on from the last.
LEMMA NumberedGrows ==
    ASSUME TypeOK, Numbered, NEW p \in Producers \cup {ITERATOR}, NEW n \in Nat, NEW u \in Seq(Items),
           Len(u) = n, \A i \in 1 .. n : u[i] = <<p, sent[p] + i>>,
           sent' = [sent EXCEPT ![p] = @ + n], produced' = produced \o u
    PROVE  Numbered'
<1>1. sent \in [Producers \cup {ITERATOR} -> 0 .. MaxItems] /\ produced \in Seq(Items)
  BY DEF TypeOK
<1>2. PICK N \in Nat : N = Len(produced) /\ \A i \in 1 .. N : produced[i] \in Items
  BY <1>1, LenProperties, ElementOfSeq
<1>3. /\ Len(produced') = N + n
      /\ \A i \in 1 .. N + n : produced'[i] = IF i <= N THEN produced[i] ELSE u[i - N]
  BY <1>1, <1>2, ConcatProperties
<1>4. /\ sent'[p] = sent[p] + n /\ sent[p] \in Nat
      /\ \A q \in Producers \cup {ITERATOR} : sent'[q] >= sent[q] /\ sent[q] \in Nat /\ sent'[q] \in Nat
      /\ \A q \in Producers \cup {ITERATOR} : q # p => sent'[q] = sent[q]
  BY <1>1, StreamAssumption
<1>5. /\ \A i \in 1 .. N : /\ produced[i][1] \in Producers \cup {ITERATOR} /\ produced[i][2] \in Nat
                           /\ produced[i][2] <= sent[produced[i][1]]
      /\ \A i, k \in 1 .. N : produced[i] = produced[k] => i = k
      /\ \A q \in Producers \cup {ITERATOR} : sent[q] <= N
  <2>1. \A i \in 1 .. N : produced[i][1] \in Producers \cup {ITERATOR} /\ produced[i][2] \in Nat
    BY <1>2, StreamAssumption DEF Items
  <2> QED  BY <1>2, <2>1 DEF Numbered
<1>6. \A i \in 1 .. N + n :
         \/ i \in 1 .. N /\ produced'[i] = produced[i]
         \/ i - N \in 1 .. n /\ produced'[i] = <<p, sent[p] + (i - N)>>
  <2> SUFFICES ASSUME NEW i \in 1 .. N + n
               PROVE  \/ i \in 1 .. N /\ produced'[i] = produced[i]
                      \/ i - N \in 1 .. n /\ produced'[i] = <<p, sent[p] + (i - N)>>
    OBVIOUS
  <2>1. CASE i <= N
    BY <1>3, <2>1
  <2>2. CASE i > N
    <3>1. i - N \in 1 .. n /\ produced'[i] = u[i - N]
      BY <1>3, <2>2
    <3> QED  BY <3>1
  <2>3. i <= N \/ i > N
    OBVIOUS
  <2> QED  BY <2>1, <2>2, <2>3
<1>7. \A q \in Producers \cup {ITERATOR} : sent'[q] <= Len(produced')
  BY <1>3, <1>4, <1>5
<1>8. \A i \in 1 .. N + n : produced'[i][2] <= sent'[produced'[i][1]]
  <2> SUFFICES ASSUME NEW i \in 1 .. N + n PROVE produced'[i][2] <= sent'[produced'[i][1]]
    OBVIOUS
  <2>1. CASE i \in 1 .. N /\ produced'[i] = produced[i]
    <3>1. PICK q \in Producers \cup {ITERATOR}, v \in Nat :
             q = produced[i][1] /\ v = produced[i][2] /\ v <= sent[q]
      BY <1>5, <2>1
    <3>2. sent'[q] >= sent[q] /\ sent[q] \in Nat /\ sent'[q] \in Nat
      BY <1>4
    <3>3. v <= sent'[q]
      BY <3>1, <3>2
    <3>4. produced'[i][1] = q /\ produced'[i][2] = v
      BY <2>1, <3>1
    <3> QED  BY <3>3, <3>4
  <2>2. CASE i - N \in 1 .. n /\ produced'[i] = <<p, sent[p] + (i - N)>>
    <3>1. produced'[i][1] = p /\ produced'[i][2] = sent[p] + (i - N)
      BY <2>2
    <3>2. sent'[p] = sent[p] + n /\ sent[p] \in Nat /\ i - N \in Int /\ i - N <= n
      BY <1>4, <2>2
    <3>3. sent[p] + (i - N) <= sent'[p]
      BY <3>2
    <3> QED  BY <3>1, <3>3
  <2> QED  BY <1>6, <2>1, <2>2
<1>9. ASSUME NEW i \in 1 .. N + n, NEW k \in 1 .. N + n, produced'[i] = produced'[k] PROVE i = k
  <2>1. ASSUME NEW a \in 1 .. N, NEW b \in Int, b - N \in 1 .. n, produced[a] = <<p, sent[p] + (b - N)>>
        PROVE  FALSE
    <3>1. produced[a][1] = p /\ produced[a][2] = sent[p] + (b - N)
      BY <2>1
    <3>2. produced[a][2] <= sent[p]
      BY <1>5, <3>1
    <3> QED  BY <1>4, <2>1, <3>1, <3>2
  <2>2. /\ \/ i \in 1 .. N /\ produced'[i] = produced[i]
           \/ i - N \in 1 .. n /\ produced'[i] = <<p, sent[p] + (i - N)>>
        /\ \/ k \in 1 .. N /\ produced'[k] = produced[k]
           \/ k - N \in 1 .. n /\ produced'[k] = <<p, sent[p] + (k - N)>>
    BY <1>6
  <2>3. CASE i \in 1 .. N /\ produced'[i] = produced[i] /\ k \in 1 .. N /\ produced'[k] = produced[k]
    BY <1>5, <1>9, <2>3
  <2>4. CASE /\ i - N \in 1 .. n /\ produced'[i] = <<p, sent[p] + (i - N)>>
             /\ k - N \in 1 .. n /\ produced'[k] = <<p, sent[p] + (k - N)>>
    <3>1. produced'[i][2] = sent[p] + (i - N) /\ produced'[k][2] = sent[p] + (k - N)
      BY <2>4
    <3>2. sent[p] + (i - N) = sent[p] + (k - N)
      BY <1>9, <3>1
    <3> QED  BY <1>4, <3>2
  <2>5. CASE i \in 1 .. N /\ produced'[i] = produced[i] /\ k - N \in 1 .. n /\ produced'[k] = <<p, sent[p] + (k - N)>>
    <3>1. k \in Int
      OBVIOUS
    <3>2. produced[i] = <<p, sent[p] + (k - N)>>
      BY <1>9, <2>5, Zenon
    <3>3. FALSE
      BY <2>1, <2>5, <3>1, <3>2
    <3> QED  BY <3>3
  <2>6. CASE k \in 1 .. N /\ produced'[k] = produced[k] /\ i - N \in 1 .. n /\ produced'[i] = <<p, sent[p] + (i - N)>>
    <3>1. i \in Int
      OBVIOUS
    <3>2. produced[k] = <<p, sent[p] + (i - N)>>
      BY <1>9, <2>6, Zenon
    <3>3. FALSE
      BY <2>1, <2>6, <3>1, <3>2
    <3> QED  BY <3>3
  <2> QED  BY <2>2, <2>3, <2>4, <2>5, <2>6
<1> QED  BY <1>3, <1>7, <1>8, <1>9 DEF Numbered

\* What is pushed comes after all that was.
LEMMA OrderGrows ==
    ASSUME TypeOK, Ordered, NEW u \in Seq(Items), Given' = Given \o u, produced' = produced \o u,
           ~dropped, state # "errored", UNCHANGED lost
    PROVE  Ordered'
<1>1. Given \in Seq(Items) /\ produced \in Seq(Items)
  BY Typed
<1>2. Subsequence(Given', produced')
  BY <1>1, BothGrow DEF Ordered
<1>3. produced' \in Seq(Items)
  BY <1>1, ConcatProperties
<1>4. ~lost => Given' = produced'
  BY DEF Ordered
<1>5. IsPrefix(produced', produced')
  BY <1>3, PrefixOfItself
<1>6. ~lost' => IsPrefix(Given', produced')
  BY <1>4, <1>5
<1> QED  BY <1>2, <1>4, <1>6 DEF Ordered

LEMMA PushStep == ASSUME SInv, NEW p \in Producers, PushItem(p) PROVE SInv'
<1> DEFINE e == <<p, sent[p] + 1>>
<1> USE DEF entry, registered, wrapper, history
<1>1. /\ state = "buffer" /\ ~completed /\ ~failed /\ pc[p] = "run"
      /\ Len(queue) < PUSH_CAPACITY /\ Len(produced) < MaxItems
      /\ sent' = [sent EXCEPT ![p] = @ + 1]
      /\ queue' = Append(queue, <<p, sent'[p]>>) /\ produced' = Append(produced, <<p, sent'[p]>>)
      /\ FireWake \/ UNCHANGED jobs
      /\ UNCHANGED <<state, completed, failed, producers, registered, closed, pc, wrapper,
                     received, lost, seenError, dropped>>
  BY DEF PushItem, Open
<1>2. sent \in [Producers \cup {ITERATOR} -> 0 .. MaxItems] /\ queue \in Seq(Items) /\ produced \in Seq(Items)
  BY DEF SInv, TypeOK
<1>3. Len(queue) \in Nat /\ Len(produced) \in Nat
  BY <1>2, LenProperties
<1>4. sent[p] + 1 \in 1 .. MaxItems /\ sent'[p] = sent[p] + 1
  <2>1. sent[p] <= Len(produced) /\ sent[p] \in Nat
    BY <1>2, StreamAssumption DEF SInv, Numbered
  <2> QED  BY <1>1, <1>2, <1>3, <2>1, StreamAssumption
<1>5. e \in Items /\ queue' = Append(queue, e) /\ produced' = Append(produced, e)
  BY <1>1, <1>4 DEF Items
<1> HIDE DEF e
<1>6. /\ queue' \in Seq(Items) /\ Len(queue') = Len(queue) + 1 /\ queue' # <<>> /\ produced' \in Seq(Items)
      /\ queue' = queue \o <<e>> /\ produced' = produced \o <<e>>
      /\ <<e>> \in Seq(Items) /\ Len(<<e>>) = 1 /\ <<e>>[1] = e
  BY <1>2, <1>5, AppendProperties, AppendIsConcat
<1>7. ~dropped /\ ~seenError
  BY <1>1 DEF SInv, Phases
<1>8. TypeOK'
  <2>1. sent' \in [Producers \cup {ITERATOR} -> 0 .. MaxItems]
    BY <1>1, <1>2, <1>4, StreamAssumption
  <2>2. jobs' \in Seq({UNBOUND, JS})
    BY <1>1, Fired DEF SInv, TypeOK
  <2>3. Len(queue') <= PUSH_CAPACITY
    BY <1>1, <1>3, <1>6, StreamAssumption
  <2>4. UNCHANGED <<state, completed, failed, producers, registered, closed, pc, wrapper,
                    received, lost, seenError, dropped>>
    BY <1>1
  <2> QED  BY <1>6, <2>1, <2>2, <2>3, <2>4 DEF SInv, TypeOK
<1>9. Numbered'
  <2>1. \A i \in 1 .. 1 : <<e>>[i] = <<p, sent[p] + i>>
    BY <1>6 DEF e
  <2> QED  BY <1>1, <1>6, <2>1, NumberedGrows DEF SInv
<1>10. Phases'
  BY <1>1, <1>7 DEF SInv, Phases
<1>11. Ordered'
  <2>1. Given' = Given \o <<e>>
    <3>1. PICK a \in Seq(Items) : a = received \o chunk
      BY Typed DEF SInv
    <3>2. PICK u \in Seq(Items) : u = <<e>>
      BY <1>6
    <3>3. (a \o queue) \o u = a \o (queue \o u)
      <4>1. queue \in Seq(Items)
        BY <1>2
      <4> QED  BY <4>1, LastGrows
    <3>4. received' \o chunk' = a /\ queue' = queue \o u
      <4>1. received' = received /\ chunk' = chunk
        BY <1>1
      <4> QED  BY <1>6, <3>1, <3>2, <4>1, Zenon
    <3>5. Given = a \o queue /\ Given' = a \o queue'
      BY <3>1, <3>4, Zenon DEF Given
    <3> QED  BY <3>2, <3>3, <3>4, <3>5, Zenon
  <2> QED  BY <1>1, <1>6, <1>7, <2>1, OrderGrows DEF SInv
<1>12. NoProducerSleepsBesideRoom'
  <2>1. \A q \in Producers : pc[q] \notin {"parking", "parked"}
    BY <1>1, <1>3, StreamAssumption DEF SInv, NoProducerSleepsBesideRoom
  <2> QED  BY <1>1, <2>1 DEF NoProducerSleepsBesideRoom
<1> QED  BY <1>8, <1>9, <1>10, <1>11, <1>12 DEF SInv

\* The call takes the first item of a chunk and the wrapper keeps the others.
LEMMA Received ==
    ASSUME SInv, js = "pull", NEW items \in Seq(Items), Receive(items)
    PROVE  /\ received' \in Seq(Items) /\ chunk' \in Seq(Items) /\ max' \in 1 .. MAX_BUDGET
           /\ received' \o chunk' = received \o items
           /\ js' \in {"pull", "idle"} /\ (js' # "idle" => chunk' = <<>>)
<1>1. received \in Seq(Items) /\ chunk = <<>> /\ max \in 1 .. MAX_BUDGET
  BY DEF SInv, Phases, TypeOK
<1>2. max' \in 1 .. MAX_BUDGET
  BY <1>1, StreamAssumption DEF Receive, Grow
<1>3. CASE items = <<>>
  <2>1. UNCHANGED <<js, chunk, received>>
    BY <1>3 DEF Receive
  <2>2. chunk \in Seq(Items)
    BY Typed DEF SInv
  <2> QED  BY <1>1, <1>2, <1>3, <2>1, <2>2
<1>4. CASE items # <<>>
  <2>1. js' = "idle" /\ chunk' = Tail(items) /\ received' = Append(received, Head(items))
    BY <1>4 DEF Receive
  <2>2. /\ Append(received, Head(items)) \in Seq(Items) /\ Tail(items) \in Seq(Items)
        /\ Append(received, Head(items)) \o Tail(items) = received \o items
    BY <1>1, <1>4, HeadMoves
  <2> QED  BY <1>2, <2>1, <2>2
<1> QED  BY <1>3, <1>4

\* The items of a chunk and what stays in the buffer.
LEMMA Split ==
    ASSUME NEW S, NEW q \in Seq(S), NEW m \in 0 .. Len(q)
    PROVE  /\ SubSeq(q, 1, m) \in Seq(S) /\ Len(SubSeq(q, 1, m)) = m
           /\ SubSeq(q, m + 1, Len(q)) \in Seq(S) /\ Len(SubSeq(q, m + 1, Len(q))) = Len(q) - m
           /\ \A n \in 1 .. Len(q) - m : SubSeq(q, m + 1, Len(q))[n] = q[n + m]
           /\ SubSeq(q, 1, m) \o SubSeq(q, m + 1, Len(q)) = q
<1>1. Len(q) \in Nat /\ m \in Nat /\ m <= Len(q) /\ \A i \in 1 .. Len(q) : q[i] \in S
  BY LenProperties, ElementOfSeq
<1>2. /\ SubSeq(q, 1, m) \in Seq(S) /\ Len(SubSeq(q, 1, m)) = IF 1 <= m THEN m - 1 + 1 ELSE 0
      /\ \A i \in 1 .. m - 1 + 1 : SubSeq(q, 1, m)[i] = q[1 + i - 1]
  <2>1. \A i \in 1 .. m : q[i] \in S
    BY <1>1
  <2> QED  BY <1>1, <2>1, SubSeqProperties
<1>3. /\ SubSeq(q, m + 1, Len(q)) \in Seq(S)
      /\ Len(SubSeq(q, m + 1, Len(q))) = IF m + 1 <= Len(q) THEN Len(q) - (m + 1) + 1 ELSE 0
      /\ \A i \in 1 .. Len(q) - (m + 1) + 1 : SubSeq(q, m + 1, Len(q))[i] = q[(m + 1) + i - 1]
  <2>1. \A i \in m + 1 .. Len(q) : q[i] \in S
    BY <1>1
  <2> QED  BY <1>1, <2>1, SubSeqProperties
<1> DEFINE a == SubSeq(q, 1, m)
           b == SubSeq(q, m + 1, Len(q))
<1>4. /\ a \in Seq(S) /\ Len(a) = m /\ b \in Seq(S) /\ Len(b) = Len(q) - m
      /\ \A i \in 1 .. m : a[i] = q[i]
      /\ \A n \in 1 .. Len(q) - m : b[n] = q[n + m]
  BY <1>1, <1>2, <1>3
<1> HIDE DEF a, b
<1>5. a \o b = q
  <2>1. /\ a \o b \in Seq(S) /\ Len(a \o b) = Len(a) + Len(b)
        /\ \A i \in 1 .. Len(a) + Len(b) : (a \o b)[i] = IF i <= Len(a) THEN a[i] ELSE b[i - Len(a)]
    <3>1. a \in Seq(S) /\ b \in Seq(S)
      BY <1>4
    <3> QED  BY <3>1, ConcatProperties
  <2>2. Len(a \o b) = Len(q)
    BY <1>1, <1>4, <2>1
  <2>3. \A i \in 1 .. Len(q) : (a \o b)[i] = q[i]
    <3> SUFFICES ASSUME NEW i \in 1 .. Len(q) PROVE (a \o b)[i] = q[i]
      OBVIOUS
    <3>1. CASE i <= m
      BY <1>1, <1>4, <2>1, <3>1
    <3>2. CASE i > m
      <4>1. i - m \in 1 .. Len(q) - m /\ (i - m) + m = i
        BY <1>1, <3>2
      <4>2. b[i - m] = q[i]
        BY <1>4, <4>1
      <4>3. (a \o b)[i] = b[i - m]
        BY <1>1, <1>4, <2>1, <3>2
      <4> QED  BY <4>2, <4>3
    <3>3. i <= m \/ i > m
      BY <1>1
    <3> QED  BY <3>1, <3>2, <3>3
  <2> QED  BY <2>1, <2>2, <2>3, SeqEqual
<1> QED  BY <1>4, <1>5 DEF a, b

LEMMA NextStep == ASSUME SInv, NextFromChunk PROVE SInv'
<1> USE DEF entry, registered, wrapper, history
<1>1. /\ js = "idle" /\ chunk # <<>> /\ received' = Append(received, Head(chunk)) /\ chunk' = Tail(chunk)
      /\ UNCHANGED <<entry, registered, jobs, closed, pc, sent, js, done, max, trampoline, notify,
                     timers, waitTimer, produced, lost, seenError, dropped>>
  BY DEF NextFromChunk
<1>2. /\ received' \in Seq(Items) /\ chunk' \in Seq(Items) /\ received' \o chunk' = received \o chunk
  <2>1. received \in Seq(Items) /\ chunk \in Seq(Items) /\ chunk # <<>>
    BY <1>1 DEF SInv, TypeOK
  <2> QED  BY <1>1, <2>1, HeadMoves
<1>3. TypeOK'
  BY <1>1, <1>2 DEF SInv, TypeOK
<1>4. Phases'
  BY <1>1 DEF SInv, Phases
<1>5. NoProducerSleepsBesideRoom'
  BY <1>1, ParkedKept
<1>6. Given' = Given
  BY <1>1, <1>2 DEF Given
<1> QED  BY <1>1, <1>3, <1>4, <1>5, <1>6, KeptStep

\* A chunk of the push buffer, and all producers may push again.
LEMMA PullItemsStep == ASSUME SInv, PullItems PROVE SInv'
<1> DEFINE m == IF max < Len(queue) THEN max ELSE Len(queue)
           items == SubSeq(queue, 1, m)
           rest == SubSeq(queue, m + 1, Len(queue))
<1> USE DEF entry, registered, wrapper, history
<1>1. queue \in Seq(Items) /\ received \in Seq(Items) /\ max \in Nat \ {0} /\ Len(queue) <= PUSH_CAPACITY
  BY DEF SInv, TypeOK
<1>2. /\ js = "pull" /\ state = "buffer" /\ queue # <<>> /\ WakeProducers
      /\ (Receive(items) /\ UNCHANGED lost) \/ StoreFails
      /\ queue' = SubSeq(queue, Len(items) + 1, Len(queue))
      /\ UNCHANGED <<state, completed, failed, registered, jobs, closed, sent, done, trampoline,
                     notify, timers, waitTimer, produced, seenError, dropped>>
  BY DEF PullItems, FirstItems
<1>3. m \in 1 .. Len(queue) /\ m \in 0 .. Len(queue) /\ Len(queue) \in Nat
  BY <1>1, <1>2, EmptySeq
<1> HIDE DEF m
<1>4. /\ items \in Seq(Items) /\ Len(items) = m /\ rest \in Seq(Items) /\ Len(rest) = Len(queue) - m
      /\ \A n \in 1 .. Len(queue) - m : rest[n] = queue[n + m]
      /\ items \o rest = queue
  BY <1>1, <1>3, Split
<1>5. queue' = rest
  BY <1>2, <1>4
<1> HIDE DEF items, rest
<1>6. chunk = <<>> /\ ~seenError /\ ~dropped
  BY <1>2 DEF SInv, Phases
<1>7. /\ NoProducerSleepsBesideRoom' /\ producers' = {}
      /\ pc' \in [Producers -> {"run", "parking", "parked", "lost", "ended"}]
  BY <1>2, NobodyParked
<1>8. Len(rest) <= PUSH_CAPACITY
  BY <1>1, <1>3, <1>4, StreamAssumption
<1>9. CASE Receive(items) /\ UNCHANGED lost
  <2>1. /\ received' \in Seq(Items) /\ chunk' \in Seq(Items) /\ max' \in 1 .. MAX_BUDGET
        /\ received' \o chunk' = received \o items
        /\ js' \in {"pull", "idle"} /\ (js' # "idle" => chunk' = <<>>)
    BY <1>2, <1>4, <1>9, Received
  <2>2. TypeOK'
    <3>0. TypeOK
      BY DEF SInv
    <3>1. queue' \in Seq(Items) /\ Len(queue') <= PUSH_CAPACITY
      BY <1>4, <1>5, <1>8
    <3>2. UNCHANGED <<state, completed, failed, registered, jobs, closed, sent, done, trampoline,
                      notify, timers, waitTimer, produced, seenError, dropped>>
      BY <1>2
    <3>3. lost' = lost
      BY <1>9
    <3>4. producers' \subseteq Producers /\ js' \in {"pull", "idle"}
      BY <1>7, <2>1
    <3> QED  BY <1>7, <2>1, <3>0, <3>1, <3>2, <3>3, <3>4 DEF TypeOK
  <2>3. Phases'
    BY <1>2, <1>6, <2>1 DEF SInv, Phases
  <2>4. Given' = Given
    <3>1. (received \o items) \o rest = received \o (items \o rest)
      <4>1. received \in Seq(Items) /\ items \in Seq(Items) /\ rest \in Seq(Items)
        BY <1>1, <1>4
      <4> QED  BY <4>1, LastGrows
    <3>2. received \o chunk = received
      BY <1>1, <1>6
    <3> QED  BY <1>4, <1>5, <2>1, <3>1, <3>2 DEF Given
  <2> QED  BY <1>2, <1>7, <1>9, <2>2, <2>3, <2>4, KeptStep
<1>10. CASE StoreFails
  <2>1. received = <<>> /\ lost' = TRUE /\ js' = "idle" /\ UNCHANGED <<chunk, received, max>>
    BY <1>10 DEF StoreFails
  <2>2. TypeOK'
    <3>0. TypeOK
      BY DEF SInv
    <3>1. queue' \in Seq(Items) /\ Len(queue') <= PUSH_CAPACITY
      BY <1>4, <1>5, <1>8
    <3>2. UNCHANGED <<state, completed, failed, registered, jobs, closed, sent, done, trampoline,
                      notify, timers, waitTimer, produced, seenError, dropped>>
      BY <1>2
    <3> QED  BY <1>7, <2>1, <3>0, <3>1, <3>2 DEF TypeOK
  <2>3. Phases'
    BY <1>2, <1>6, <2>1 DEF SInv, Phases
  <2>4. Numbered'
    BY <1>2 DEF SInv, Numbered
  <2>5. Given = queue /\ Given' = rest
    BY <1>1, <1>4, <1>5, <1>6, <2>1 DEF Given
  <2>6. Subsequence(rest, produced)
    <3>1. Subsequence(queue, produced) /\ produced \in Seq(Items)
      BY <2>5, Typed DEF SInv, Ordered
    <3>2. m \in Nat /\ Len(rest) + m <= Len(queue) /\ \A n \in 1 .. Len(rest) : rest[n] = queue[n + m]
      BY <1>3, <1>4
    <3> QED  BY <1>1, <1>4, <3>1, <3>2, PartOf
  <2>7. Ordered'
    BY <1>2, <2>1, <2>5, <2>6 DEF Ordered
  <2> QED  BY <1>7, <2>2, <2>3, <2>4, <2>7 DEF SInv
<1> QED  BY <1>2, <1>9, <1>10

\* The iterator's items go straight to the wrapper, unless one of them fails.
LEMMA PullIteratorStep == ASSUME SInv, PullIterator PROVE SInv'
<1> USE DEF entry, registered, wrapper, history
<1>1. /\ js = "pull" /\ state = "items"
      /\ UNCHANGED <<queue, completed, failed, producers, registered, jobs, closed, pc, done,
                     trampoline, notify, timers, waitTimer, dropped>>
  BY DEF PullIterator
<1> DEFINE itemsOf(n) == [i \in 1 .. n |-> <<ITERATOR, sent[ITERATOR] + i>>]
<1>0. PICK n \in 0 .. max :
         /\ sent[ITERATOR] + n <= MaxItems
         /\ sent' = [sent EXCEPT ![ITERATOR] = @ + n]
         /\ produced' = produced \o itemsOf(n)
         /\ \/ /\ state' = IF n = max THEN "items" ELSE "done"
               /\ (Receive(itemsOf(n)) /\ UNCHANGED lost) \/ StoreFails
               /\ UNCHANGED seenError
            \/ /\ n < max /\ state' = "errored"
               /\ Throw
               /\ UNCHANGED <<received, chunk, max, lost>>
  BY DEF PullIterator
<1> DEFINE items == itemsOf(n)
<1>2. /\ items = [i \in 1 .. n |-> <<ITERATOR, sent[ITERATOR] + i>>]
      /\ sent[ITERATOR] + n <= MaxItems
      /\ sent' = [sent EXCEPT ![ITERATOR] = @ + n]
      /\ produced' = produced \o items
      /\ \/ /\ state' = IF n = max THEN "items" ELSE "done"
            /\ (Receive(items) /\ UNCHANGED lost) \/ StoreFails
            /\ UNCHANGED seenError
         \/ /\ n < max /\ state' = "errored"
            /\ Throw
            /\ UNCHANGED <<received, chunk, max, lost>>
  BY <1>0
<1> HIDE DEF items
<1>3. /\ sent \in [Producers \cup {ITERATOR} -> 0 .. MaxItems] /\ received \in Seq(Items)
      /\ produced \in Seq(Items) /\ Given \in Seq(Items) /\ n \in Nat
  BY Typed DEF SInv, TypeOK
<1>4. items \in Seq(Items) /\ Len(items) = n /\ \A i \in 1 .. n : items[i] = <<ITERATOR, sent[ITERATOR] + i>>
  <2>1. \A i \in 1 .. n : <<ITERATOR, sent[ITERATOR] + i>> \in Items
    BY <1>2, <1>3, StreamAssumption DEF Items
  <2> QED  BY <1>2, <1>3, <2>1
<1>5. queue = <<>> /\ chunk = <<>> /\ ~dropped /\ Given = received
  BY <1>1, <1>3 DEF SInv, Phases, Given
<1>6. Numbered'
  BY <1>2, <1>3, <1>4, NumberedGrows DEF SInv
<1>7. /\ sent' \in [Producers \cup {ITERATOR} -> 0 .. MaxItems] /\ produced' \in Seq(Items)
  <2>1. sent[ITERATOR] + n \in 0 .. MaxItems
    BY <1>2, <1>3, StreamAssumption
  <2> QED  BY <1>2, <1>3, <1>4, <2>1, ConcatProperties
<1>8. NoProducerSleepsBesideRoom'
  <2>1. \A p \in Producers : pc[p] \notin {"parking", "parked"}
    BY <1>1 DEF SInv, NoProducerSleepsBesideRoom, Open
  <2> QED  BY <1>1, <2>1 DEF NoProducerSleepsBesideRoom
<1>9. CASE /\ state' = IF n = max THEN "items" ELSE "done"
           /\ Receive(items) /\ UNCHANGED <<lost, seenError>>
  <2>1. /\ received' \in Seq(Items) /\ chunk' \in Seq(Items) /\ max' \in 1 .. MAX_BUDGET
        /\ received' \o chunk' = received \o items
        /\ js' \in {"pull", "idle"} /\ (js' # "idle" => chunk' = <<>>)
    BY <1>1, <1>4, <1>9, Received
  <2>2. TypeOK'
    BY <1>1, <1>7, <1>9, <2>1 DEF SInv, TypeOK
  <2>3. Phases'
    BY <1>1, <1>5, <1>9, <2>1 DEF SInv, Phases
  <2>4. Given' = Given \o items
    <3>1. received \o items \in Seq(Items)
      BY <1>3, <1>4, ConcatProperties
    <3>2. (received \o items) \o <<>> = received \o items
      BY <3>1, ConcatEmptySeq
    <3> QED  BY <1>1, <1>5, <2>1, <3>2 DEF Given
  <2>5. Ordered'
    BY <1>1, <1>2, <1>4, <1>5, <1>9, <2>4, OrderGrows DEF SInv
  <2> QED  BY <1>6, <1>8, <2>2, <2>3, <2>5 DEF SInv
<1>10. ASSUME received' = received, chunk' = chunk, max' = max, js' = "idle",
              state' \in {"items", "done", "errored"}, lost' \in BOOLEAN, seenError' \in BOOLEAN,
              lost' \/ (UNCHANGED lost /\ state' = "errored")
       PROVE  SInv'
  <2>1. TypeOK'
    BY <1>1, <1>7, <1>10 DEF SInv, TypeOK
  <2>2. Phases'
    BY <1>1, <1>5, <1>10 DEF SInv, Phases
  <2>3. Given' = Given
    BY <1>1, <1>10 DEF Given
  <2>4. Subsequence(Given', produced')
    BY <1>2, <1>3, <1>4, <2>3, PushedGrows DEF SInv, Ordered
  <2>5. ~lost' => IsPrefix(Given', produced')
    <3> SUFFICES ASSUME ~lost' PROVE IsPrefix(Given', produced')
      OBVIOUS
    <3>1. Given = produced /\ produced' = produced \o items
      BY <1>1, <1>2, <1>5, <1>10 DEF SInv, Ordered
    <3>2. IsPrefix(produced, produced \o items)
      BY <1>3, <1>4, PrefixOfConcat
    <3> QED  BY <2>3, <3>1, <3>2
  <2>6. Ordered'
    BY <1>10, <2>4, <2>5 DEF Ordered
  <2> QED  BY <1>6, <1>8, <2>1, <2>2, <2>6 DEF SInv
<1>11. CASE StoreFails /\ state' = (IF n = max THEN "items" ELSE "done") /\ UNCHANGED seenError
  <2>1. lost' = TRUE /\ seenError' \in BOOLEAN
    BY <1>11 DEF StoreFails, SInv, TypeOK
  <2>2. received' = received /\ chunk' = chunk /\ max' = max /\ js' = "idle"
    BY <1>11 DEF StoreFails
  <2>3. state' \in {"items", "done", "errored"}
    BY <1>11
  <2> QED  BY <1>10, <2>1, <2>2, <2>3
<1>12. CASE state' = "errored" /\ Throw /\ UNCHANGED <<received, chunk, max, lost>>
  <2>1. seenError' \in BOOLEAN /\ lost' \in BOOLEAN /\ js' = "idle"
    BY <1>12 DEF Throw, SInv, TypeOK
  <2> QED  BY <1>10, <1>12, <2>1
<1> QED  BY <1>2, <1>9, <1>11, <1>12

\* Letting go takes the end of what is on its way, and closes the stream.
LEMMA DropStep == ASSUME SInv, Dispose \/ Finalize PROVE SInv'
<1> USE DEF entry, registered, wrapper, history
<1>1. CASE Dispose /\ done
  <2>1. /\ UNCHANGED <<state, queue, producers, pc, chunk, dropped>> /\ done' = TRUE /\ CloseTrampoline
        /\ UNCHANGED <<completed, failed, registered, jobs, closed, sent, js, max, notify, timers,
                       waitTimer, produced, received, lost, seenError>>
    BY <1>1 DEF Dispose
  <2>2. TypeOK'
    BY <2>1 DEF SInv, TypeOK, CloseTrampoline
  <2>3. NoProducerSleepsBesideRoom'
    BY <2>1, ParkedKept
  <2> QED  BY <2>1, <2>2, <2>3, QuietStep
<1>2. CASE (Dispose /\ ~done) \/ Finalize
  <2>1. /\ DropStream /\ chunk' = <<>> /\ dropped' = TRUE
        /\ UNCHANGED <<completed, failed, registered, jobs, closed, sent, max, notify, timers,
                       waitTimer, produced, received, lost, seenError>>
        /\ js' \in {js, "collected"}
    BY <1>2 DEF Dispose, Finalize
  <2>2. done' \in BOOLEAN /\ trampoline' \in {"none", "open", "closed"}
    BY <1>2 DEF Dispose, Finalize, SInv, TypeOK, CloseTrampoline
  <2>3. queue' = <<>> /\ state' \in {"done", "errored"} /\ WakeProducers
    BY <2>1 DEF DropStream, SInv, TypeOK
  <2>4. /\ NoProducerSleepsBesideRoom' /\ producers' = {}
        /\ pc' \in [Producers -> {"run", "parking", "parked", "lost", "ended"}]
    BY <2>3, NobodyParked
  <2>5. TypeOK'
    <3>1. queue' \in Seq(Items) /\ chunk' \in Seq(Items) /\ Len(queue') <= PUSH_CAPACITY
      BY <2>1, <2>3, StreamAssumption, EmptySeq
    <3> QED  BY <2>1, <2>2, <2>3, <2>4, <3>1 DEF SInv, TypeOK
  <2>6. Phases'
    BY <2>1, <2>3 DEF Phases
  <2>7. Numbered'
    BY <2>1 DEF SInv, Numbered
  <2>8. /\ received \in Seq(Items) /\ chunk \in Seq(Items) /\ queue \in Seq(Items)
        /\ produced \in Seq(Items) /\ Given \in Seq(Items)
    BY Typed DEF SInv
  <2>9. Given' = received
    BY <2>1, <2>3, <2>8 DEF Given
  <2>10. Len(received) <= Len(Given) /\ \A i \in 1 .. Len(received) : received[i] = Given[i]
    BY <2>8, StartOfConcat DEF Given
  <2>11. Ordered'
    <3>1. Subsequence(received, produced)
      BY <2>8, <2>10, StartOf DEF SInv, Ordered
    <3>2. ~lost => IsPrefix(received, produced)
      <4> SUFFICES ASSUME ~lost PROVE IsPrefix(received, produced)
        OBVIOUS
      <4>1. Len(Given) <= Len(produced) /\ \A i \in 1 .. Len(Given) : Given[i] = produced[i]
        BY <2>8, Prefix DEF SInv, Ordered
      <4>2. Len(received) \in Nat /\ Len(Given) \in Nat /\ Len(produced) \in Nat
        BY <2>8, LenProperties
      <4>3. Len(received) <= Len(produced) /\ \A i \in 1 .. Len(received) : received[i] = produced[i]
        BY <2>10, <4>1, <4>2
      <4> QED  BY <2>8, <4>3, Prefix
    <3> QED  BY <2>1, <2>9, <3>1, <3>2 DEF Ordered
  <2> QED  BY <2>4, <2>5, <2>6, <2>7, <2>11 DEF SInv
<1> QED  BY <1>1, <1>2

-----------------------------------------------------------------------------
(* The invariant *)

LEMMA InitSInv == Init => SInv
<1> SUFFICES ASSUME Init PROVE SInv
  OBVIOUS
<1> USE DEF Init
<1>1. TypeOK
  <2>1. <<>> \in Seq(Items) /\ <<>> \in Seq({UNBOUND, JS}) /\ Len(<<>>) <= PUSH_CAPACITY
    BY EmptySeq, StreamAssumption
  <2>2. sent \in [Producers \cup {ITERATOR} -> 0 .. MaxItems]
    BY StreamAssumption
  <2>3. pc \in [Producers -> {"run", "parking", "parked", "lost", "ended"}]
    OBVIOUS
  <2>4. max \in 1 .. MAX_BUDGET
    BY StreamAssumption
  <2> QED  BY <2>1, <2>2, <2>3, <2>4 DEF TypeOK
<1>2. Numbered
  <2>1. Len(produced) = 0 /\ \A p \in Producers \cup {ITERATOR} : sent[p] = 0
    OBVIOUS
  <2> QED  BY <2>1 DEF Numbered
<1>3. Phases
  BY DEF Phases
<1>4. Ordered
  <2>1. Given = <<>> /\ produced = <<>> /\ <<>> \in Seq(Items)
    BY EmptySeq DEF Given
  <2>2. Subsequence(Given, produced)
    BY <2>1, EmptySubsequence
  <2>3. IsPrefix(Given, produced)
    BY <2>1, PrefixOfItself
  <2> QED  BY <2>1, <2>2, <2>3 DEF Ordered
<1>5. NoProducerSleepsBesideRoom
  BY DEF NoProducerSleepsBesideRoom
<1> QED  BY <1>1, <1>2, <1>3, <1>4, <1>5 DEF SInv

LEMMA NextSInv == SInv /\ [Next]_vars => SInv'
<1> SUFFICES ASSUME SInv, [Next]_vars PROVE SInv'
  OBVIOUS
<1>1. CASE UNCHANGED vars
  <2>1. UNCHANGED <<entry, registered, jobs, closed, pc, sent, wrapper, history>>
    BY <1>1 DEF vars
  <2> USE DEF entry, registered, wrapper, history
  <2>2. TypeOK'
    BY <2>1 DEF SInv, TypeOK
  <2>3. NoProducerSleepsBesideRoom'
    BY <2>1, ParkedKept
  <2> QED  BY <2>1, <2>2, <2>3, QuietStep
<1>2. ASSUME NEW p \in Producers, Produce(p) \/ ParkTask(p) \/ PolledAgain(p) \/ Ends(p) PROVE SInv'
  BY <1>2, ProducerStep, PushStep DEF Produce
<1>3. CASE Create \/ CallNext \/ NextChunk
  BY <1>3, WrapperStep, NextStep, PullItemsStep, PullErrorStep, PullDoneStep, PullPendingStep,
     PullIteratorStep DEF Create, CallNext, NextChunk
<1>4. CASE RunWake \/ CloseLoop \/ (\E n \in Timers : TimerFires(n)) \/ Dispose \/ Finalize
  BY <1>4, WrapperStep, DropStep
<1>5. CASE Next
  BY <1>2, <1>3, <1>4, <1>5 DEF Next
<1> QED  BY <1>1, <1>5

LEMMA Invariance == Spec => []SInv
<1> QED  BY InitSInv, NextSInv, PTL DEF Spec

-----------------------------------------------------------------------------
(* The theorems *)

\* Every variable keeps its type: the push buffer never holds more than
\* PUSH_CAPACITY items and the chunk budget stays between 1 and MAX_BUDGET.
THEOREM TypeCorrect == Spec => []TypeOK
<1>1. SInv => TypeOK
  BY DEF SInv
<1> QED  BY <1>1, Invariance, PTL

\* Whoever frees room, ends the stream or drops it wakes every producer that
\* waits for room: none sleeps beside a buffer that has some.
THEOREM ParkedOnlyWhenFull == Spec => []NoProducerSleepsBesideRoom
<1>1. SInv => NoProducerSleepsBesideRoom
  BY DEF SInv
<1> QED  BY <1>1, Invariance, PTL

\* The consumer receives the items once each, in the order of the pushes and
\* none left out, unless it let go, an iterator failed or a chunk was refused;
\* an error of a push stream comes after the items that were pushed before it.
THEOREM EveryItemOnceInOrder == Spec => []ItemsInOrder
<1>1. SInv => ItemsInOrder
  <2> SUFFICES ASSUME SInv PROVE ItemsInOrder
    OBVIOUS
  <2>1. IsInjective(Given)
    BY Typed, OnceEach DEF SInv, Ordered, Numbered
  <2>2. seenError /\ state = "buffer" => queue = <<>> /\ chunk = <<>>
    BY DEF SInv, Phases
  <2> QED  BY <2>1, <2>2 DEF SInv, Ordered, ItemsInOrder
<1> QED  BY <1>1, Invariance, PTL
=============================================================================
