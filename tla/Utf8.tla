-------------------------------- MODULE Utf8 --------------------------------
(***************************************************************************)
(* The UTF-8 validator of crates/bffi/src/types/utf8.rs: the block path    *)
(* (one vector of Block bytes at a time, the SSSE3 and the NEON version    *)
(* compute the same lanes), the scalar DFA that finishes the tail, and     *)
(* bytes_to_string of types/string.rs.  Sequences count from 1.            *)
(***************************************************************************)
EXTENDS Integers, Sequences

CONSTANT Block          \* bytes of a vector, 16 in the code

ASSUME BlockAssumption == Block \in Nat /\ Block >= 3

Cont == 128 .. 191
Lead2 == 194 .. 223
Lead3 == 224 .. 239
Lead4 == 240 .. 244
AnyLead == Lead2 \cup Lead3 \cup Lead4

\* The DFA: how many continuation bytes are due, and the range of the next one.
State(remaining, lo, hi) == [remaining |-> remaining, lo |-> lo, hi |-> hi]
Start == State(0, 128, 191)

\* The range of a lead byte's second byte, where it is not all of Cont.
SecondLo(b) == CASE b = 224 -> 160 [] b = 240 -> 144 [] OTHER -> 128
SecondHi(b) == CASE b = 237 -> 159 [] b = 244 -> 143 [] OTHER -> 191

DfaStep(s, b) ==
    IF s.remaining > 0
    THEN IF b < s.lo \/ b > s.hi THEN [ok |-> FALSE, state |-> s]
         ELSE [ok |-> TRUE, state |-> State(s.remaining - 1, 128, 191)]
    ELSE IF b \in 0 .. 127 THEN [ok |-> TRUE, state |-> s]
    ELSE IF b \in AnyLead
         THEN [ok |-> TRUE,
               state |-> State(CASE b \in Lead2 -> 1 [] b \in Lead3 -> 2 [] OTHER -> 3,
                               SecondLo(b), SecondHi(b))]
    ELSE [ok |-> FALSE, state |-> s]

\* One more byte: refused for ever once a byte was.
Continue(ok, step) == [ok |-> ok /\ step.ok, state |-> step.state]
After(run, b) == Continue(run.ok, DfaStep(run.state, b))

\* The DFA after each prefix of bytes, begun in s: whether it took every byte,
\* and its state, which a refused byte leaves as it was.
DfaRun(s, bytes) ==
    LET run[i \in 0 .. Len(bytes)] ==
          IF i = 0 THEN [ok |-> TRUE, state |-> s] ELSE After(run[i - 1], bytes[i])
    IN  run

\* It takes all the bytes and ends between two characters.
Complete(run) == run.ok /\ run.state.remaining = 0
Accepts(s, bytes) == Complete(DfaRun(s, bytes)[Len(bytes)])

ScalarDfa(bytes) == Accepts(Start, bytes)

\* Mutant: the tail starts afresh, whatever character straddles the last block.
BoundaryState_Fresh(bytes, bulk) == Start

\* The DFA state where the blocks end, from the last three bytes alone.
BoundaryState(bytes, bulk) ==
    LET last == SubSeq(bytes, IF bulk > 3 THEN bulk - 2 ELSE 1, bulk)
    IN  DfaRun(Start, last)[Len(last)].state

ValidateTail(bytes, bulk) ==
    Accepts(BoundaryState(bytes, bulk), SubSeq(bytes, bulk + 1, Len(bytes)))

\* Lane i of the vector shifted by k: a byte before the first one reads as zero.
Shifted(bytes, i, k) == IF i > k THEN bytes[i - k] ELSE 0

LaneOk(bytes, i) ==
    LET b == bytes[i]
        before == Shifted(bytes, i, 1)
        required == \/ before \in AnyLead
                    \/ Shifted(bytes, i, 2) \in Lead3 \cup Lead4
                    \/ Shifted(bytes, i, 3) \in Lead4
    IN  /\ IF required THEN b \in Cont ELSE b \in 0 .. 127 \/ b \in AnyLead
        /\ before \in {224, 237, 240, 244} => b \in SecondLo(before) .. SecondHi(before)

ValidateBlocks(bytes, bulk) == \A i \in 1 .. bulk : LaneOk(bytes, i)

Validate(bytes) ==
    LET bulk == Len(bytes) - (Len(bytes) % Block)
    IN  ValidateBlocks(bytes, bulk) /\ ValidateTail(bytes, bulk)

BytesToString(bytes) == IF Validate(bytes) THEN <<bytes>> ELSE <<>>
=============================================================================
