----------------------------- MODULE Q4Calibration -----------------------------
(***************************************************************************)
(* Q4_0 with a search for scales against observed activations              *)
(* (quantize_q4_0 and quantize_q4_0_activation_aware in                    *)
(* scripts/objects/gguf_schema.py), for one output row and one token.      *)
(*                                                                         *)
(* A block is stored as one scale and a four-bit code for each weight, two *)
(* codes to a byte: the second half of the block in the high bits of the   *)
(* first half's bytes.  Numbers are exact: weights and activations are     *)
(* integers, a scale multiplier counts eighths, and errors are counted in  *)
(* 64ths, so that no scale is rounded (the code rounds it to F16).         *)
(***************************************************************************)
EXTENDS Integers, Sequences

CONSTANTS
    Weights,      \* the values a weight may have
    Activations,  \* the values a feature of the sample may have
    Half,         \* half the length of a block (16 in the code)
    Blocks,       \* the number of blocks in the row
    Multipliers   \* a sequence of eighths, as in scale_multipliers

VARIABLES
    w, x,       \* the row and the sample: block -> element -> value
    block,      \* the block the search is at; Blocks + 1 at its end
    multiplier, \* block -> the multiplier chosen, 8 before
    codes,      \* block -> the codes chosen, as bytes
    residual    \* the projected error of the row so far, in 64ths

vars == <<w, x, block, multiplier, codes, residual>>

Size == 2 * Half
Row  == [1..Blocks -> [1..Size -> Weights]]

Abs(n) == IF n < 0 THEN -n ELSE n

\* The weight with the largest absolute value, the first of them.
MaxValue(b) ==
    b[CHOOSE i \in 1..Size : /\ \A j \in 1..Size : Abs(b[j]) <= Abs(b[i])
                             /\ \A j \in 1..(i - 1) : Abs(b[j]) < Abs(b[i])]

\* np.trunc of a quotient.
Trunc(n, d) == IF (n < 0) = (d < 0) THEN Abs(n) \div Abs(d) ELSE -(Abs(n) \div Abs(d))

\* trunc(v / scale + 8.5), at most 15, for scale = max * m / -64; 8 where the
\* scale is zero.
Code(v, max, m) ==
    LET q == IF max = 0 THEN 8 ELSE Trunc(17 * max * m - 128 * v, 2 * max * m)
    IN IF q > 15 THEN 15 ELSE q

\* .astype(np.uint8)
Byte(q) == q % 256

\* scale * (code - 8) - weight, in 64ths.
Error(code, v, max, m) == -(max * m) * (code - 8) - 64 * v

\* quantize_q4_0: the scale of the largest weight.
Standard(b) == [i \in 1..Size |-> Byte(Code(b[i], MaxValue(b), 8))]

Sum(f) == LET sum[i \in 0..Size] == IF i = 0 THEN 0 ELSE sum[i - 1] + f[i] IN sum[Size]

\* The projection of a block's error on the sample.
Projection(cs, b, xs, m) == Sum([i \in 1..Size |-> Error(cs[i], b[i], MaxValue(b), m) * xs[i]])

Total(f) == LET sum[i \in 0..Blocks] == IF i = 0 THEN 0 ELSE sum[i - 1] + f[i] IN sum[Blocks]

Init ==
    /\ w \in Row
    /\ x \in [1..Blocks -> [1..Size -> Activations]]
    /\ block = 1
    /\ multiplier = [k \in 1..Blocks |-> 8]
    /\ codes = [k \in 1..Blocks |-> Standard(w[k])]
    /\ residual = Total([k \in 1..Blocks |-> Projection(Standard(w[k]), w[k], x[k], 8)])

\* One block of the coordinate descent: of the candidates with the least cost
\* the first one replaces the block's codes and scale.
Search ==
    LET b == w[block]
        rest == residual - Projection(codes[block], b, x[block], multiplier[block])
        candidate(c) == [i \in 1..Size |-> Byte(Code(b[i], MaxValue(b), Multipliers[c]))]
        after(c) == rest + Projection(candidate(c), b, x[block], Multipliers[c])
        best == CHOOSE c \in 1..Len(Multipliers) :
                    /\ \A d \in 1..Len(Multipliers) : Abs(after(c)) <= Abs(after(d))
                    /\ \A d \in 1..(c - 1) : Abs(after(c)) < Abs(after(d))
    IN
    /\ block <= Blocks
    /\ codes' = [codes EXCEPT ![block] = candidate(best)]
    /\ multiplier' = [multiplier EXCEPT ![block] = Multipliers[best]]
    /\ residual' = after(best)
    /\ block' = block + 1
    /\ UNCHANGED <<w, x>>

Next == Search
Spec == Init /\ [][Next]_vars

-----------------------------------------------------------------------------
(* The bytes written and what the runtime reads from them                  *)

Bit(n, i) == (n \div 2^i) % 2
Or(a, b) == LET bit(i) == IF Bit(a, i) + Bit(b, i) > 0 THEN 2^i ELSE 0
            IN bit(0) + bit(1) + bit(2) + bit(3) + bit(4) + bit(5) + bit(6) + bit(7)

\* quants[:16] | (quants[16:] << 4), in bytes.
Packed(cs) == [i \in 1..Half |-> Or(cs[i], (cs[i + Half] * 16) % 256)]

Decoded(bytes) == [i \in 1..Size |-> IF i <= Half THEN bytes[i] % 16
                                     ELSE bytes[i - Half] \div 16]

\* The residual that the search maintains is the error of the bytes it returns:
\* the scales it tries are legal, and the block's layout is that of Q4_0.
ResidualIsOfTheBytes ==
    block > Blocks =>
        residual = Total([k \in 1..Blocks |->
            Projection(Decoded(Packed(codes[k])), w[k], x[k], multiplier[k])])

\* The codes of quantize_q4_0 fit into four bits.
StandardFits == \A k \in 1..Blocks : \A i \in 1..Size : Standard(w[k])[i] \in 0..15

=============================================================================
