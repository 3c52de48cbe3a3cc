------------------------------- MODULE H264Bits -------------------------------
(***************************************************************************)
(* What the bit writer of daemon.c and the parser of decode_h264.c share.  *)
(***************************************************************************)
EXTENDS Integers, Sequences

\* 1u << k
Pow2[k \in Nat] == IF k = 0 THEN 1 ELSE 2 * Pow2[k - 1]

\* n bits that are 0.
Zeros(n) == [k \in 1 .. n |-> 0]

\* What bits say, the most significant first.
Number(bits) ==
    LET v[k \in 0 .. Len(bits)] == IF k = 0 THEN 0 ELSE 2 * v[k - 1] + bits[k]
    IN  v[Len(bits)]
==============================================================================
