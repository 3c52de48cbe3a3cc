------------------------------ MODULE H264Writer ------------------------------
(***************************************************************************)
(* The bit writer of tier5-vaapi-daemon/daemon.c and the three headers it  *)
(* writes: SPS, PPS and the header of an IDR slice, as sequences of bits.  *)
(* The capacity of the buffer is left out: no header comes near its 256    *)
(* bytes.                                                                  *)
(***************************************************************************)
EXTENDS Integers, Sequences, H264Bits

\* v in n bits, the most significant first.
PutBits(v, n) == [i \in 1 .. n |-> (v \div Pow2[n - i]) % 2]

\* The number of bits of v > 0.
Width(v) == CHOOSE k \in 1 .. 31 : Pow2[k - 1] <= v /\ v \div 2 < Pow2[k - 1]

\* The numbers that are coded, unsigned and signed: no field of a header comes near
\* 31 bits.
Codes == {v \in Nat : v <= 2147483646}
SignedCodes == {v \in Int : 0 - 1073741823 <= v /\ v <= 1073741823}

\* Exp-Golomb codes, unsigned and signed.
PutUe(v) == Zeros(Width(v + 1) - 1) \o PutBits(v + 1, Width(v + 1))
PutSe(v) == PutUe(IF v <= 0 THEN -2 * v ELSE 2 * v - 1)

\* The stop bit, and zeros up to the next byte.
TrailingBits(bits) == bits \o <<1>> \o Zeros(7 - (Len(bits) % 8))

StartCodeAndNalHeader(ref, type) == PutBits(1, 24) \o <<0>> \o PutBits(ref, 2) \o PutBits(type, 5)

------------------------------------------------------------------------------
(* The headers, in two parts where other encoders write more between them. *)

SpsHead(s) ==
    StartCodeAndNalHeader(3, 7) \o PutBits(66, 8) \o <<1, 1, 0, 0>> \o Zeros(4)
    \o PutBits(s.level, 8) \o PutUe(s.id) \o PutUe(s.log2) \o PutUe(s.poc)

SpsTail(s) ==
    PutUe(s.refs) \o <<0>> \o PutUe(s.width - 1) \o PutUe(s.height - 1)
    \o <<s.mbsOnly, 1, IF s.crop = <<>> THEN 0 ELSE 1>>
    \o (IF s.crop = <<>> THEN <<>>
        ELSE PutUe(s.crop[1]) \o PutUe(s.crop[2]) \o PutUe(s.crop[3]) \o PutUe(s.crop[4]))
    \o <<0>>

BuildSps(s) == TrailingBits(SpsHead(s) \o SpsTail(s))

PpsHead(p) == StartCodeAndNalHeader(3, 8) \o PutUe(p.id) \o PutUe(p.spsId) \o <<p.cabac, 0>>

PpsTail(p) ==
    PutUe(p.l0) \o PutUe(0) \o <<0>> \o Zeros(2)
    \o PutSe(p.qp - 26) \o PutSe(0) \o PutSe(0) \o <<p.deblocking, 0, 0>>

BuildPps(p) == TrailingBits(PpsHead(p) \o PutUe(0) \o PpsTail(p))

\* Up to idr_pic_id; the rest follows what is written for the picture order.
SliceHead(s, h) ==
    StartCodeAndNalHeader(3, 5) \o PutUe(h.firstMb) \o PutUe(h.type) \o PutUe(h.ppsId)
    \o PutBits(h.frameNum, s.log2 + 4) \o PutUe(h.idrId)

SliceTail(p, h) ==
    Zeros(2) \o PutSe(h.qpDelta)
    \o (IF p.deblocking = 0 THEN <<>>
        ELSE PutUe(h.disable) \o IF h.disable = 1 THEN <<>> ELSE PutSe(0) \o PutSe(0))

\* No stop bit: the driver goes on with the data of the slice.
BuildSliceHeader(s, p, h) == SliceHead(s, h) \o SliceTail(p, h)

------------------------------------------------------------------------------
(* What encode_one_frame puts into the headers of a w x h picture.         *)

Mbs(v) == (v + 15) \div 16

\* Fault: the crop is given in pixels; its unit is two of them.
EncodeSpsCropsPixels(w, h) ==
    [level |-> 30, id |-> 0, log2 |-> 0, poc |-> 2, refs |-> 1, mbsOnly |-> 1,
     width |-> Mbs(w), height |-> Mbs(h),
     crop |-> IF w = 16 * Mbs(w) /\ h = 16 * Mbs(h) THEN <<>>
              ELSE <<0, 16 * Mbs(w) - w, 0, 16 * Mbs(h) - h>>]

EncodeSps(w, h) ==
    [level |-> 30, id |-> 0, log2 |-> 0, poc |-> 2, refs |-> 1, mbsOnly |-> 1,
     width |-> Mbs(w), height |-> Mbs(h),
     crop |-> IF w = 16 * Mbs(w) /\ h = 16 * Mbs(h) THEN <<>>
              ELSE <<0, (16 * Mbs(w) - w) \div 2, 0, (16 * Mbs(h) - h) \div 2>>]

EncodePps == [id |-> 0, spsId |-> 0, cabac |-> 1, l0 |-> 0, qp |-> 26, deblocking |-> 1]

EncodeSlice ==
    [firstMb |-> 0, type |-> 2, ppsId |-> 0, frameNum |-> 0, idrId |-> 0, qpDelta |-> 0,
     disable |-> 0]
==============================================================================
