------------------------------ MODULE H264Parser ------------------------------
(***************************************************************************)
(* The parser of tier5-vaapi-daemon/decode_h264.c: NAL units out of an     *)
(* Annex-B stream, emulation prevention bytes out of a NAL unit, and the   *)
(* fields of SPS, PPS and slice header out of its bits.                    *)
(*                                                                         *)
(* The loops of the source are stated by what they compute; positions of   *)
(* bits count from 0 as in the source, bytes are numbered from 1.          *)
(***************************************************************************)
EXTENDS Integers, Sequences, SequencesExt, H264Bits

CONSTANT
    MaxNals     \* the NAL units decode_h264_frame has room for (nals[8])

ASSUME ParserAssumption == MaxNals \in Nat

\* The members of S from 1 to n, in order.
Ascending(S, n) ==
    LET a[k \in 0 .. n] ==
            IF k = 0 THEN <<>> ELSE IF k \in S THEN Append(a[k - 1], k) ELSE a[k - 1]
    IN  a[n]

------------------------------------------------------------------------------
(* Bytes.                                                                  *)

StartCodes(buf) == {i \in 1 .. Len(buf) - 2 : buf[i] = 0 /\ buf[i + 1] = 0 /\ buf[i + 2] = 1}

\* The trailing zeros of a NAL unit belong to the next start code.
Trim(b) ==
    LET kept == {i \in 1 .. Len(b) : b[i] # 0}
    IN  IF kept = {} THEN <<>> ELSE SubSeq(b, 1, Max(kept))

\* From behind a start code up to the next, or up to the end.
NalAt(buf, sc) ==
    LET later == {i \in StartCodes(buf) : i > sc}
    IN  Trim(SubSeq(buf, sc + 3, IF later = {} THEN Len(buf) ELSE Min(later) - 1))

\* Behind every start code there is a NAL unit, which may be empty.
AllNals(buf) ==
    LET starts == Ascending(StartCodes(buf), Len(buf))
    IN  [k \in DOMAIN starts |-> NalAt(buf, starts[k])]

NonEmpty(nals) ==
    LET full == Ascending({k \in DOMAIN nals : nals[k] # <<>>}, Len(nals))
    IN  [k \in DOMAIN full |-> nals[full[k]]]

FirstNals(nals) == SubSeq(nals, 1, IF Len(nals) < MaxNals THEN Len(nals) ELSE MaxNals)

\* NalUnit: what the header byte says, and the rest.
Nals(found) ==
    [k \in DOMAIN found |->
        [type |-> found[k][1] % 32, ref |-> (found[k][1] \div 32) % 4, data |-> Tail(found[k])]]

\* Fault: an empty NAL unit takes one of the places.
ExtractNalsCountsEmpty(buf) == Nals(NonEmpty(FirstNals(AllNals(buf))))

\* Fault: there is no limit.
ExtractNalsAll(buf) == Nals(NonEmpty(AllNals(buf)))

\* extract_nals: the first MaxNals that are not empty.
ExtractNals(buf) == Nals(FirstNals(NonEmpty(AllNals(buf))))

\* An emulation prevention byte: a 3 behind two zeros.  A 3 that is taken out is no
\* zero, so no run of zeros goes across one.
Emulation(d) == {i \in 3 .. Len(d) : d[i] = 3 /\ d[i - 1] = 0 /\ d[i - 2] = 0}

\* The numbers of the other bytes, in order.
Kept(d) == Ascending((1 .. Len(d)) \ Emulation(d), Len(d))

Deescape(d) == LET kept == Kept(d) IN [k \in 1 .. Len(kept) |-> d[kept[k]]]

\* Fault: as if there were no emulation prevention bytes.
EscapedBitOffsetUnescaped(d, bits) == IF bits < 8 * Len(d) THEN bits ELSE 8 * Len(d)

\* Fault: nobody stops at the end of d.
EscapedBitOffsetPastEnd(d, bits) ==
    LET passed == Cardinality({e \in Emulation(d) : 8 * e <= bits}) IN bits + 8 * passed

\* escaped_bit_offset: where in d the bit behind the first bits of Deescape(d) is.
\* Behind a whole byte it is the bit that follows that byte, and the end of d when
\* there are fewer bits (or none are asked for).
EscapedBitOffset(d, bits) ==
    LET whole == bits \div 8   rest == bits % 8   kept == Kept(d)
    IN  IF rest = 0 /\ whole \in 1 .. Len(kept) THEN 8 * kept[whole]
        ELSE IF rest # 0 /\ whole < Len(kept) THEN 8 * (kept[whole + 1] - 1) + rest
        ELSE 8 * Len(d)

------------------------------------------------------------------------------
(* Bits: br is [buf, past], bytes and the value of an undefined shift.     *)

\* br_bit: zeros behind the end.
BitAt(br, pos) ==
    IF pos < 8 * Len(br.buf) THEN (br.buf[pos \div 8 + 1] \div Pow2[7 - (pos % 8)]) % 2 ELSE 0

\* br_bits
Value(br, pos, n) == Number([k \in 1 .. n |-> BitAt(br, pos + k - 1)])

\* The zeros in front of an Exp-Golomb code, at most 32.
LeadingZeros(br, pos) ==
    Min({z \in 0 .. 32 : z = 32 \/ BitAt(br, pos + z) = 1})

\* br_ue.  32 zeros are found behind the end only; 1u << 32 is undefined.
UeAt(br, pos) ==
    LET z == LeadingZeros(br, pos)
    IN  IF z = 32 THEN br.past ELSE Pow2[z] - 1 + Value(br, pos + z + 1, z)

\* br_se
SignedOf(code) == IF code % 2 = 1 THEN (code + 1) \div 2 ELSE -((code + 1) \div 2)

\* A field: n bits, or an Exp-Golomb code.
U(n) == [kind |-> "u", n |-> n]
Ue   == [kind |-> "ue", n |-> 0]
Se   == [kind |-> "se", n |-> 0]

\* The values of the fields from pos on, and where they end.
Read(br, pos, fields) ==
    LET r[i \in 0 .. Len(fields)] ==
            IF i = 0 THEN [pos |-> pos, val |-> <<>>]
            ELSE LET old == r[i - 1]   f == fields[i]
                 IN  IF f.kind = "u"
                     THEN [pos |-> old.pos + f.n, val |-> Append(old.val, Value(br, old.pos, f.n))]
                     ELSE LET u == UeAt(br, old.pos)
                          IN  [pos |-> old.pos + 2 * LeadingZeros(br, old.pos) + 1,
                               val |-> Append(old.val, IF f.kind = "ue" THEN u ELSE SignedOf(u))]
    IN  r[Len(fields)]

------------------------------------------------------------------------------
(* The headers.  "no" is a header that this decoder does not take.         *)

No == [ok |-> FALSE]

\* Fault: interlaced streams are taken.
ParseSpsInterlaced(br) ==
    LET a == Read(br, 0, <<U(8), U(8), U(8), Ue, Ue, Ue>>)
        b == Read(br, a.pos, IF a.val[6] = 0 THEN <<Ue>> ELSE <<>>)
        c == Read(br, b.pos, <<Ue, U(1), Ue, Ue, U(1)>>)
    IN  IF a.val[6] = 1 THEN No
        ELSE [ok |-> TRUE, id |-> a.val[4], log2 |-> a.val[5], poc |-> a.val[6],
              pocLog2 |-> IF a.val[6] = 0 THEN b.val[1] ELSE 0,
              refs |-> c.val[1], width |-> c.val[3] + 1, height |-> c.val[4] + 1]

\* parse_sps
ParseSps(br) ==
    LET a == Read(br, 0, <<U(8), U(8), U(8), Ue, Ue, Ue>>)
        b == Read(br, a.pos, IF a.val[6] = 0 THEN <<Ue>> ELSE <<>>)
        c == Read(br, b.pos, <<Ue, U(1), Ue, Ue, U(1)>>)
    IN  IF a.val[6] = 1 \/ c.val[5] = 0 THEN No
        ELSE [ok |-> TRUE, id |-> a.val[4], log2 |-> a.val[5], poc |-> a.val[6],
              pocLog2 |-> IF a.val[6] = 0 THEN b.val[1] ELSE 0,
              refs |-> c.val[1], width |-> c.val[3] + 1, height |-> c.val[4] + 1]

\* parse_pps
ParsePps(br) ==
    LET a == Read(br, 0, <<Ue, Ue, U(1), U(1), Ue>>)
        b == Read(br, a.pos, <<Ue, Ue, U(1), U(2), Se, Se, Se, U(1), U(1), U(1)>>)
    IN  IF a.val[5] # 0 THEN No
        ELSE [ok |-> TRUE, id |-> a.val[1], spsId |-> a.val[2], cabac |-> a.val[3],
              l0 |-> b.val[1], qp |-> b.val[5] + 26, deblocking |-> b.val[8]]

\* parse_slice_header of an IDR slice, the only ones decode_h264_frame keeps.
ParseSliceHeader(br, ref, sps, pps) ==
    LET a == Read(br, 0, <<Ue, Ue, Ue, U(sps.log2 + 4), Ue>>
                         \o (IF sps.poc = 0 THEN <<U(sps.pocLog2 + 4)>> ELSE <<>>))
        b == Read(br, a.pos, (IF ref # 0 THEN <<U(1), U(1)>> ELSE <<>>) \o <<Se>>)
        c == Read(br, b.pos, IF pps.deblocking = 1 THEN <<Ue>> ELSE <<>>)
        d == Read(br, c.pos, IF c.val \in {<<>>, <<1>>} THEN <<>> ELSE <<Se, Se>>)
    IN  IF a.val[2] % 5 \notin {2, 4} \/ pps.cabac = 1 THEN No
        ELSE [ok |-> TRUE, firstMb |-> a.val[1], type |-> a.val[2] % 5, frameNum |-> a.val[4],
              pocLsb |-> IF sps.poc = 0 THEN a.val[6] ELSE 0,
              qpDelta |-> Last(b.val), bits |-> d.pos]
==============================================================================
