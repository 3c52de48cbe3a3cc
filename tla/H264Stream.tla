------------------------------ MODULE H264Stream ------------------------------
(***************************************************************************)
(* A decode request from the encoder that writes its stream to the VA-API  *)
(* parameters that decode_h264_frame takes from it.  The headers are       *)
(* written with the writer of daemon.c (H264Writer) or, where a stream has *)
(* fields which that one never writes, by another encoder; the driver adds *)
(* the slice's data and the emulation prevention bytes.  The stream is     *)
(* split and parsed by decode_h264.c (H264Parser), one NAL unit a step.    *)
(***************************************************************************)
EXTENDS H264Writer, H264Parser, FiniteSets

CONSTANT
    Scenarios   \* a record of named inputs to take the requests from, each with
                \*   pictures  what is encoded: records with the fields of the headers
                \*   kinds     NAL units: "sps", "pps", "idr", "sei", "empty"
                \*   written   bound: NAL units in a stream
                \*   gaps      zero bytes before a start code: 1 makes it four long
                \*   framing   "annexb", or "bare": NAL units without start codes
                \*   cuts      bytes that may be missing at the end of a stream
                \*   pasts     what br_ue may give behind the end of the data

\* Fields have the width that they are written in.
SpsFields(s) ==
    /\ s.level \in 0 .. 255 /\ s.mbsOnly \in {0, 1}
    /\ {s.id, s.poc, s.refs, s.width - 1, s.height - 1} \subseteq Codes
    /\ s.log2 \in 0 .. 12 /\ s.width \in Nat /\ s.height \in Nat
    /\ s.crop \in Seq(Codes) /\ Len(s.crop) \in {0, 4}
PpsFields(p) ==
    /\ p.cabac \in {0, 1} /\ p.deblocking \in {0, 1}
    /\ {p.id, p.spsId, p.l0} \subseteq Codes /\ p.qp \in Int /\ p.qp - 26 \in SignedCodes
SliceFields(s, h) ==
    /\ {h.firstMb, h.type, h.ppsId, h.idrId, h.disable} \subseteq Codes
    /\ h.qpDelta \in SignedCodes
    /\ h.frameNum \in Nat /\ h.frameNum < Pow2[s.log2 + 4]
PictureFields(p) ==
    /\ SpsFields(p.sps) /\ PpsFields(p.pps) /\ SliceFields(p.sps, p.slice)
    /\ p.pocLog2 \in 0 .. 12 /\ p.groups \in Codes
    /\ p.pocLsb \in Nat /\ p.pocLsb < Pow2[p.pocLog2 + 4]
    /\ p.data \in Seq({0, 1})

ASSUME ScenariosAssumption ==
    \A s \in DOMAIN Scenarios :
        /\ \A p \in Scenarios[s].pictures : PictureFields(p)
        /\ Scenarios[s].written \in Nat /\ Scenarios[s].framing \in {"annexb", "bare"}
        /\ Scenarios[s].gaps \subseteq Nat /\ Scenarios[s].cuts \subseteq Nat
        /\ Scenarios[s].pasts \subseteq Nat

\* VaapiEncComponent: the sizes a client may ask the encoder for, in steps of 2.
Sizes == {n \in Nat : 2 <= n /\ n <= 2560 /\ n % 2 = 0}

\* A picture with a request is one of our own: encode_one_frame writes its SPS.
ASSUME RequestsAssumption ==
    \A s \in DOMAIN Scenarios : \A p \in Scenarios[s].pictures :
        "request" \in DOMAIN p =>
            /\ p.request[1] \in Sizes /\ p.request[2] \in Sizes
            /\ p.sps = EncodeSps(p.request[1], p.request[2])

VARIABLES
    scenario,   \* where the request comes from
    pic,        \* what is encoded
    gap, past,
    written,    \* the NAL units of the stream
    stream,     \* its bytes
    cut,        \* how many are missing
    pc,         \* the next stage of decode_h264_frame
    nals, i,    \* its NAL units, and the one it looks at
    sps, pps, idr, slice,   \* what it has parsed; the number of its IDR slice
    offset      \* slice_data_bit_offset

input == <<scenario, pic, gap, past>>
vars  == <<input, written, stream, cut, pc, nals, i, sps, pps, idr, slice, offset>>

\* What the scenario gives.
Given == Scenarios[scenario]

Init ==
    /\ scenario \in DOMAIN Scenarios
    /\ pic \in Given.pictures /\ gap \in Given.gaps /\ past \in Given.pasts
    /\ written = <<>> /\ stream = <<>> /\ cut = 0
    /\ pc = "write" /\ nals = <<>> /\ i = 1
    /\ sps = No /\ pps = No /\ idr = 0 /\ slice = No /\ offset = 0

------------------------------------------------------------------------------
(* The encoder and its driver.                                             *)

\* The fields our writer has no use for: picture order types 0 and 1, and slice
\* groups.
PocFields ==
    CASE pic.sps.poc = 0 -> PutUe(pic.pocLog2)
      [] pic.sps.poc = 1 -> <<0>> \o PutSe(0) \o PutSe(0) \o PutUe(0)
      [] OTHER -> <<>>
SliceGroups == IF pic.groups = 0 THEN PutUe(0) ELSE PutUe(pic.groups) \o PutUe(0)
PocLsb == IF pic.sps.poc = 0 THEN PutBits(pic.pocLsb, pic.pocLog2 + 4) ELSE <<>>

\* For picture order type 2 and no slice groups this is BuildSps, BuildPps and
\* BuildSliceHeader.
SpsBits == IF pic.sps.poc = 2 THEN BuildSps(pic.sps)
           ELSE TrailingBits(SpsHead(pic.sps) \o PocFields \o SpsTail(pic.sps))
PpsBits == IF pic.groups = 0 THEN BuildPps(pic.pps)
           ELSE TrailingBits(PpsHead(pic.pps) \o SliceGroups \o PpsTail(pic.pps))
SliceBits == IF pic.sps.poc = 2 THEN BuildSliceHeader(pic.sps, pic.pps, pic.slice)
             ELSE SliceHead(pic.sps, pic.slice) \o PocLsb \o SliceTail(pic.pps, pic.slice)

\* The bytes behind the start code.
Bytes(bits) ==
    [k \in 1 .. Len(bits) \div 8 - 3 |-> Number([j \in 1 .. 8 |-> bits[8 * (k + 2) + j]])]

\* A 3 before every byte up to 3 that follows two zeros.
Escape(b) ==
    LET e[k \in 0 .. Len(b)] ==
            IF k = 0 THEN <<>>
            ELSE LET old == e[k - 1]   n == Len(old)
                 IN  IF b[k] <= 3 /\ n >= 2 /\ old[n] = 0 /\ old[n - 1] = 0
                     THEN old \o <<3, b[k]>> ELSE Append(old, b[k])
    IN  e[Len(b)]

\* A NAL unit as it is in the stream, its header byte first.
NalUnit(kind) ==
    CASE kind = "sps" -> Escape(Bytes(SpsBits))
      [] kind = "pps" -> Escape(Bytes(PpsBits))
      [] kind = "idr" -> Escape(Bytes(TrailingBits(SliceBits \o pic.data)))
      [] kind = "sei" -> <<6, 5, 1, 0, 128>>
      [] OTHER -> <<>>

StartCode == IF Given.framing = "bare" THEN <<>> ELSE Zeros(gap) \o <<0, 0, 1>>

Emit(kind) ==
    /\ pc = "write" /\ Len(written) < Given.written
    /\ written' = Append(written, NalUnit(kind))
    /\ stream' = stream \o StartCode \o NalUnit(kind)
    /\ UNCHANGED <<input, cut, pc, nals, i, sps, pps, idr, slice, offset>>

\* The request is sent, c bytes short.
Request(c) ==
    /\ pc = "write" /\ stream # <<>> /\ c < Len(stream)
    /\ stream' = SubSeq(stream, 1, Len(stream) - c) /\ cut' = c
    /\ pc' = "split"
    /\ UNCHANGED <<input, written, nals, i, sps, pps, idr, slice, offset>>

------------------------------------------------------------------------------
(* decode_h264_frame, up to decode_ensure_resolution.                      *)

Split ==
    /\ pc = "split" /\ pc' = "scan"
    /\ nals' = ExtractNals(stream)
    /\ UNCHANGED <<input, written, stream, cut, i, sps, pps, idr, slice, offset>>

Found == sps.ok /\ pps.ok /\ idr # 0

\* The loop over the NAL units is at one of this type.
At(type) ==
    /\ pc = "scan" /\ i <= Len(nals) /\ ~Found
    /\ nals[i].type = type
    /\ i' = i + 1
    /\ UNCHANGED <<input, written, stream, cut, nals, slice, offset>>

\* What the parser of headers is given.
Rbsp(k) == [buf |-> Deescape(nals[k].data), past |-> past]

\* The first SPS; the request is over if it is not supported.
ScanSps ==
    /\ At(7)
    /\ sps' = IF sps.ok THEN sps ELSE ParseSps(Rbsp(i))
    /\ pc' = IF sps'.ok THEN "scan" ELSE "rejected"
    /\ UNCHANGED <<pps, idr>>

ScanPps ==
    /\ At(8)
    /\ pps' = IF pps.ok THEN pps ELSE ParsePps(Rbsp(i))
    /\ pc' = IF pps'.ok THEN "scan" ELSE "rejected"
    /\ UNCHANGED <<sps, idr>>

\* Fault: an IDR slice counts only when its parameter sets came before it.
ScanIdrInOrder ==
    /\ At(5)
    /\ idr' = IF idr # 0 \/ ~sps.ok \/ ~pps.ok THEN idr ELSE i
    /\ UNCHANGED <<sps, pps, pc>>

ScanIdr ==
    /\ At(5)
    /\ idr' = IF idr # 0 THEN idr ELSE i
    /\ UNCHANGED <<sps, pps, pc>>

ScanOther ==
    /\ \E type \in (0 .. 31) \ {5, 7, 8} : At(type)
    /\ UNCHANGED <<sps, pps, idr, pc>>

\* The loop ends; all three must be there.
EndScan ==
    /\ pc = "scan" /\ (i > Len(nals) \/ Found)
    /\ pc' = IF Found THEN "slice" ELSE "rejected"
    /\ UNCHANGED <<input, written, stream, cut, nals, i, sps, pps, idr, slice, offset>>

\* The slice header, and where the data behind it starts in the NAL unit as it is in
\* the stream, from the header byte on; VA-API takes 16 bits of that.
Slice ==
    /\ pc = "slice"
    /\ slice' = ParseSliceHeader(Rbsp(idr), nals[idr].ref, sps, pps)
    /\ IF slice'.ok
       THEN /\ offset' = (8 + EscapedBitOffset(nals[idr].data, slice'.bits)) % Pow2[16]
            /\ pc' = "accepted"
       ELSE pc' = "rejected" /\ UNCHANGED offset
    /\ UNCHANGED <<input, written, stream, cut, nals, i, sps, pps, idr>>

Next ==
    \/ \E kind \in Given.kinds : Emit(kind)
    \/ \E c \in Given.cuts : Request(c)
    \/ Split \/ ScanSps \/ ScanPps \/ ScanIdr \/ ScanOther \/ EndScan \/ Slice

Spec == Init /\ [][Next]_vars

------------------------------------------------------------------------------
(* Properties                                                              *)

\* Every variable keeps its type: bytes are bytes, bits are bits.
TypeOK ==
    /\ pc \in {"write", "split", "scan", "slice", "accepted", "rejected"}
    /\ \A k \in DOMAIN stream : stream[k] \in 0 .. 255
    /\ Len(nals) <= MaxNals /\ i \in 1 .. MaxNals + 1 /\ idr \in 0 .. Len(nals)
    /\ \A k \in DOMAIN nals : nals[k].type \in 0 .. 31 /\ nals[k].ref \in 0 .. 3
    /\ offset \in 0 .. Pow2[16] - 1

\* The NAL units with something in them, as many as there is room for.
Taken == FirstNals(NonEmpty(written))

\* extract_nals gives back the NAL units of an Annex-B stream, byte for byte, with
\* start codes of three or four bytes, whatever their payload looks like; and what
\* protocol.h asks a client for, a NAL unit with its "start code excluded", has none.
SplitsAsWritten ==
    /\ Given.framing = "bare" => nals = <<>> /\ pc # "accepted"
    /\ pc \notin {"write", "split"} /\ cut = 0 /\ Given.framing = "annexb" =>
        /\ Len(nals) = Len(Taken)
        /\ \A k \in DOMAIN nals :
             /\ nals[k].data = Tail(Taken[k])
             /\ nals[k].type = Taken[k][1] % 32 /\ nals[k].ref = Taken[k][1] \div 32

\* decode_h264.h: what this decoder is for.
Supported ==
    /\ pic.sps.poc # 1 /\ pic.sps.mbsOnly = 1 /\ pic.groups = 0
    /\ pic.slice.type % 5 \in {2, 4} /\ pic.pps.cabac = 0
Complete == {5, 7, 8} \subseteq {Taken[k][1] % 32 : k \in DOMAIN Taken}

\* An SPS, a PPS and an IDR slice "in any order" are taken if, and only if, the
\* decoder supports what they say.
TakenIfSupported ==
    cut = 0 /\ Given.framing = "annexb" =>
        /\ pc = "accepted" => Supported /\ Complete
        /\ pc = "rejected" => ~(Supported /\ Complete)

\* "The mirror image of the bit writer": what was written into the three headers is
\* what VA-API is given, at any alignment and with any emulation prevention bytes.
\* Of a stream that is cut off at least the SPS is: its frame_mbs_only_flag is read
\* last, and where that is missing zeros are read and the request is rejected.
HeadersReadBack ==
    pc = "accepted" =>
        /\ \A f \in {"id", "log2", "poc", "refs", "width", "height"} : sps[f] = pic.sps[f]
        /\ cut = 0 =>
             /\ \A f \in {"id", "spsId", "cabac", "l0", "qp", "deblocking"} : pps[f] = pic.pps[f]
             /\ \A f \in {"firstMb", "frameNum", "qpDelta"} : slice[f] = pic.slice[f]
             /\ slice.type = pic.slice.type % 5
             /\ sps.poc = 0 => sps.pocLog2 = pic.pocLog2 /\ slice.pocLsb = pic.pocLsb

\* slice_data_bit_offset is "the corresponding bit position in the ORIGINAL bytes":
\* what is before it, emulation prevention bytes taken out, is the NAL header and
\* the slice header and nothing more, and it is not inside such a byte.  However
\* short the stream is, the driver is never pointed behind its slice.
SliceDataFound ==
    pc = "accepted" =>
        LET nal == NalUnit("idr")   whole == offset \div 8
        IN  /\ offset <= 8 * (Len(nals[idr].data) + 1)
            /\ cut = 0 =>
                 /\ 8 * Len(Deescape(SubSeq(nal, 1, whole))) + (offset % 8) = Len(SliceBits) - 24
                 /\ offset % 8 # 0 => whole + 1 \notin Emulation(nal)

\* encode_one_frame: the SPS, read as H.264 says, crops the macroblocks to the size
\* of the request.
CropsToRequest ==
    pc = "scan" /\ i = 1 /\ cut = 0 /\ "request" \in DOMAIN pic =>
        \A k \in DOMAIN nals : nals[k].type = 7 =>
            LET br == Rbsp(k)
                a == Read(br, 0, <<U(8), U(8), U(8), Ue, Ue, Ue, Ue, U(1), Ue, Ue, U(1), U(1), U(1)>>)
                c == Read(br, a.pos, IF a.val[13] = 1 THEN <<Ue, Ue, Ue, Ue>> ELSE <<>>)
                Cropped(mbs, first) ==
                    16 * (mbs + 1) - IF c.val = <<>> THEN 0 ELSE 2 * (c.val[first] + c.val[first + 1])
            IN  /\ Cropped(a.val[9], 1) = pic.request[1]
                /\ Cropped(a.val[10], 3) = pic.request[2]

\* VaapiEncComponent.h: "Constrained Baseline / Level 3 matches exactly what the
\* daemon actually encodes with"; that profile has no CABAC.
EncodesConstrainedBaseline == sps.ok /\ pps.ok => pps.cabac = 0
==============================================================================
