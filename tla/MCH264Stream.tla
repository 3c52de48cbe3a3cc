----------------------------- MODULE MCH264Stream -----------------------------
(***************************************************************************)
(* Instances of H264Stream for TLC.                                        *)
(***************************************************************************)
EXTENDS H264Stream

\* A stream that is supported, with picture order type 2.
Plain ==
    [sps |-> [level |-> 30, id |-> 0, log2 |-> 0, poc |-> 2, refs |-> 1, mbsOnly |-> 1,
              width |-> 2, height |-> 3, crop |-> <<>>],
     pps |-> [id |-> 0, spsId |-> 0, cabac |-> 0, l0 |-> 0, qp |-> 26, deblocking |-> 1],
     slice |-> [firstMb |-> 0, type |-> 7, ppsId |-> 0, frameNum |-> 0, idrId |-> 0,
                qpDelta |-> 0, disable |-> 0],
     pocLog2 |-> 0, pocLsb |-> 0, groups |-> 0, data |-> <<1, 0, 1>>]

\* Long runs of zeros, before and behind the end of the slice header.
Escaping ==
    [Plain EXCEPT !.sps.log2 = 12, !.slice.idrId = 65535, !.slice.type = 2,
                  !.pps.deblocking = 0, !.data = Zeros(30) \o <<1, 1>>]

\* Supported streams: each field away from zero.
Good ==
    { Plain, Escaping,
      [Escaping EXCEPT !.slice.idrId = 4095, !.slice.qpDelta = -3, !.pps.deblocking = 1],
      [Plain EXCEPT !.sps.id = 1, !.pps.spsId = 1, !.pps.id = 2, !.slice.ppsId = 2,
                    !.sps.width = 160, !.sps.height = 68, !.sps.refs = 4, !.pps.l0 = 3],
      [Plain EXCEPT !.pps.qp = 20, !.slice.qpDelta = 5, !.slice.disable = 1],
      [Plain EXCEPT !.pps.qp = 51, !.pps.deblocking = 0, !.slice.firstMb = 255],
      [Plain EXCEPT !.sps.poc = 0, !.pocLog2 = 2, !.pocLsb = 37, !.sps.crop = <<0, 3, 0, 4>>] }

\* Streams that are not: one reason each.
Bad ==
    { [Plain EXCEPT !.pps.cabac = 1], [Plain EXCEPT !.slice.type = 5],
      [Plain EXCEPT !.sps.mbsOnly = 0], [Plain EXCEPT !.sps.poc = 1],
      [Plain EXCEPT !.groups = 1] }

\* What encode_one_frame writes for a request.
Ours(w, h) ==
    [sps |-> EncodeSps(w, h), pps |-> EncodePps, slice |-> EncodeSlice,
     pocLog2 |-> 0, pocLsb |-> 0, groups |-> 0, data |-> <<1>>, request |-> <<w, h>>]

EvenSizes == {2 * k : k \in 1 .. 20} \cup {1080, 1920, 2560}
OurPictures == {Ours(w, h) : w \in EvenSizes, h \in EvenSizes}

\* Any order of any NAL units.
Orders ==
    [pictures |-> Good \cup Bad, kinds |-> {"sps", "pps", "idr", "sei", "empty"},
     written |-> 5, gaps |-> {0, 1}, framing |-> "annexb", cuts |-> {0}, pasts |-> {0}]

\* Streams that are cut off, with either of two values for what C leaves undefined.
CutOff ==
    [pictures |-> Good, kinds |-> {"sps", "pps", "idr"},
     written |-> 3, gaps |-> {0}, framing |-> "annexb", cuts |-> 0 .. 40, pasts |-> {0, 3}]

\* The headers of encode_one_frame.
Encoded ==
    [CutOff EXCEPT !.pictures = OurPictures, !.kinds = {"sps"}, !.written = 1,
                   !.cuts = {0}, !.pasts = {0}]

\* Streams framed as protocol.h describes a decode request.
Bare == [Orders EXCEPT !.pictures = Good, !.written = 2, !.framing = "bare"]

MCScenarios == [orders |-> Orders, cutOff |-> CutOff, encoded |-> Encoded, bare |-> Bare]

OurStream ==
    [encoded |-> [CutOff EXCEPT !.pictures = {Ours(1080, 1920)}, !.cuts = {0}, !.pasts = {0}]]
==============================================================================
