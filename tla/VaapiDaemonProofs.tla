------------------------- MODULE VaapiDaemonProofs -------------------------
(***************************************************************************)
(* The properties of VaapiDaemon, for any number of connections and any    *)
(* values of the bounds: safety from the inductive invariant IInv, that    *)
(* nobody waits in a circle from WaitingInv beside it, and that every step *)
(* is progress.  Then those of CodecSystem, the daemon with a component    *)
(* for one of its clients.                                                 *)
(***************************************************************************)
EXTENDS CodecSystem, FiniteSetTheorems, TLAPS

------------------------------------------------------------------------------
(* Facts about a state that satisfies IInv.                                *)

\* While a connection is served, cur is that connection and its end is open.
LEMMA ServedConnection ==
  ASSUME TypeOK, ServingInv, Serving
  PROVE  cur \in Conns /\ sock[cur] = "open"
  BY DEF TypeOK, ServingInv

\* The streams hold numbers, and every request has at least one item.
LEMMA StreamTypes ==
  ASSUME TypeOK, NEW c \in Conns
  PROVE  /\ sent[c] \in Nat /\ taken[c] \in Nat /\ read[c] \in Nat
         /\ Total(c) \in Nat /\ Total(c) >= 1
         /\ kind[c] # "untagged" => Total(c) >= 2
         /\ Len(body[c]) \in Nat
         /\ kind[c] \in AllKinds
  <1>1. bits[c] \in Nat
    <2>1. MaxBits + 1 \in Nat BY BoundsAssumption
    <2> QED BY <2>1 DEF TypeOK
  <1>2. body[c] \in Seq(Conns) BY DEF TypeOK
  <1>3. kind[c] \in AllKinds BY KindsAssumption DEF TypeOK
  <1>4. /\ Total(c) \in Nat /\ Total(c) >= 1
        /\ kind[c] # "untagged" => Total(c) >= 2
    BY <1>1, <1>3 DEF Total, AllKinds
  <1> QED BY <1>2, <1>3, <1>4 DEF TypeOK

\* A header is a record, so NoHdr is none of the replies.
LEMMA HeaderFacts ==
  /\ ~NoHdr.ok /\ NoHdr \in Headers
  /\ Err \in Replies /\ ~Err.ok
  /\ \A k \in 0 .. MaxOut : Ok(k) \in Replies /\ Ok(k).ok
  /\ \A r \in Replies : r # NoHdr /\ r \in Headers
  BY BoundsAssumption DEF NoHdr, Err, Ok, Replies, Headers

\* A client whose connection is open and that has been written no header can
\* only have left by being killed.
LEMMA LeftUnanswered ==
  ASSUME NEW c \in Conns, AnswerOK(c), sock[c] = "open", hdr[c] = NoHdr, cl[c] \in Left
  PROVE  cl[c] = "gone"
  BY HeaderFacts DEF AnswerOK, Left

------------------------------------------------------------------------------
(* What keeps the parts of IInv that an action does not aim at.            *)

\* ClientOK of a client that takes no step itself while at most what it sent
\* is read.
LEMMA ClientFrame ==
  ASSUME NEW c \in Conns, ClientOK(c), UNCHANGED <<kind, bits, cl, sent>>,
         taken'[c] <= sent[c], sock[c] = "none" => sock'[c] = "none"
  PROVE  ClientOK(c)'
  BY DEF ClientOK, Total

\* AnswerOK of a client whose answer is left alone: its connection may move on,
\* and reach "closed" only with a header written or a client that gave up.
LEMMA AnswerFrame ==
  ASSUME NEW c \in Conns, AnswerOK(c), UNCHANGED <<kind, bits, cl, sent, hdr, body, read>>,
         sock'[c] \in {"none", "queued"} => sock'[c] = sock[c] /\ taken'[c] = taken[c],
         hdr[c].ok => taken'[c] = taken[c],
         sock'[c] \in {"queued", "open"} => sock[c] \in {"queued", "open"},
         sock'[c] = "closed" \/ (c = cur' /\ pc' = "close") =>
            \/ sock[c] = "closed" \/ (c = cur /\ pc = "close")
            \/ hdr[c] # NoHdr \/ kind[c] = "untagged"
            \/ (cl[c] \in Left /\ sent[c] < Total(c))
  PROVE  AnswerOK(c)'
  <1>1. Total(c)' = Total(c) BY DEF Total
  <1>2. hdr[c].ok => Whole(c)' BY <1>1 DEF AnswerOK, Whole
  <1> QED BY <1>1, <1>2 DEF AnswerOK

\* A step of the handler that writes nothing to the client: it reads at most
\* one more item of the request.
LEMMA HandlerFrame ==
  ASSUME IInv, Serving, Serving',
         UNCHANGED <<kind, bits, cl, sent, hdr, body, read, sock, queue, starts, have, cur>>,
         \/ taken' = taken
         \/ /\ taken[cur] < sent[cur] /\ ~hdr[cur].ok
            /\ taken' = [taken EXCEPT ![cur] = @ + 1],
         pc' = "close" => \/ pc = "close" \/ kind[cur] = "untagged"
                          \/ cl[cur] \in Left /\ sent[cur] < Total(cur)
  PROVE  /\ ServingInv' /\ QueueInv' /\ ClientInv' /\ AnswerInv'
         /\ StopsOnlyByFailures' /\ taken' \in [Conns -> Nat]
  <1>1. TypeOK /\ ServingInv /\ QueueInv /\ ClientInv /\ AnswerInv BY DEF IInv
  <1>2. cur \in Conns /\ sock[cur] = "open" BY <1>1, ServedConnection
  <1>3. taken' \in [Conns -> Nat]
    <2>1. taken \in [Conns -> Nat] BY <1>1 DEF TypeOK
    <2> QED BY <2>1, <1>2
  <1>4. \A c \in Conns : \/ taken'[c] = taken[c]
                         \/ /\ c = cur /\ ~hdr[c].ok /\ taken[c] < sent[c]
                            /\ taken'[c] = taken[c] + 1
    <2>1. taken \in [Conns -> Nat] BY <1>1 DEF TypeOK
    <2> QED BY <2>1, <1>2
  <1>5. ServingInv' BY <1>1 DEF ServingInv
  <1>6. QueueInv' BY <1>1 DEF QueueInv
  <1>7. ClientInv'
    <2> SUFFICES ASSUME NEW c \in Conns PROVE ClientOK(c)' BY DEF ClientInv
    <2>1. ClientOK(c) /\ taken[c] <= sent[c] BY <1>1 DEF ClientInv, ClientOK
    <2>2. taken'[c] <= sent[c] BY <1>4, <1>1, <2>1, StreamTypes
    <2> QED BY <2>1, <2>2, ClientFrame
  <1>8. AnswerInv'
    <2> SUFFICES ASSUME NEW c \in Conns PROVE AnswerOK(c)' BY DEF AnswerInv
    <2>1. AnswerOK(c) BY <1>1 DEF AnswerInv
    <2>2. sock[c] \in {"none", "queued"} => taken'[c] = taken[c] BY <1>2, <1>4
    <2> QED BY <1>4, <2>1, <2>2, AnswerFrame
  <1>9. StopsOnlyByFailures' BY DEF StopsOnlyByFailures, DecodeFailed, Serving, Down
  <1> QED BY <1>3, <1>5, <1>6, <1>7, <1>8, <1>9

\* A step of a caller d that has not left: it touches nothing of the daemon.
LEMMA CallerFrame ==
  ASSUME IInv, NEW d \in Conns, cl[d] \notin Left,
         \A c \in Conns \ {d} : cl'[c] = cl[c],
         UNCHANGED <<kind, bits, taken, hdr, body, pc, cur, got, reply, frameOf, fds>>
  PROVE  HandlerInv' /\ FdOwnership' /\ StopsOnlyByFailures'
  <1>1. HandlerInv /\ FdOwnership /\ StopsOnlyByFailures BY DEF IInv
  <1>2. HandlerInv' BY <1>1 DEF HandlerInv, Serving, Whole, Total
  <1>3. FdOwnership' BY <1>1 DEF FdOwnership, DecodeFailed
  <1>4. StopsOnlyByFailures' BY <1>1 DEF StopsOnlyByFailures, DecodeFailed, Left
  <1> QED BY <1>2, <1>3, <1>4

\* ... and nothing of another caller.
LEMMA OtherCaller ==
  ASSUME NEW c \in Conns, ClientOK(c), AnswerOK(c),
         UNCHANGED <<kind, bits, taken, hdr, body, pc, cur>>,
         cl'[c] = cl[c], sent'[c] = sent[c], read'[c] = read[c], sock'[c] = sock[c]
  PROVE  ClientOK(c)' /\ AnswerOK(c)'
  <1>1. Total(c)' = Total(c) BY DEF Total
  <1>2. ClientOK(c)' BY <1>1 DEF ClientOK
  <1>3. Whole(c)' <=> Whole(c) BY <1>1 DEF Whole
  <1>4. AnswerOK(c)' BY <1>1, <1>3 DEF AnswerOK
  <1> QED BY <1>2, <1>4

------------------------------------------------------------------------------
(* The steps of the handler that only read the request.                    *)

\* Reading the tag (or its absence) and dispatching on it preserves IInv.
LEMMA HandleConnectionStep == ASSUME IInv, HandleConnection PROVE IInv'
  <1>1. TypeOK /\ ServingInv /\ ClientInv /\ HandlerInv /\ FdOwnership BY DEF IInv
  <1>2. Serving /\ pc = "tag" BY DEF HandleConnection, Serving, Down
  <1>3. /\ cur \in Conns /\ taken[cur] = 0 /\ hdr[cur] = NoHdr
    BY <1>1, <1>2, ServedConnection DEF HandlerInv
  <1>4. UNCHANGED <<kind, bits, cl, sent, hdr, body, read, sock, queue, starts, have,
                    cur, got, reply, frameOf, fds>>
    BY DEF HandleConnection, clientVars, outVars, listenVars, bootVars
  <1>5. kind[cur] \in AllKinds BY <1>1, <1>3, StreamTypes
  <1>6. \/ /\ taken[cur] < sent[cur] /\ taken' = [taken EXCEPT ![cur] = @ + 1]
           /\ \/ pc' = "close" /\ kind[cur] = "untagged"
              \/ pc' = "dreq" /\ kind[cur] = "decode"
              \/ pc' = "recvmsg" /\ kind[cur] \in {"encode", "truncated", "nofd"}
        \/ /\ taken' = taken /\ pc' = "close"
           /\ cl[cur] \in Left /\ ~(taken[cur] < sent[cur])
    BY <1>5 DEF HandleConnection, InputReady, InputEnded, Take, AllKinds
  <1>7. Serving' BY <1>6 DEF Serving, Down
  <1>8. pc' = "close" => kind[cur] = "untagged" \/ (cl[cur] \in Left /\ sent[cur] < Total(cur))
    BY <1>1, <1>3, <1>6, StreamTypes
  <1>9. /\ ServingInv' /\ QueueInv' /\ ClientInv' /\ AnswerInv' /\ StopsOnlyByFailures'
        /\ taken' \in [Conns -> Nat]
    BY <1>2, <1>3, <1>4, <1>6, <1>7, <1>8, HandlerFrame, HeaderFacts
  <1>10. TypeOK'
    <2>1. pc' \in {"close", "dreq", "recvmsg"} BY <1>6
    <2> QED BY <1>1, <1>4, <1>9, <2>1 DEF TypeOK
  <1>11. HandlerInv'
    <2>1. taken \in [Conns -> Nat] BY <1>1 DEF TypeOK
    <2>2. pc' # "close" => taken'[cur] = 1 BY <1>3, <1>6, <2>1
    <2> QED BY <1>3, <1>4, <1>6, <2>2, HeaderFacts DEF HandlerInv
  <1>12. FdOwnership' BY <1>1, <1>2, <1>4 DEF FdOwnership, DecodeFailed
  <1> QED BY <1>9, <1>10, <1>11, <1>12 DEF IInv

\* recv_request preserves IInv, the short read that leaves an fd open included.
LEMMA RecvRequestStep == ASSUME IInv, RecvRequest PROVE IInv'
  <1>1. TypeOK /\ ServingInv /\ HandlerInv /\ FdOwnership BY DEF IInv
  <1>2. Serving /\ pc = "recvmsg" BY DEF RecvRequest, Serving, Down
  <1>3. /\ cur \in Conns /\ taken[cur] = 1 /\ hdr[cur] = NoHdr
        /\ kind[cur] \in {"encode", "truncated", "nofd"}
    BY <1>1, <1>2, ServedConnection DEF HandlerInv
  <1>4. UNCHANGED <<kind, bits, cl, sent, hdr, body, read, sock, queue, starts, have,
                    cur, got, frameOf>>
    BY DEF RecvRequest, clientVars, outVars, listenVars, bootVars
  <1>5. \/ /\ taken[cur] < sent[cur] /\ taken' = [taken EXCEPT ![cur] = @ + 1]
           /\ fds' = IF kind[cur] = "nofd" THEN fds ELSE fds \cup {cur}
           /\ \/ pc' = "encode" /\ kind[cur] = "encode" /\ reply' = reply
              \/ pc' = "whdr" /\ reply' = Err /\ kind[cur] # "encode"
        \/ taken' = taken /\ fds' = fds /\ pc' = "whdr" /\ reply' = Err
    BY DEF RecvRequest, InputReady, Take, Respond
  <1>6. Serving' /\ pc' # "close" BY <1>5 DEF Serving, Down
  <1>7. /\ ServingInv' /\ QueueInv' /\ ClientInv' /\ AnswerInv' /\ StopsOnlyByFailures'
        /\ taken' \in [Conns -> Nat]
    BY <1>2, <1>3, <1>4, <1>5, <1>6, HandlerFrame, HeaderFacts
  <1>8. TypeOK'
    <2>1. pc' \in {"encode", "whdr"} BY <1>5
    <2>2. reply' \in Replies BY <1>1, <1>5, HeaderFacts DEF TypeOK
    <2>3. fds' \in SUBSET Conns BY <1>1, <1>3, <1>5 DEF TypeOK
    <2> QED BY <1>1, <1>4, <1>7, <2>1, <2>2, <2>3 DEF TypeOK
  <1>9. HandlerInv'
    <2>1. taken \in [Conns -> Nat] BY <1>1 DEF TypeOK
    <2>2. pc' = "encode" => Whole(cur)' /\ kind'[cur] = "encode"
      BY <1>3, <1>4, <1>5, <2>1 DEF Whole, Total
    <2>3. pc' = "encode" \/ (pc' = "whdr" /\ reply' = Err) BY <1>5
    <2> QED BY <1>3, <1>4, <2>2, <2>3, HeaderFacts DEF HandlerInv
  <1>10. FdOwnership'
    <2>1. \A c \in fds : kind[c] = "truncated" \/ DecodeFailed(c)
      BY <1>1, <1>2 DEF FdOwnership
    <2>2. cur \in fds' /\ cur \notin fds => kind[cur] = "truncated" \/ pc' = "encode"
      BY <1>3, <1>5
    <2>3. fds' \subseteq fds \cup {cur} BY <1>5
    <2>4. \A c \in fds : (kind[c] = "truncated" \/ DecodeFailed(c))'
      BY <1>4, <2>1 DEF DecodeFailed
    <2> QED BY <1>4, <2>2, <2>3, <2>4 DEF FdOwnership
  <1> QED BY <1>7, <1>8, <1>9, <1>10 DEF IInv

\* The rest of handle_encode preserves IInv: the fd is closed whatever it answers.
LEMMA HandleEncodeStep == ASSUME IInv, HandleEncode PROVE IInv'
  <1>1. TypeOK /\ ServingInv /\ HandlerInv /\ FdOwnership BY DEF IInv
  <1>2. Serving /\ pc = "encode" BY DEF HandleEncode, Serving, Down
  <1>3. cur \in Conns /\ Whole(cur) /\ kind[cur] = "encode" /\ hdr[cur] = NoHdr
    BY <1>1, <1>2, ServedConnection DEF HandlerInv
  <1>4. UNCHANGED <<kind, bits, cl, sent, taken, hdr, body, read, sock, queue, starts,
                    have, cur, got, frameOf>>
    BY DEF HandleEncode, clientVars, inVars, outVars, listenVars, bootVars
  <1>5. pc' = "whdr" /\ reply' \in Replies /\ fds' = fds \ {cur}
    BY HeaderFacts DEF HandleEncode, Respond
  <1>6. Serving' /\ pc' # "close" BY <1>5 DEF Serving, Down
  <1>7. /\ ServingInv' /\ QueueInv' /\ ClientInv' /\ AnswerInv' /\ StopsOnlyByFailures'
        /\ taken' \in [Conns -> Nat]
    BY <1>2, <1>4, <1>6, HandlerFrame
  <1>8. TypeOK' BY <1>1, <1>4, <1>5, <1>7 DEF TypeOK
  <1>9. HandlerInv'
    <2>1. Whole(cur)' BY <1>3, <1>4 DEF Whole, Total
    <2> QED BY <1>3, <1>4, <1>5, <2>1 DEF HandlerInv
  <1>10. FdOwnership' BY <1>1, <1>2, <1>4, <1>5 DEF FdOwnership, DecodeFailed
  <1> QED BY <1>7, <1>8, <1>9, <1>10 DEF IInv

\* Reading and checking the DecodeRequest preserves IInv.
LEMMA ReadDecodeRequestStep == ASSUME IInv, ReadDecodeRequest PROVE IInv'
  <1>1. TypeOK /\ ServingInv /\ HandlerInv /\ FdOwnership BY DEF IInv
  <1>2. Serving /\ pc = "dreq" BY DEF ReadDecodeRequest, Serving, Down
  <1>3. /\ cur \in Conns /\ taken[cur] = 1 /\ hdr[cur] = NoHdr /\ kind[cur] = "decode"
    BY <1>1, <1>2, ServedConnection DEF HandlerInv
  <1>4. UNCHANGED <<kind, bits, cl, sent, hdr, body, read, sock, queue, starts, have,
                    cur, frameOf, fds>>
    BY DEF ReadDecodeRequest, clientVars, outVars, listenVars, bootVars
  <1>5. \/ /\ taken[cur] < sent[cur] /\ taken' = [taken EXCEPT ![cur] = @ + 1]
           /\ \/ /\ bits[cur] \in 1 .. MaxBits
                 /\ pc' = "dbody" /\ got' = 0 /\ reply' = reply
              \/ pc' = "whdr" /\ reply' = Err /\ got' = got
        \/ taken' = taken /\ got' = got /\ pc' = "whdr" /\ reply' = Err
    BY DEF ReadDecodeRequest, InputReady, Take, Respond
  <1>6. Serving' /\ pc' # "close" BY <1>5 DEF Serving, Down
  <1>7. /\ ServingInv' /\ QueueInv' /\ ClientInv' /\ AnswerInv' /\ StopsOnlyByFailures'
        /\ taken' \in [Conns -> Nat]
    BY <1>2, <1>3, <1>4, <1>5, <1>6, HandlerFrame, HeaderFacts
  <1>8. TypeOK'
    <2>1. pc' \in {"dbody", "whdr"} BY <1>5
    <2>2. reply' \in Replies /\ got' \in Nat BY <1>1, <1>5, HeaderFacts DEF TypeOK
    <2> QED BY <1>1, <1>4, <1>7, <2>1, <2>2 DEF TypeOK
  <1>9. HandlerInv'
    <2>1. taken \in [Conns -> Nat] BY <1>1 DEF TypeOK
    <2>2. pc' = "dbody" => /\ bits[cur] \in 1 .. MaxBits
                           /\ taken'[cur] = 2 + got' /\ got' < bits[cur]
      BY <1>3, <1>5, <2>1, BoundsAssumption
    <2>3. pc' = "dbody" \/ (pc' = "whdr" /\ reply' = Err) BY <1>5
    <2> QED BY <1>3, <1>4, <2>2, <2>3, HeaderFacts DEF HandlerInv
  <1>10. FdOwnership' BY <1>1, <1>2, <1>4 DEF FdOwnership, DecodeFailed
  <1> QED BY <1>7, <1>8, <1>9, <1>10 DEF IInv

\* Each turn of the bitstream loop preserves IInv.
LEMMA ReadBitstreamStep == ASSUME IInv, ReadBitstream PROVE IInv'
  <1>1. TypeOK /\ ServingInv /\ HandlerInv /\ FdOwnership BY DEF IInv
  <1>2. Serving /\ pc = "dbody" BY DEF ReadBitstream, Serving, Down
  <1>3. /\ cur \in Conns /\ hdr[cur] = NoHdr /\ kind[cur] = "decode"
        /\ bits[cur] \in 1 .. MaxBits /\ taken[cur] = 2 + got /\ got < bits[cur]
    BY <1>1, <1>2, ServedConnection DEF HandlerInv
  <1>4. UNCHANGED <<kind, bits, cl, sent, hdr, body, read, sock, queue, starts, have,
                    cur, frameOf, fds>>
    BY DEF ReadBitstream, clientVars, outVars, listenVars, bootVars
  <1>5. \/ /\ taken[cur] < sent[cur] /\ taken' = [taken EXCEPT ![cur] = @ + 1]
           /\ got' = got + 1 /\ reply' = reply
           /\ pc' = IF got' = bits[cur] THEN "decode" ELSE "dbody"
        \/ taken' = taken /\ got' = got /\ pc' = "whdr" /\ reply' = Err
    BY DEF ReadBitstream, InputReady, Take, Respond
  <1>6. Serving' /\ pc' # "close" BY <1>5 DEF Serving, Down
  <1>7. /\ ServingInv' /\ QueueInv' /\ ClientInv' /\ AnswerInv' /\ StopsOnlyByFailures'
        /\ taken' \in [Conns -> Nat]
    BY <1>2, <1>3, <1>4, <1>5, <1>6, HandlerFrame, HeaderFacts
  <1>8. TypeOK'
    <2>1. pc' \in {"dbody", "decode", "whdr"} BY <1>5
    <2>2. reply' \in Replies /\ got' \in Nat BY <1>1, <1>5, HeaderFacts DEF TypeOK
    <2> QED BY <1>1, <1>4, <1>7, <2>1, <2>2 DEF TypeOK
  <1>9. HandlerInv'
    <2>0. taken \in [Conns -> Nat] /\ got \in Nat /\ MaxBits \in Nat
      BY <1>1, BoundsAssumption DEF TypeOK
    <2>1. CASE pc' = "dbody"
      <3>1. taken'[cur] = 2 + got' /\ got' < bits[cur] BY <1>3, <1>5, <2>0, <2>1
      <3> QED BY <1>3, <1>4, <2>1, <3>1 DEF HandlerInv
    <2>2. CASE pc' = "decode"
      <3>1. taken'[cur] = 2 + bits[cur] BY <1>3, <1>5, <2>0, <2>2
      <3>2. Whole(cur)' BY <1>3, <1>4, <3>1 DEF Whole, Total
      <3> QED BY <1>3, <1>4, <2>2, <3>2 DEF HandlerInv
    <2>3. CASE pc' = "whdr" /\ reply' = Err
      BY <1>3, <1>4, <2>3, HeaderFacts DEF HandlerInv
    <2> QED BY <1>5, <2>1, <2>2, <2>3
  <1>10. FdOwnership' BY <1>1, <1>2, <1>4 DEF FdOwnership, DecodeFailed
  <1> QED BY <1>7, <1>8, <1>9, <1>10 DEF IInv

\* The rest of handle_decode preserves IInv: g_out_buf holds this request's frame.
LEMMA HandleDecodeStep == ASSUME IInv, HandleDecode PROVE IInv'
  <1>1. TypeOK /\ ServingInv /\ HandlerInv /\ FdOwnership BY DEF IInv
  <1>2. Serving /\ pc = "decode" BY DEF HandleDecode, Serving, Down
  <1>3. cur \in Conns /\ Whole(cur) /\ kind[cur] = "decode" /\ hdr[cur] = NoHdr
    BY <1>1, <1>2, ServedConnection DEF HandlerInv
  <1>4. UNCHANGED <<kind, bits, cl, sent, taken, hdr, body, read, sock, queue, starts,
                    have, cur, got>>
    BY DEF HandleDecode, clientVars, inVars, outVars, listenVars, bootVars
  <1>5. /\ pc' = "whdr" /\ reply' \in Replies
        /\ \/ reply' = Err /\ frameOf' \in {frameOf, cur} /\ fds' \in {fds, fds \cup {cur}}
           \/ frameOf' = cur /\ fds' = fds
    BY HeaderFacts DEF HandleDecode, Respond
  <1>6. Serving' /\ pc' # "close" BY <1>5 DEF Serving, Down
  <1>7. /\ ServingInv' /\ QueueInv' /\ ClientInv' /\ AnswerInv' /\ StopsOnlyByFailures'
        /\ taken' \in [Conns -> Nat]
    BY <1>2, <1>4, <1>6, HandlerFrame
  <1>8. TypeOK'
    <2>1. frameOf' \in Conns \cup {NoConn} BY <1>1, <1>3, <1>5 DEF TypeOK
    <2>2. fds' \in SUBSET Conns BY <1>1, <1>3, <1>5 DEF TypeOK
    <2> QED BY <1>1, <1>4, <1>5, <1>7, <2>1, <2>2 DEF TypeOK
  <1>9. HandlerInv'
    <2>1. Whole(cur)' BY <1>3, <1>4 DEF Whole, Total
    <2> QED BY <1>3, <1>4, <1>5, <2>1, HeaderFacts DEF HandlerInv
  <1>10. FdOwnership'
    <2>1. \A c \in fds : (kind[c] = "truncated" \/ DecodeFailed(c))'
      BY <1>1, <1>2, <1>4 DEF FdOwnership, DecodeFailed
    <2>2. fds' # fds => reply' = Err /\ fds' = fds \cup {cur} BY <1>5
    <2> QED BY <1>3, <1>4, <1>5, <2>1, <2>2 DEF FdOwnership
  <1> QED BY <1>7, <1>8, <1>9, <1>10 DEF IInv

------------------------------------------------------------------------------
(* The steps that start and stop the process and its connections.          *)

\* The end of the process, whatever ended it, as long as a peer is to blame for one
\* that nobody killed.
LEMMA StopFrame ==
  ASSUME IInv, NEW how \in {"killed", "exited", "crashed"}, Stop(how),
         UNCHANGED <<kind, bits, cl, sent, taken, hdr, body, read, starts>>,
         \/ how = "crashed"
         \/ \E c \in Conns : cl[c] = "gone" \/ kind[c] = "truncated" \/ DecodeFailed(c)
  PROVE  IInv'
  <1>1. TypeOK /\ ServingInv /\ ClientInv /\ AnswerInv BY DEF IInv
  <1>2. /\ pc' = how /\ queue' = <<>> /\ cur' = NoConn /\ fds' = {}
        /\ got' = 0 /\ reply' = Err /\ have' = {} /\ frameOf' = NoConn
        /\ sock' = [c \in Conns |->
                      IF sock[c] \in {"queued", "open"} THEN "reset" ELSE sock[c]]
    BY DEF Stop
  <1>3. ~Serving' /\ pc' \in Down BY <1>2 DEF Serving, Down
  <1>4. TypeOK'
    <2>1. sock' \in [Conns -> {"none", "queued", "open", "closed", "reset"}]
      BY <1>1, <1>2 DEF TypeOK
    <2>2. queue' \in Seq(Conns) BY <1>2
    <2>3. got' \in Nat /\ reply' \in Replies BY <1>2, HeaderFacts
    <2> QED BY <1>1, <1>2, <1>3, <2>1, <2>2, <2>3 DEF TypeOK
  <1>5. ServingInv' BY <1>1, <1>2, <1>3, NoConnAssumption DEF ServingInv
  <1>6. QueueInv' BY <1>2 DEF QueueInv
  <1>7. ClientInv'
    <2> SUFFICES ASSUME NEW c \in Conns PROVE ClientOK(c)' BY DEF ClientInv
    <2>1. ClientOK(c) /\ taken[c] <= sent[c] BY <1>1 DEF ClientInv, ClientOK
    <2> QED BY <1>2, <2>1, ClientFrame
  <1>8. AnswerInv'
    <2> SUFFICES ASSUME NEW c \in Conns PROVE AnswerOK(c)' BY DEF AnswerInv
    <2>1. AnswerOK(c) BY <1>1 DEF AnswerInv
    <2>2. c # cur' BY <1>2, NoConnAssumption
    <2> QED BY <1>2, <2>1, <2>2, AnswerFrame
  <1>9. HandlerInv' BY <1>2, <1>3 DEF HandlerInv, Down
  <1>10. FdOwnership' BY <1>2 DEF FdOwnership, DecodeFailed
  <1>11. StopsOnlyByFailures' BY <1>2 DEF StopsOnlyByFailures, DecodeFailed
  <1> QED BY <1>4, <1>5, <1>6, <1>7, <1>8, <1>9, <1>10, <1>11 DEF IInv

\* The death of the daemon preserves IInv, whatever it was doing.
LEMMA KillStep == ASSUME IInv, Kill PROVE IInv'
  BY StopFrame DEF Kill, clientVars, inVars, outVars

\* A step between "down" and "listening" with no connection in hand.
LEMMA IdleFrame ==
  ASSUME IInv, ~Serving, ~Serving', pc' \in {"off", "failed", "accept"}, TypeOK',
         UNCHANGED <<kind, bits, cl, sent, taken, hdr, body, read, sock, queue, cur, fds>>
  PROVE  IInv'
  <1>1. ServingInv /\ QueueInv /\ ClientInv /\ AnswerInv /\ FdOwnership BY DEF IInv
  <1>2. ServingInv' BY <1>1 DEF ServingInv
  <1>3. QueueInv' BY <1>1 DEF QueueInv
  <1>4. ClientInv'
    <2> SUFFICES ASSUME NEW c \in Conns PROVE ClientOK(c)' BY DEF ClientInv
    <2>1. ClientOK(c) /\ taken[c] <= sent[c] BY <1>1 DEF ClientInv, ClientOK
    <2> QED BY <2>1, ClientFrame
  <1>5. AnswerInv'
    <2> SUFFICES ASSUME NEW c \in Conns PROVE AnswerOK(c)' BY DEF AnswerInv
    <2>1. AnswerOK(c) BY <1>1 DEF AnswerInv
    <2> QED BY <2>1, AnswerFrame
  <1>6. HandlerInv' BY DEF HandlerInv
  <1>7. FdOwnership' BY <1>1 DEF FdOwnership, DecodeFailed, Serving, Down
  <1>8. StopsOnlyByFailures' BY DEF StopsOnlyByFailures, DecodeFailed
  <1> QED BY <1>2, <1>3, <1>4, <1>5, <1>6, <1>7, <1>8 DEF IInv

\* Starting the daemon, successfully or not, preserves IInv.
LEMMA StartStep == ASSUME IInv, Start PROVE IInv'
  <1>1. TypeOK BY DEF IInv
  <1>2. ~Serving /\ pc' \in {"failed", "accept"} BY DEF Start, Serving, Down
  <1>3. ~Serving' BY <1>2 DEF Serving, Down
  <1>4. /\ UNCHANGED <<kind, bits, cl, sent, taken, hdr, body, read, sock, queue, cur,
                       got, reply, frameOf, fds>>
        /\ starts' = starts + 1
        /\ have' \in SUBSET {"encode", "decode"}
    BY <1>1 DEF Start, clientVars, inVars, outVars, listenVars, TypeOK
  <1>5. TypeOK' BY <1>1, <1>2, <1>4 DEF TypeOK, Down
  <1> QED BY <1>2, <1>3, <1>4, <1>5, IdleFrame

\* An operator who starts the daemon again preserves IInv.
LEMMA RestartStep == ASSUME IInv, Restart PROVE IInv'
  <1>1. TypeOK BY DEF IInv
  <1>2. ~Serving /\ pc' = "off" BY DEF Restart, Serving, Down
  <1>3. ~Serving' BY <1>2 DEF Serving, Down
  <1>4. UNCHANGED <<kind, bits, cl, sent, taken, hdr, body, read, sock, queue, cur,
                    starts, have, got, reply, frameOf, fds>>
    BY DEF Restart, clientVars, inVars, outVars, listenVars, bootVars
  <1>5. TypeOK' BY <1>1, <1>2, <1>4 DEF TypeOK, Down
  <1> QED BY <1>2, <1>3, <1>4, <1>5, IdleFrame

\* Leaving the accept loop, which resets every connection, preserves IInv.
LEMMA AcceptFailsStep == ASSUME IInv, AcceptFails PROVE IInv'
  <1>1. pc = "accept" /\ Cardinality(fds) >= FdLimit /\ Stop("exited") BY DEF AcceptFails
  <1>2. UNCHANGED <<kind, bits, cl, sent, taken, hdr, body, read, starts>>
    BY DEF AcceptFails, clientVars, inVars, outVars
  <1>3. \E c \in Conns : kind[c] = "truncated" \/ DecodeFailed(c)
    <2>1. fds # {}
      <3>1. Cardinality({}) = 0 BY FS_EmptySet
      <3> QED BY <1>1, <3>1, BoundsAssumption
    <2>2. fds \subseteq Conns BY DEF IInv, TypeOK
    <2>3. \A c \in fds : kind[c] = "truncated" \/ DecodeFailed(c)
      BY <1>1 DEF IInv, FdOwnership
    <2> QED BY <2>1, <2>2, <2>3
  <1> QED BY <1>1, <1>2, <1>3, StopFrame

\* accept() preserves IInv: the head of the queue becomes the one open connection.
LEMMA AcceptStep == ASSUME IInv, Accept PROVE IInv'
  <1>1. TypeOK /\ ServingInv /\ QueueInv /\ ClientInv /\ AnswerInv /\ FdOwnership
    BY DEF IInv
  <1>2. /\ pc = "accept" /\ queue # <<>> /\ queue \in Seq(Conns)
        /\ cur' = Head(queue) /\ queue' = Tail(queue) /\ pc' = "tag"
        /\ sock' = [sock EXCEPT ![Head(queue)] = "open"]
        /\ UNCHANGED <<kind, bits, cl, sent, taken, hdr, body, read, starts, have,
                       got, reply, frameOf, fds>>
    BY <1>1 DEF Accept, clientVars, inVars, outVars, bootVars, TypeOK
  <1>3. DEFINE h == Head(queue)
  <1>4. Len(queue) \in Nat /\ Len(queue) >= 1 BY <1>2
  <1>5. h = queue[1] /\ h \in Conns BY <1>2, <1>4
  <1>6. sock[h] = "queued" BY <1>1, <1>4, <1>5 DEF QueueInv
  <1>7. /\ Len(Tail(queue)) = Len(queue) - 1
        /\ \A i \in 1 .. Len(Tail(queue)) : Tail(queue)[i] = queue[i + 1]
        /\ Tail(queue) \in Seq(Conns)
    BY <1>2, <1>4
  <1>8. cur = NoConn /\ \A c \in Conns : sock[c] # "open"
    BY <1>1, <1>2, NoConnAssumption DEF ServingInv, Serving, Down
  <1>9. \A c \in Conns : sock'[c] = IF c = h THEN "open" ELSE sock[c]
    BY <1>1, <1>2, <1>5 DEF TypeOK
  <1>10. Serving' BY <1>2 DEF Serving, Down
  <1> HIDE DEF h
  <1>11. TypeOK'
    <2>1. sock' \in [Conns -> {"none", "queued", "open", "closed", "reset"}]
      BY <1>1, <1>2, <1>5 DEF TypeOK
    <2>2. cur' \in Conns BY <1>2, <1>5 DEF h
    <2> QED BY <1>1, <1>2, <1>7, <2>1, <2>2 DEF TypeOK
  <1>12. ServingInv'
    <2>1. cur' = h BY <1>2 DEF h
    <2> QED BY <1>5, <1>8, <1>9, <1>10, <2>1, NoConnAssumption DEF ServingInv
  <1>13. QueueInv'
    <2>1. \A i \in 1 .. Len(queue') : /\ i + 1 \in 1 .. Len(queue) /\ queue'[i] = queue[i + 1]
      BY <1>2, <1>4, <1>7
    <2>2. ASSUME NEW i \in 1 .. Len(queue') PROVE sock'[queue'[i]] = "queued"
      <3>1. queue[i + 1] # h BY <1>1, <1>4, <1>5, <2>1 DEF QueueInv
      <3>2. queue[i + 1] \in Conns BY <1>2, <2>1
      <3>3. sock[queue[i + 1]] = "queued" BY <1>1, <2>1 DEF QueueInv
      <3> QED BY <1>9, <2>1, <3>1, <3>2, <3>3
    <2>3. ASSUME NEW i \in 1 .. Len(queue'), NEW j \in 1 .. Len(queue'), queue'[i] = queue'[j]
          PROVE i = j
      <3>1. i + 1 = j + 1 BY <1>1, <2>1, <2>3 DEF QueueInv
      <3> QED BY <3>1
    <2> QED BY <2>2, <2>3 DEF QueueInv
  <1>14. ClientInv'
    <2> SUFFICES ASSUME NEW c \in Conns PROVE ClientOK(c)' BY DEF ClientInv
    <2>1. ClientOK(c) /\ taken[c] <= sent[c] BY <1>1 DEF ClientInv, ClientOK
    <2>2. sock[c] = "none" => sock'[c] = "none" BY <1>6, <1>9
    <2> QED BY <1>2, <2>1, <2>2, ClientFrame
  <1>15. AnswerInv'
    <2> SUFFICES ASSUME NEW c \in Conns PROVE AnswerOK(c)' BY DEF AnswerInv
    <2>1. AnswerOK(c) BY <1>1 DEF AnswerInv
    <2> QED BY <1>2, <1>6, <1>9, <2>1, AnswerFrame
  <1>16. HandlerInv'
    <2>1. taken[h] = 0 /\ hdr[h] = NoHdr BY <1>1, <1>5, <1>6 DEF AnswerInv, AnswerOK
    <2>2. cur' = h BY <1>2 DEF h
    <2> QED BY <1>2, <2>1, <2>2 DEF HandlerInv
  <1>17. FdOwnership' BY <1>1, <1>2 DEF FdOwnership, DecodeFailed
  <1>18. StopsOnlyByFailures' BY <1>2 DEF StopsOnlyByFailures, DecodeFailed
  <1> QED BY <1>11, <1>12, <1>13, <1>14, <1>15, <1>16, <1>17, <1>18 DEF IInv

\* close(conn_fd) preserves IInv: whoever sent all of a tagged request was answered.
LEMMA CloseStep == ASSUME IInv, Close PROVE IInv'
  <1>1. TypeOK /\ ServingInv /\ QueueInv /\ ClientInv /\ AnswerInv /\ FdOwnership
    BY DEF IInv
  <1>2. pc = "close" /\ Serving BY DEF Close, Serving, Down
  <1>3. cur \in Conns /\ sock[cur] = "open" BY <1>1, <1>2, ServedConnection
  <1>4. /\ sock' = [sock EXCEPT ![cur] = "closed"] /\ cur' = NoConn /\ pc' = "accept"
        /\ got' = 0 /\ reply' = Err
        /\ UNCHANGED <<kind, bits, cl, sent, taken, hdr, body, read, queue, starts, have,
                       frameOf, fds>>
    BY DEF Close, clientVars, inVars, outVars, bootVars
  <1>5. \A c \in Conns : sock'[c] = IF c = cur THEN "closed" ELSE sock[c]
    BY <1>1, <1>3, <1>4 DEF TypeOK
  <1>6. ~Serving' BY <1>4 DEF Serving, Down
  <1>7. TypeOK'
    <2>1. sock' \in [Conns -> {"none", "queued", "open", "closed", "reset"}]
      BY <1>1, <1>3, <1>4 DEF TypeOK
    <2>2. got' \in Nat /\ reply' \in Replies BY <1>4, HeaderFacts
    <2> QED BY <1>1, <1>4, <2>1, <2>2 DEF TypeOK
  <1>8. ServingInv' BY <1>1, <1>4, <1>5, <1>6, NoConnAssumption DEF ServingInv
  <1>9. QueueInv'
    <2>1. \A i \in 1 .. Len(queue) : queue[i] \in Conns BY <1>1 DEF TypeOK
    <2> QED BY <1>1, <1>3, <1>4, <1>5, <2>1 DEF QueueInv
  <1>10. ClientInv'
    <2> SUFFICES ASSUME NEW c \in Conns PROVE ClientOK(c)' BY DEF ClientInv
    <2>1. ClientOK(c) /\ taken[c] <= sent[c] BY <1>1 DEF ClientInv, ClientOK
    <2>2. sock[c] = "none" => sock'[c] = "none" BY <1>3, <1>5
    <2> QED BY <1>4, <2>1, <2>2, ClientFrame
  <1>11. AnswerInv'
    <2> SUFFICES ASSUME NEW c \in Conns PROVE AnswerOK(c)' BY DEF AnswerInv
    <2>1. AnswerOK(c) BY <1>1 DEF AnswerInv
    <2> QED BY <1>2, <1>4, <1>5, <2>1, AnswerFrame
  <1>12. HandlerInv' BY <1>4, <1>6 DEF HandlerInv
  <1>13. FdOwnership' BY <1>1, <1>2, <1>4 DEF FdOwnership, DecodeFailed
  <1>14. StopsOnlyByFailures' BY <1>4 DEF StopsOnlyByFailures, DecodeFailed
  <1> QED BY <1>7, <1>8, <1>9, <1>10, <1>11, <1>12, <1>13, <1>14 DEF IInv

------------------------------------------------------------------------------
(* The steps that write the answer.                                        *)

\* Writing the response header, or dying of it, preserves IInv.
LEMMA WriteHeaderStep == ASSUME IInv, WriteHeader PROVE IInv'
  <1>1. TypeOK /\ ServingInv /\ QueueInv /\ ClientInv /\ AnswerInv /\ HandlerInv /\ FdOwnership
    BY DEF IInv
  <1>2. pc = "whdr" /\ Serving BY DEF WriteHeader, Serving, Down
  <1>3. /\ cur \in Conns /\ sock[cur] = "open" /\ hdr[cur] = NoHdr /\ AnswerOK(cur)
        /\ reply \in Replies
    BY <1>1, <1>2, ServedConnection DEF HandlerInv, AnswerInv, TypeOK
  <1>4. UNCHANGED <<kind, bits, cl, sent, taken, body, read, starts>>
    BY DEF WriteHeader, clientVars, inVars
  <1>5. CASE cl[cur] \in Left
    <2>1. Stop("killed") /\ UNCHANGED hdr BY <1>5 DEF WriteHeader
    <2>2. cl[cur] = "gone" BY <1>3, <1>5, LeftUnanswered
    <2> QED BY <1>3, <1>4, <2>1, <2>2, StopFrame
  <1>6. CASE cl[cur] \notin Left
    <2>1. /\ hdr' = [hdr EXCEPT ![cur] = reply]
          /\ pc' = IF reply.ok /\ reply.size > 0 THEN "wbody" ELSE "close"
          /\ UNCHANGED <<sock, queue, have, cur, got, reply, frameOf, fds>>
      BY <1>6 DEF WriteHeader, listenVars
    <2>2. /\ hdr' \in [Conns -> Headers]
          /\ \A c \in Conns : hdr'[c] = IF c = cur THEN reply ELSE hdr[c]
      <3>1. hdr \in [Conns -> Headers] /\ reply \in Headers
        BY <1>1, <1>3, HeaderFacts DEF TypeOK
      <3> QED BY <1>3, <2>1, <3>1
    <2>3. body[cur] = <<>> /\ Len(body[cur]) = 0
      BY <1>3, HeaderFacts DEF AnswerOK
    <2>4. reply.size \in Nat /\ reply.size >= 0 /\ reply # NoHdr
      BY <1>3, HeaderFacts, BoundsAssumption DEF Replies
    <2>5. Serving' BY <2>1 DEF Serving, Down
    <2>6. TypeOK' BY <1>1, <1>4, <2>1, <2>2 DEF TypeOK
    <2>7. ServingInv' BY <1>1, <1>2, <2>1, <2>5 DEF ServingInv
    <2>8. QueueInv' BY <1>1, <2>1 DEF QueueInv
    <2>9. ClientInv'
      <3> SUFFICES ASSUME NEW c \in Conns PROVE ClientOK(c)' BY DEF ClientInv
      <3>1. ClientOK(c) /\ taken[c] <= sent[c] BY <1>1 DEF ClientInv, ClientOK
      <3> QED BY <1>4, <2>1, <3>1, ClientFrame
    <2>10. AnswerInv'
      <3> SUFFICES ASSUME NEW c \in Conns PROVE AnswerOK(c)' BY DEF AnswerInv
      <3>1. AnswerOK(c) BY <1>1 DEF AnswerInv
      <3>2. CASE c # cur
        <4>1. hdr'[c] = hdr[c] /\ (Whole(c)' <=> Whole(c))
          BY <1>4, <2>2, <3>2 DEF Whole, Total
        <4> QED BY <1>4, <2>1, <3>1, <3>2, <4>1 DEF AnswerOK, Total
      <3>3. CASE c = cur
        <4>1. hdr'[c] = reply /\ hdr'[c] # NoHdr BY <2>2, <2>4, <3>3
        <4>2. reply.ok => Whole(c)' BY <1>1, <1>2, <1>4, <3>3 DEF HandlerInv, Whole, Total
        <4>3. cl[c] \in {"new", "tag", "req", "body", "rhdr", "rbody"}
          BY <1>1, <1>6, <3>3 DEF TypeOK, Active, Sending, Receiving, Left
        <4>4. cl[c] # "rbody" BY <1>3, <3>3, HeaderFacts DEF AnswerOK
        <4>5. sock'[c] = "open" BY <1>3, <2>1, <3>3
        <4>6. cl'[c] = cl[c] /\ cl[c] \notin {"rbody", "ok", "err"} /\ read'[c] = read[c]
              /\ body'[c] = <<>> /\ Len(body'[c]) = 0
          BY <1>4, <2>3, <3>3, <4>3, <4>4
        <4> QED BY <3>1, <2>4, <4>1, <4>2, <4>5, <4>6, <2>3, <3>3 DEF AnswerOK
      <3> QED BY <3>2, <3>3
    <2>11. HandlerInv'
      <3>1. hdr'[cur] = reply BY <1>3, <2>2
      <3> QED BY <1>1, <1>2, <1>4, <2>1, <2>3, <2>4, <3>1 DEF HandlerInv
    <2>12. FdOwnership'
      <3> SUFFICES ASSUME NEW c \in fds
                   PROVE  kind[c] = "truncated" \/ DecodeFailed(c)'
        BY <1>4, <2>1 DEF FdOwnership
      <3>1. \/ kind[c] = "truncated" \/ DecodeFailed(c)
            \/ kind[c] = "decode" /\ c = cur /\ reply = Err
        BY <1>1, <1>2 DEF FdOwnership
      <3>2. c \in Conns BY <1>1 DEF TypeOK
      <3>3. DecodeFailed(c) => c # cur BY <1>3, HeaderFacts DEF DecodeFailed
      <3> QED BY <1>4, <2>2, <3>1, <3>2, <3>3 DEF DecodeFailed
    <2>13. StopsOnlyByFailures' BY <2>1 DEF StopsOnlyByFailures, DecodeFailed
    <2> QED BY <2>6, <2>7, <2>8, <2>9, <2>10, <2>11, <2>12, <2>13 DEF IInv
  <1> QED BY <1>5, <1>6

\* Writing a chunk of the body, or dying of it, preserves IInv.
LEMMA WriteBodyStep == ASSUME IInv, WriteBody PROVE IInv'
  <1>1. TypeOK /\ ServingInv /\ QueueInv /\ ClientInv /\ AnswerInv /\ HandlerInv /\ FdOwnership
    BY DEF IInv
  <1>2. pc = "wbody" /\ Serving BY DEF WriteBody, Serving, Down
  <1>3. /\ cur \in Conns /\ sock[cur] = "open" /\ AnswerOK(cur) /\ reply \in Replies
        /\ hdr[cur] = reply /\ reply.ok /\ Len(body[cur]) < reply.size
        /\ kind[cur] = "decode" => frameOf = cur
    BY <1>1, <1>2, ServedConnection DEF HandlerInv, AnswerInv, TypeOK
  <1>4. UNCHANGED <<kind, bits, cl, sent, taken, hdr, read, starts>>
    BY DEF WriteBody, clientVars, inVars
  <1>5. body \in [Conns -> Seq(Conns)] /\ body[cur] \in Seq(Conns) /\ reply.size \in Nat
    BY <1>1, <1>3, BoundsAssumption DEF TypeOK, Replies
  <1>6. CASE cl[cur] \in Left /\ body[cur] = <<>>
    <2>1. Stop("killed") /\ UNCHANGED body BY <1>6 DEF WriteBody
    <2>2. cl[cur] = "gone"
      <3>1. read[cur] \in Nat /\ Len(body[cur]) = 0 BY <1>1, <1>3, <1>6 DEF TypeOK
      <3>2. cl[cur] # "ok" BY <1>3, <1>5, <3>1 DEF AnswerOK
      <3>3. cl[cur] # "err" BY <1>3 DEF AnswerOK
      <3> QED BY <1>6, <3>2, <3>3 DEF Left
    <2> QED BY <1>3, <1>4, <2>1, <2>2, StopFrame
  <1>7. CASE /\ UNCHANGED <<body, sock, queue, have, cur, got, reply, frameOf, fds>>
             /\ pc' = "close"
    <2>1. Serving' BY <1>7 DEF Serving, Down
    <2>2. TypeOK' BY <1>1, <1>4, <1>7 DEF TypeOK
    <2>3. ServingInv' BY <1>1, <1>2, <1>7, <2>1 DEF ServingInv
    <2>4. QueueInv' BY <1>1, <1>7 DEF QueueInv
    <2>5. ClientInv'
      <3> SUFFICES ASSUME NEW c \in Conns PROVE ClientOK(c)' BY DEF ClientInv
      <3>1. ClientOK(c) /\ taken[c] <= sent[c] BY <1>1 DEF ClientInv, ClientOK
      <3> QED BY <1>4, <1>7, <3>1, ClientFrame
    <2>6. AnswerInv'
      <3> SUFFICES ASSUME NEW c \in Conns PROVE AnswerOK(c)' BY DEF AnswerInv
      <3>1. AnswerOK(c) BY <1>1 DEF AnswerInv
      <3>2. hdr[cur] # NoHdr BY <1>3, HeaderFacts
      <3> QED BY <1>4, <1>7, <3>1, <3>2, AnswerFrame
    <2>7. HandlerInv' BY <1>7 DEF HandlerInv
    <2>8. FdOwnership' BY <1>1, <1>2, <1>4, <1>7 DEF FdOwnership, DecodeFailed
    <2>9. StopsOnlyByFailures' BY <1>7 DEF StopsOnlyByFailures, DecodeFailed
    <2> QED BY <2>2, <2>3, <2>4, <2>5, <2>6, <2>7, <2>8, <2>9 DEF IInv
  <1>8. CASE /\ body' = [body EXCEPT ![cur] =
                           Append(@, IF kind[cur] = "decode" THEN frameOf ELSE cur)]
             /\ pc' = IF Len(body'[cur]) = reply.size THEN "close" ELSE "wbody"
             /\ UNCHANGED <<sock, queue, have, cur, got, reply, frameOf, fds>>
    <2> DEFINE longer == Append(body[cur], cur)
    <2>1. body' = [body EXCEPT ![cur] = longer] BY <1>3, <1>8
    <2>2. /\ longer \in Seq(Conns) /\ Len(longer) = Len(body[cur]) + 1
          /\ Len(body[cur]) \in Nat
          /\ \A i \in 1 .. Len(longer) :
               longer[i] = IF i <= Len(body[cur]) THEN body[cur][i] ELSE cur
      BY <1>3, <1>5
    <2> HIDE DEF longer
    <2>3. /\ body' \in [Conns -> Seq(Conns)]
          /\ \A c \in Conns : body'[c] = IF c = cur THEN longer ELSE body[c]
      BY <1>3, <1>5, <2>1, <2>2
    <2>4. body'[cur] = longer BY <1>3, <2>3
    <2>5. Serving' BY <1>8 DEF Serving, Down
    <2>6. TypeOK' BY <1>1, <1>4, <1>8, <2>3 DEF TypeOK
    <2>7. ServingInv' BY <1>1, <1>2, <1>8, <2>5 DEF ServingInv
    <2>8. QueueInv' BY <1>1, <1>8 DEF QueueInv
    <2>9. ClientInv'
      <3> SUFFICES ASSUME NEW c \in Conns PROVE ClientOK(c)' BY DEF ClientInv
      <3>1. ClientOK(c) /\ taken[c] <= sent[c] BY <1>1 DEF ClientInv, ClientOK
      <3> QED BY <1>4, <1>8, <3>1, ClientFrame
    <2>10. AnswerInv'
      <3> SUFFICES ASSUME NEW c \in Conns PROVE AnswerOK(c)' BY DEF AnswerInv
      <3>1. AnswerOK(c) BY <1>1 DEF AnswerInv
      <3>2. Whole(c)' <=> Whole(c) BY <1>4 DEF Whole, Total
      <3>3. CASE c # cur
        <4>1. body'[c] = body[c] BY <2>3, <3>3
        <4> QED BY <1>4, <1>8, <3>1, <3>2, <3>3, <4>1 DEF AnswerOK, Total
      <3>4. CASE c = cur
        <4>1. hdr[c].ok /\ hdr[c] # NoHdr /\ hdr[c].size = reply.size
          BY <1>3, <3>4, HeaderFacts
        <4>2. Len(body'[c]) <= hdr[c].size BY <1>3, <1>5, <2>2, <2>4, <3>4, <4>1
        <4>3. \A i \in 1 .. Len(body'[c]) : body'[c][i] = c
          BY <2>2, <2>4, <3>1, <3>4 DEF AnswerOK
        <4>4. read[c] <= Len(body'[c])
          <5>1. read[c] \in Nat /\ read[c] <= Len(body[c]) BY <1>1, <3>1 DEF TypeOK, AnswerOK
          <5> QED BY <2>2, <2>4, <3>4, <5>1
        <4>5. sock[c] = "open" BY <1>3, <3>4
        <4> QED BY <1>4, <1>8, <3>1, <3>2, <4>1, <4>2, <4>3, <4>4, <4>5 DEF AnswerOK
      <3> QED BY <3>3, <3>4
    <2>11. HandlerInv'
      <3>1. Len(body'[cur]) # reply.size => Len(body'[cur]) < reply.size
        BY <1>3, <1>5, <2>2, <2>4
      <3> QED BY <1>3, <1>4, <1>8, <3>1 DEF HandlerInv
    <2>12. FdOwnership' BY <1>1, <1>2, <1>4, <1>8 DEF FdOwnership, DecodeFailed
    <2>13. StopsOnlyByFailures' BY <1>8 DEF StopsOnlyByFailures, DecodeFailed
    <2> QED BY <2>6, <2>7, <2>8, <2>9, <2>10, <2>11, <2>12, <2>13 DEF IInv
  <1> QED BY <1>6, <1>7, <1>8 DEF WriteBody, listenVars

------------------------------------------------------------------------------
(* The steps of a caller.                                                  *)

\* What a caller's step leaves to show once it leaves the sockets alone: that
\* the variables it changed keep their types and that d itself is fine.
LEMMA CallerStep ==
  ASSUME IInv, NEW d \in Conns, cl[d] \notin Left,
         \A c \in Conns \ {d} : cl'[c] = cl[c] /\ sent'[c] = sent[c] /\ read'[c] = read[c],
         UNCHANGED <<kind, bits, taken, hdr, body, sock, queue, starts, have,
                     pc, cur, got, reply, frameOf, fds>>,
         cl' \in [Conns -> {"new"} \cup Active \cup Left],
         sent' \in [Conns -> Nat], read' \in [Conns -> Nat],
         ClientOK(d)', AnswerOK(d)'
  PROVE  IInv'
  <1>1. TypeOK /\ ServingInv /\ QueueInv /\ ClientInv /\ AnswerInv BY DEF IInv
  <1>2. TypeOK' BY <1>1 DEF TypeOK
  <1>3. ServingInv' BY <1>1 DEF ServingInv, Serving
  <1>4. QueueInv' BY <1>1 DEF QueueInv
  <1>5. ASSUME NEW c \in Conns, c # d PROVE ClientOK(c)' /\ AnswerOK(c)'
    <2>1. ClientOK(c) /\ AnswerOK(c) BY <1>1 DEF ClientInv, AnswerInv
    <2> QED BY <1>5, <2>1, OtherCaller
  <1>6. ClientInv' BY <1>5 DEF ClientInv
  <1>7. AnswerInv' BY <1>5 DEF AnswerInv
  <1>8. HandlerInv' /\ FdOwnership' /\ StopsOnlyByFailures' BY CallerFrame
  <1> QED BY <1>2, <1>3, <1>4, <1>6, <1>7, <1>8 DEF IInv

\* A caller that only changes its own place in the call: e is the new one.
LEMMA PlaceStep ==
  ASSUME IInv, NEW d \in Conns, cl[d] \notin Left,
         NEW e \in {"rbody"} \cup Left, cl' = [cl EXCEPT ![d] = e],
         UNCHANGED <<kind, bits, sent, taken, hdr, body, read, sock, queue, starts, have,
                     pc, cur, got, reply, frameOf, fds>>,
         e \in {"rbody", "ok"} => cl[d] \in Receiving,
         e = "rbody" => hdr[d].ok /\ read[d] < hdr[d].size,
         e = "ok" => hdr[d].ok /\ read[d] = hdr[d].size,
         e = "err" => sock[d] \notin {"queued", "open"} \/ (hdr[d] # NoHdr /\ ~hdr[d].ok)
  PROVE  IInv'
  <1>1. TypeOK /\ ClientInv /\ AnswerInv BY DEF IInv
  <1>2. ClientOK(d) /\ AnswerOK(d) BY <1>1 DEF ClientInv, AnswerInv
  <1>3. /\ cl' \in [Conns -> {"new"} \cup Active \cup Left]
        /\ cl'[d] = e /\ \A c \in Conns \ {d} : cl'[c] = cl[c]
    <2>1. cl \in [Conns -> {"new"} \cup Active \cup Left] BY <1>1 DEF TypeOK
    <2>2. e \in {"new"} \cup Active \cup Left BY DEF Active, Receiving
    <2> QED BY <2>1, <2>2
  <1>4. sent' \in [Conns -> Nat] /\ read' \in [Conns -> Nat] BY <1>1 DEF TypeOK
  <1>5. (Whole(d)' <=> Whole(d)) /\ Total(d)' = Total(d) BY DEF Whole, Total
  <1>6. ClientOK(d)' BY <1>2, <1>3, <1>5 DEF ClientOK, Receiving, Left
  <1>7. AnswerOK(d)' BY <1>2, <1>3, <1>5 DEF AnswerOK, Left
  <1> QED BY <1>3, <1>4, <1>6, <1>7, CallerStep

\* A refused connect() preserves IInv.
LEMMA ConnectRefusedStep == ASSUME IInv, NEW d \in Conns, ConnectRefused(d) PROVE IInv'
  <1>1. sock[d] = "none" BY DEF IInv, ClientInv, ClientOK, ConnectRefused
  <1> QED BY <1>1, PlaceStep DEF ConnectRefused, Left, inVars, outVars, listenVars,
                                 daemonVars, bootVars

\* A failed write preserves IInv.
LEMMA SendFailsStep == ASSUME IInv, NEW d \in Conns, SendFails(d) PROVE IInv'
  BY PlaceStep DEF SendFails, PeerClosed, Sending, Left, inVars, outVars, listenVars,
                   daemonVars, bootVars

\* An end of file met by the client preserves IInv.
LEMMA ReadFailsStep == ASSUME IInv, NEW d \in Conns, ReadFails(d) PROVE IInv'
  BY PlaceStep DEF ReadFails, PeerClosed, Left, inVars, outVars, listenVars,
                   daemonVars, bootVars

\* The death of a client preserves IInv.
LEMMA QuitStep == ASSUME IInv, NEW d \in Conns, Quit(d) PROVE IInv'
  BY PlaceStep DEF Quit, Active, Sending, Receiving, Left, inVars, outVars, listenVars,
                   daemonVars, bootVars

\* Reading the response header preserves IInv.
LEMMA ReadHeaderStep == ASSUME IInv, NEW d \in Conns, ReadHeader(d) PROVE IInv'
  <1>1. TypeOK /\ AnswerOK(d) BY DEF IInv, AnswerInv
  <1>2. /\ cl[d] = "rhdr" /\ hdr[d] # NoHdr
        /\ cl' = [cl EXCEPT ![d] = IF ~hdr[d].ok THEN "err"
                                   ELSE IF hdr[d].size = 0 THEN "ok" ELSE "rbody"]
        /\ UNCHANGED <<kind, bits, sent, taken, hdr, body, read, sock, queue, starts, have,
                       pc, cur, got, reply, frameOf, fds>>
    BY DEF ReadHeader, inVars, outVars, listenVars, daemonVars, bootVars
  <1>3. read[d] = 0 BY <1>1, <1>2 DEF AnswerOK
  <1>4. hdr[d].ok => hdr[d].size \in Nat
    <2>1. hdr[d].ok => Len(body[d]) <= hdr[d].size BY <1>1 DEF AnswerOK
    <2>2. Len(body[d]) \in Nat BY <1>1, StreamTypes
    <2>3. hdr[d] \in Headers BY <1>1 DEF TypeOK
    <2>4. hdr[d].size \in Int BY <2>3, BoundsAssumption DEF Headers
    <2> QED BY <2>1, <2>2, <2>4
  <1>5. CASE ~hdr[d].ok
    BY <1>2, <1>5, PlaceStep DEF Left
  <1>6. CASE hdr[d].ok /\ hdr[d].size = 0
    BY <1>2, <1>3, <1>6, PlaceStep DEF Left, Receiving
  <1>7. CASE hdr[d].ok /\ hdr[d].size # 0
    <2>1. read[d] < hdr[d].size BY <1>3, <1>4, <1>7
    <2> QED BY <1>2, <1>7, <2>1, PlaceStep DEF Left, Receiving
  <1> QED BY <1>5, <1>6, <1>7

\* Reading a chunk of the body preserves IInv.
LEMMA ReadBodyStep == ASSUME IInv, NEW d \in Conns, ReadBody(d) PROVE IInv'
  <1>1. TypeOK /\ ClientOK(d) /\ AnswerOK(d) BY DEF IInv, ClientInv, AnswerInv
  <1>2. /\ cl[d] = "rbody" /\ read[d] < Len(body[d])
        /\ read' = [read EXCEPT ![d] = @ + 1]
        /\ cl' = [cl EXCEPT ![d] = IF read'[d] = hdr[d].size THEN "ok" ELSE "rbody"]
        /\ UNCHANGED <<kind, bits, sent, taken, hdr, body, sock, queue, starts, have,
                       pc, cur, got, reply, frameOf, fds>>
    BY DEF ReadBody, inVars, listenVars, daemonVars, bootVars
  <1>3. /\ read' \in [Conns -> Nat] /\ read'[d] = read[d] + 1
        /\ \A c \in Conns \ {d} : read'[c] = read[c]
    <2>1. read \in [Conns -> Nat] BY <1>1 DEF TypeOK
    <2> QED BY <1>2, <2>1
  <1>4. /\ cl' \in [Conns -> {"new"} \cup Active \cup Left]
        /\ cl'[d] = IF read'[d] = hdr[d].size THEN "ok" ELSE "rbody"
        /\ \A c \in Conns \ {d} : cl'[c] = cl[c]
    <2>1. cl \in [Conns -> {"new"} \cup Active \cup Left] BY <1>1 DEF TypeOK
    <2>2. {"ok", "rbody"} \subseteq {"new"} \cup Active \cup Left
      BY DEF Active, Receiving, Left
    <2> QED BY <1>2, <2>1, <2>2
  <1>5. sent' \in [Conns -> Nat] BY <1>1, <1>2 DEF TypeOK
  <1>6. (Whole(d)' <=> Whole(d)) /\ Total(d)' = Total(d) BY <1>2 DEF Whole, Total
  <1>7. ClientOK(d)' BY <1>1, <1>2, <1>4, <1>6 DEF ClientOK, Receiving
  <1>8. AnswerOK(d)'
    <2>1. hdr[d].ok /\ read[d] < hdr[d].size BY <1>1, <1>2 DEF AnswerOK
    <2>2. read[d] \in Nat /\ Len(body[d]) \in Nat /\ hdr[d].size \in Int
      BY <1>1, StreamTypes, BoundsAssumption DEF TypeOK, Headers
    <2>3. read'[d] <= Len(body[d]) BY <1>2, <1>3, <2>2
    <2>4. cl'[d] = "rbody" => read'[d] < hdr[d].size BY <1>3, <1>4, <2>1, <2>2
    <2>5. cl'[d] \in {"ok", "rbody"} /\ (cl'[d] = "ok" => read'[d] = hdr[d].size) BY <1>4
    <2>6. hdr[d] # NoHdr BY <2>1, HeaderFacts
    <2> QED BY <1>1, <1>2, <1>6, <2>1, <2>3, <2>4, <2>5, <2>6 DEF AnswerOK
  <1>9. cl[d] \notin Left BY <1>2 DEF Left
  <1> QED BY <1>2, <1>3, <1>4, <1>5, <1>7, <1>8, <1>9, CallerStep

\* A client's write preserves IInv.
LEMMA SendStep == ASSUME IInv, NEW d \in Conns, Send(d) PROVE IInv'
  <1>1. TypeOK /\ ServingInv /\ ClientOK(d) /\ AnswerOK(d)
    BY DEF IInv, ClientInv, AnswerInv
  <1>2. /\ cl[d] \in Sending /\ ~PeerClosed(d)
        /\ sent' = [sent EXCEPT ![d] = @ + 1]
        /\ cl' = [cl EXCEPT ![d] = IF sent'[d] = Total(d) THEN "rhdr"
                                   ELSE IF cl[d] = "tag" THEN "req" ELSE "body"]
        /\ UNCHANGED <<kind, bits, taken, hdr, body, read, sock, queue, starts, have,
                       pc, cur, got, reply, frameOf, fds>>
    BY DEF Send, outVars, listenVars, daemonVars, bootVars
  <1>3. /\ sent' \in [Conns -> Nat] /\ sent'[d] = sent[d] + 1
        /\ \A c \in Conns \ {d} : sent'[c] = sent[c]
    <2>1. sent \in [Conns -> Nat] BY <1>1 DEF TypeOK
    <2> QED BY <1>2, <2>1
  <1>4. /\ cl' \in [Conns -> {"new"} \cup Active \cup Left]
        /\ cl'[d] = IF sent'[d] = Total(d) THEN "rhdr"
                    ELSE IF cl[d] = "tag" THEN "req" ELSE "body"
        /\ \A c \in Conns \ {d} : cl'[c] = cl[c]
    <2>1. cl \in [Conns -> {"new"} \cup Active \cup Left] BY <1>1 DEF TypeOK
    <2>2. {"rhdr", "req", "body"} \subseteq {"new"} \cup Active \cup Left
      BY DEF Active, Sending, Receiving
    <2> QED BY <1>2, <2>1, <2>2
  <1>5. read' \in [Conns -> Nat] BY <1>1, <1>2 DEF TypeOK
  <1>6. (Whole(d)' <=> Whole(d)) /\ Total(d)' = Total(d) BY <1>2 DEF Whole, Total
  <1>7. /\ sent[d] \in Nat /\ taken[d] \in Nat /\ Total(d) \in Nat /\ bits[d] \in Nat
        /\ kind[d] \in AllKinds /\ Total(d) >= 1
    <2>1. bits[d] \in Nat BY <1>1, BoundsAssumption DEF TypeOK
    <2> QED BY <1>1, <2>1, StreamTypes
  <1>8. sent[d] < Total(d)
    <2>1. CASE cl[d] = "tag" BY <1>1, <1>7, <2>1 DEF ClientOK, Total
    <2>2. CASE cl[d] = "req"
      BY <1>1, <1>7, <2>2 DEF ClientOK, Total, AllKinds
    <2>3. CASE cl[d] = "body" BY <1>1, <2>3 DEF ClientOK
    <2> QED BY <1>2, <2>1, <2>2, <2>3 DEF Sending
  <1>9. ClientOK(d)'
    <2>1. taken[d] <= sent'[d] /\ sent'[d] <= Total(d)
      BY <1>1, <1>3, <1>7, <1>8 DEF ClientOK
    <2>2. cl'[d] = "req" => sent'[d] = IF kind[d] = "untagged" THEN 0 ELSE 1
      BY <1>1, <1>3, <1>4, <1>7 DEF ClientOK
    <2>3. cl'[d] = "body" => kind[d] = "decode" /\ 2 <= sent'[d] /\ sent'[d] < Total(d)
      <3>1. CASE cl[d] = "req"
        BY <1>1, <1>3, <1>4, <1>7, <3>1 DEF ClientOK, Total, AllKinds
      <3>2. CASE cl[d] = "body"
        BY <1>1, <1>3, <1>4, <1>7, <2>1, <3>2 DEF ClientOK
      <3> QED BY <1>2, <1>4, <3>1, <3>2 DEF Sending
    <2>4. cl'[d] \in {"rhdr", "req", "body"} /\ (cl'[d] = "rhdr" => sent'[d] = Total(d))
      BY <1>4
    <2> QED BY <1>1, <1>2, <1>6, <2>1, <2>2, <2>3, <2>4 DEF ClientOK, Receiving
  <1>10. AnswerOK(d)'
    <2>1. read[d] = 0 BY <1>1, <1>2 DEF AnswerOK, Sending
    <2>2. cl'[d] \in {"rhdr", "req", "body"} BY <1>4
    <2>3. (d = cur /\ pc = "close") /\ hdr[d] = NoHdr /\ kind[d] # "untagged" => FALSE
      BY <1>1, <1>2 DEF AnswerOK, Sending, Left
    <2>4. sock[d] # "closed" BY <1>2 DEF PeerClosed
    <2> QED BY <1>1, <1>2, <1>6, <2>1, <2>2, <2>3, <2>4 DEF AnswerOK
  <1>11. cl[d] \notin Left BY <1>2 DEF Left, Sending
  <1> QED BY <1>2, <1>3, <1>4, <1>5, <1>9, <1>10, <1>11, CallerStep

\* A connect() that is queued preserves IInv.
LEMMA ConnectStep == ASSUME IInv, NEW d \in Conns, Connect(d) PROVE IInv'
  <1>1. TypeOK /\ ServingInv /\ QueueInv /\ ClientInv /\ AnswerInv BY DEF IInv
  <1>2. ClientOK(d) /\ AnswerOK(d) BY <1>1 DEF ClientInv, AnswerInv
  <1>3. /\ cl[d] = "new" /\ sock' = [sock EXCEPT ![d] = "queued"]
        /\ cl' = [cl EXCEPT ![d] = IF kind[d] = "untagged" THEN "req" ELSE "tag"]
        /\ queue' = Append(queue, d)
        /\ UNCHANGED <<kind, bits, sent, taken, hdr, body, read, starts, have,
                       pc, cur, got, reply, frameOf, fds>>
    BY DEF Connect, inVars, outVars, daemonVars, bootVars
  <1>4. sock[d] = "none" /\ sent[d] = 0 BY <1>2, <1>3 DEF ClientOK
  <1>5. /\ cl' \in [Conns -> {"new"} \cup Active \cup Left]
        /\ cl'[d] = IF kind[d] = "untagged" THEN "req" ELSE "tag"
        /\ \A c \in Conns \ {d} : cl'[c] = cl[c]
    <2>1. cl \in [Conns -> {"new"} \cup Active \cup Left] BY <1>1 DEF TypeOK
    <2>2. {"req", "tag"} \subseteq {"new"} \cup Active \cup Left BY DEF Active, Sending
    <2> QED BY <1>3, <2>1, <2>2
  <1>6. /\ sock' \in [Conns -> {"none", "queued", "open", "closed", "reset"}]
        /\ sock'[d] = "queued" /\ \A c \in Conns \ {d} : sock'[c] = sock[c]
    <2>1. sock \in [Conns -> {"none", "queued", "open", "closed", "reset"}]
      BY <1>1 DEF TypeOK
    <2> QED BY <1>3, <2>1
  <1>7. /\ queue \in Seq(Conns) /\ Len(queue) \in Nat /\ queue' \in Seq(Conns)
        /\ Len(queue') = Len(queue) + 1 /\ queue'[Len(queue) + 1] = d
        /\ \A i \in 1 .. Len(queue) : queue'[i] = queue[i] /\ queue[i] \in Conns
    <2>1. queue \in Seq(Conns) BY <1>1 DEF TypeOK
    <2> QED BY <1>3, <2>1
  <1>8. TypeOK' BY <1>1, <1>3, <1>5, <1>6, <1>7 DEF TypeOK
  <1>9. ServingInv' BY <1>1, <1>3, <1>4, <1>6 DEF ServingInv, Serving
  <1>10. QueueInv'
    <2>1. \A i \in 1 .. Len(queue) : queue[i] # d BY <1>1, <1>4 DEF QueueInv
    <2>2. \A i \in 1 .. Len(queue') : i \in 1 .. Len(queue) \/ i = Len(queue) + 1 BY <1>7
    <2>3. ASSUME NEW i \in 1 .. Len(queue') PROVE sock'[queue'[i]] = "queued"
      BY <1>1, <1>6, <1>7, <2>1, <2>2 DEF QueueInv
    <2>4. ASSUME NEW i \in 1 .. Len(queue'), NEW j \in 1 .. Len(queue'), queue'[i] = queue'[j]
          PROVE i = j
      BY <1>1, <1>7, <2>1, <2>2, <2>4 DEF QueueInv
    <2> QED BY <2>3, <2>4 DEF QueueInv
  <1>11. ASSUME NEW c \in Conns PROVE ClientOK(c)' /\ AnswerOK(c)'
    <2>1. ClientOK(c) /\ AnswerOK(c) BY <1>1 DEF ClientInv, AnswerInv
    <2>2. CASE c # d BY <1>3, <1>5, <1>6, <2>1, <2>2, OtherCaller
    <2>3. CASE c = d
      <3>1. Total(d)' = Total(d) /\ (Whole(d)' <=> Whole(d)) BY <1>3 DEF Total, Whole
      <3>2. ClientOK(d)' BY <1>2, <1>3, <1>4, <1>5, <1>6, <3>1 DEF ClientOK, Receiving
      <3>3. cur # d
        <4>1. cur = d => sock[d] = "open" BY <1>1 DEF ServingInv
        <4> QED BY <1>4, <4>1
      <3>4. AnswerOK(d)' BY <1>2, <1>3, <1>4, <1>5, <1>6, <3>1, <3>3 DEF AnswerOK
      <3> QED BY <2>3, <3>2, <3>4
    <2> QED BY <2>2, <2>3
  <1>12. ClientInv' /\ AnswerInv' BY <1>11 DEF ClientInv, AnswerInv
  <1>13. HandlerInv' /\ FdOwnership' /\ StopsOnlyByFailures'
    <2>1. cl[d] \notin Left BY <1>3 DEF Left
    <2> QED BY <1>3, <1>5, <2>1, CallerFrame
  <1> QED BY <1>8, <1>9, <1>10, <1>12, <1>13 DEF IInv

------------------------------------------------------------------------------
(* The theorems.                                                           *)

\* The initial states satisfy IInv.
LEMMA InitIInv == ASSUME Init PROVE IInv
  <1>1. TypeOK
    <2>1. /\ 0 \in Nat /\ <<>> \in Seq(Conns)
          /\ "new" \in {"new"} \cup Active \cup Left
      OBVIOUS
    <2> QED BY <2>1, HeaderFacts DEF Init, TypeOK, Down
  <1>2. ServingInv BY NoConnAssumption DEF Init, ServingInv, Serving, Down
  <1>3. QueueInv BY DEF Init, QueueInv
  <1>4. ClientInv
    <2> SUFFICES ASSUME NEW c \in Conns PROVE ClientOK(c) BY DEF ClientInv
    <2>1. Total(c) \in Nat BY <1>1, StreamTypes
    <2> QED BY <2>1 DEF Init, ClientOK, Receiving
  <1>5. AnswerInv
    <2> SUFFICES ASSUME NEW c \in Conns PROVE AnswerOK(c) BY DEF AnswerInv
    <2>1. Len(<<>>) = 0 OBVIOUS
    <2> QED BY <2>1, HeaderFacts, NoConnAssumption DEF Init, AnswerOK
  <1>6. HandlerInv BY DEF Init, HandlerInv, Serving, Down
  <1>7. FdOwnership BY DEF Init, FdOwnership, DecodeFailed
  <1>8. StopsOnlyByFailures BY DEF Init, StopsOnlyByFailures, DecodeFailed
  <1> QED BY <1>1, <1>2, <1>3, <1>4, <1>5, <1>6, <1>7, <1>8 DEF IInv

\* A stuttering step preserves IInv.
LEMMA StutterIInv == ASSUME IInv, UNCHANGED vars PROVE IInv'
  <1>1. UNCHANGED <<kind, bits, cl, sent, taken, hdr, body, read, sock, queue, pc, starts,
                    have, cur, got, reply, frameOf, fds>>
    BY DEF vars, clientVars, inVars, outVars, listenVars, bootVars
  <1>2. \A c \in Conns : (ClientOK(c)' <=> ClientOK(c)) /\ (AnswerOK(c)' <=> AnswerOK(c))
    BY <1>1 DEF ClientOK, AnswerOK, Total, Whole
  <1>3. TypeOK' /\ ServingInv' /\ QueueInv' BY <1>1 DEF IInv, TypeOK, ServingInv, Serving, QueueInv
  <1>4. ClientInv' /\ AnswerInv' BY <1>2 DEF IInv, ClientInv, AnswerInv
  <1>5. HandlerInv' BY <1>1 DEF IInv, HandlerInv, Serving, Whole, Total
  <1>6. FdOwnership' /\ StopsOnlyByFailures'
    BY <1>1 DEF IInv, FdOwnership, StopsOnlyByFailures, DecodeFailed
  <1> QED BY <1>3, <1>4, <1>5, <1>6 DEF IInv

\* IInv is inductive: every step preserves it.
LEMMA StepIInv == ASSUME IInv, [Next]_vars PROVE IInv'
  <1>1. CASE DaemonStep
    BY <1>1, StartStep, AcceptStep, AcceptFailsStep, HandleConnectionStep, RecvRequestStep,
       HandleEncodeStep, ReadDecodeRequestStep, ReadBitstreamStep, HandleDecodeStep,
       WriteHeaderStep, WriteBodyStep, CloseStep DEF DaemonStep
  <1>2. CASE Kill \/ Restart BY <1>2, KillStep, RestartStep
  <1>3. ASSUME NEW c \in Conns, ClientStep(c) \/ Quit(c) PROVE IInv'
    BY <1>3, ConnectStep, ConnectRefusedStep, SendStep, SendFailsStep, ReadHeaderStep,
       ReadBodyStep, ReadFailsStep, QuitStep DEF ClientStep
  <1>4. CASE UNCHANGED vars BY <1>4, StutterIInv
  <1> QED BY <1>1, <1>2, <1>3, <1>4 DEF Next

\* IInv holds in every reachable state, whatever the number of connections and
\* the bounds: the daemon's and the callers' steps together preserve it.
THEOREM Invariance == Spec => []IInv
  <1>1. Init => IInv BY InitIInv
  <1>2. IInv /\ [Next]_vars => IInv' BY StepIInv
  <1> QED BY <1>1, <1>2, PTL DEF Spec

\* Every variable of the daemon, the sockets and the callers keeps its type.
THEOREM TypeCorrect == Spec => []TypeOK
  <1>1. IInv => TypeOK BY DEF IInv
  <1> QED BY <1>1, Invariance, PTL

\* recv_request and handle_encode between them leave no dma-buf fd open but that
\* of the request being encoded and those of requests refused for their length.
THEOREM FdsAreReturned == Spec => []FdOwnership
  <1>1. IInv => FdOwnership BY DEF IInv
  <1> QED BY <1>1, Invariance, PTL

\* The one static g_out_buf never sends a client somebody else's frame.
THEOREM NobodyGetsAnothersFrame == Spec => []AnswersAreOwn
  <1>1. IInv => AnswersAreOwn BY DEF IInv, AnswerInv, AnswerOK, AnswersAreOwn
  <1> QED BY <1>1, Invariance, PTL

\* A status-0 header answers a whole, well-formed request within the size cap.
THEOREM AnswersAreEarned == Spec => []AnswerNeedsWholeRequest
  <1>1. IInv => AnswerNeedsWholeRequest
    BY DEF IInv, AnswerInv, AnswerOK, Whole, AnswerNeedsWholeRequest
  <1> QED BY <1>1, Invariance, PTL

\* A client that returns success has been written and has read a whole answer.
LEMMA WholeAnswers == IInv => SuccessIsComplete
  <1> SUFFICES ASSUME IInv, NEW c \in Conns, cl[c] = "ok"
               PROVE  hdr[c].ok /\ read[c] = hdr[c].size /\ Len(body[c]) = hdr[c].size
    BY DEF SuccessIsComplete
  <1>1. TypeOK /\ AnswerOK(c) BY DEF IInv, AnswerInv
  <1>2. /\ hdr[c].ok /\ read[c] = hdr[c].size
        /\ read[c] <= Len(body[c]) /\ Len(body[c]) <= hdr[c].size
    BY <1>1 DEF AnswerOK
  <1>3. read[c] \in Nat /\ Len(body[c]) \in Nat BY <1>1, StreamTypes
  <1> QED BY <1>2, <1>3

\* encodeViaDaemon and decodeViaDaemon succeed only with the whole body, wherever in
\* the answer the daemon's process ends.
THEOREM NoShortSuccess == Spec => []SuccessIsComplete
  <1> QED BY WholeAnswers, Invariance, PTL

\* No path through handle_encode or handle_decode closes on a client that sent
\* its whole request without having written it a header.
THEOREM EveryTaggedRequestIsAnswered == Spec => []TaggedRequestsAnswered
  <1>1. IInv => TaggedRequestsAnswered
    <2> SUFFICES ASSUME IInv, NEW c \in Conns, kind[c] # "untagged",
                        sent[c] = Total(c), sock[c] = "closed", hdr[c] = NoHdr
                 PROVE  FALSE
      BY DEF TaggedRequestsAnswered
    <2>1. TypeOK /\ AnswerOK(c) BY DEF IInv, AnswerInv
    <2>2. sent[c] < Total(c) BY <2>1 DEF AnswerOK
    <2> QED BY <2>1, <2>2, StreamTypes
  <1> QED BY <1>1, Invariance, PTL

\* Only a peer that went away unanswered, or one whose short request or failed decode
\* leaked its fd, can make a running daemon stop that nobody kills.
THEOREM OnlyFailuresStopTheDaemon == Spec => []StopsOnlyByFailures
  <1>1. IInv => StopsOnlyByFailures BY DEF IInv
  <1> QED BY <1>1, Invariance, PTL

\* One connection, one response: no second header, and nothing is written to a
\* connection that is not being served.
THEOREM OneConnectionOneResponse == Spec => OneResponse
  <1>1. IInv /\ [Next]_vars =>
          [\A c \in Conns :
             /\ hdr[c] # NoHdr => hdr'[c] = hdr[c]
             /\ (cur # c \/ sock[c] = "closed") => hdr'[c] = hdr[c] /\ body'[c] = body[c]]_vars
    <2> SUFFICES ASSUME IInv, Next, NEW c \in Conns
                 PROVE  /\ hdr[c] # NoHdr => hdr'[c] = hdr[c]
                        /\ (cur # c \/ sock[c] = "closed")
                             => hdr'[c] = hdr[c] /\ body'[c] = body[c]
      OBVIOUS
    <2>1. TypeOK /\ ServingInv /\ HandlerInv BY DEF IInv
    <2>2. CASE WriteHeader
      <3>1. Serving /\ pc = "whdr" /\ body' = body BY <2>2 DEF WriteHeader, Serving, Down
      <3>2. cur \in Conns /\ sock[cur] = "open" BY <2>1, <3>1, ServedConnection
      <3>3. hdr[cur] = NoHdr BY <2>1, <3>1 DEF HandlerInv
      <3>4. hdr' = hdr \/ hdr' = [hdr EXCEPT ![cur] = reply] BY <2>2 DEF WriteHeader
      <3>5. c # cur => hdr'[c] = hdr[c] BY <2>1, <3>2, <3>4 DEF TypeOK
      <3>6. c = cur /\ hdr[c] # NoHdr => FALSE BY <3>3
      <3> QED BY <3>1, <3>2, <3>5, <3>6
    <2>3. CASE WriteBody
      <3>1. Serving /\ hdr' = hdr BY <2>3 DEF WriteBody, Serving, Down
      <3>2. cur \in Conns /\ sock[cur] = "open" BY <2>1, <3>1, ServedConnection
      <3>3. body' = body \/ \E o : body' = [body EXCEPT ![cur] = Append(@, o)]
        BY <2>3 DEF WriteBody
      <3>4. c # cur => body'[c] = body[c] BY <2>1, <3>2, <3>3 DEF TypeOK
      <3> QED BY <3>1, <3>2, <3>4
    <2>4. CASE hdr' = hdr /\ body' = body BY <2>4
    <2>5. DaemonStep => WriteHeader \/ WriteBody \/ (hdr' = hdr /\ body' = body)
      BY DEF DaemonStep, Start, Accept, AcceptFails, HandleConnection, RecvRequest,
             HandleEncode, ReadDecodeRequest, ReadBitstream, HandleDecode, Close, outVars
    <2>6. ASSUME NEW d \in Conns, ClientStep(d) \/ Quit(d) PROVE hdr' = hdr /\ body' = body
      BY <2>6 DEF ClientStep, Connect, ConnectRefused, Send, SendFails, ReadHeader,
                  ReadBody, ReadFails, Quit, outVars
    <2>7. Kill \/ Restart => hdr' = hdr /\ body' = body BY DEF Kill, Restart, outVars
    <2> QED BY <2>2, <2>3, <2>4, <2>5, <2>6, <2>7 DEF Next
  <1> QED BY <1>1, Invariance, PTL DEF Spec, OneResponse

------------------------------------------------------------------------------
(* The daemon implements the service of FrameService, step by step.        *)

\* What a caller sees of the service follows its place in the call.
LEMMA PlaceMoves ==
  ASSUME TypeOK, NEW c \in Conns, NEW place, cl' = [cl EXCEPT ![c] = place]
  PROVE  Calls' = [Calls EXCEPT ![c] = CallState(place)]
  <1>1. cl \in [Conns -> {"new"} \cup Active \cup Left] BY DEF TypeOK
  <1>2. \A d \in Conns : cl'[d] = IF d = c THEN place ELSE cl[d] BY <1>1
  <1>3. Calls' = [d \in Conns |-> CallState(cl'[d])] BY DEF Calls, CallState
  <1> HIDE DEF CallState
  <1>4. [Calls EXCEPT ![c] = CallState(place)]
          = [d \in Conns |-> IF d = c THEN CallState(place) ELSE CallState(cl[d])]
    BY DEF Calls
  <1> QED BY <1>2, <1>3, <1>4

\* A step that moves no caller, answers nobody and closes nothing is none of the service.
LEMMA ServiceStutter ==
  ASSUME UNCHANGED <<cl, hdr, sock, cur>> PROVE UNCHANGED Service!vars
  <1>1. Calls' = Calls BY DEF Calls, CallState
  <1>2. Answers' = Answers BY DEF Answers, AnswerState
  <1>3. Ended' = Ended BY DEF Ended
  <1> QED BY <1>1, <1>2, <1>3 DEF Service!vars

\* The states a call goes through.
LEMMA CallStates ==
  /\ CallState("new") = "idle"
  /\ \A place \in Active : CallState(place) = "open"
  /\ CallState("ok") = "success"
  /\ CallState("err") = "failure" /\ CallState("gone") = "failure"
  BY DEF CallState, Active, Sending, Receiving

\* A caller moves on: its call opens, ends, or goes on.
LEMMA CallerServes ==
  ASSUME IInv, NEW c \in Conns, ClientStep(c) \/ Quit(c)
  PROVE  [Service!Next]_Service!vars
  <1> USE CallStates
  <1>1. TypeOK /\ ClientOK(c) /\ AnswerOK(c) BY DEF IInv, ClientInv, AnswerInv
  <1>2. cl[c] \in {"new"} \cup Active \cup Left BY <1>1 DEF TypeOK
  <1>3. hdr' = hdr /\ cur' = cur
    BY DEF ClientStep, Quit, Connect, ConnectRefused, Send, SendFails, ReadHeader, ReadBody,
           ReadFails, outVars, daemonVars
  <1>4. Answers' = Answers BY <1>3 DEF Answers, AnswerState
  <1>5. ASSUME NEW place, cl' = [cl EXCEPT ![c] = place], place \in Active, cl[c] \in Active,
               sock' = sock
        PROVE  UNCHANGED Service!vars
    <2>1. CallState(place) = "open" /\ CallState(cl[c]) = "open" BY <1>5
    <2>2. Calls' = [Calls EXCEPT ![c] = CallState(place)] BY <1>1, <1>5, PlaceMoves
    <2>3. Calls[c] = "open" BY <2>1 DEF Calls
    <2>4. Calls' = Calls BY <2>1, <2>2, <2>3 DEF Calls
    <2>5. Ended' = Ended BY <1>5 DEF Ended
    <2> QED BY <1>3, <1>4, <2>4, <2>5 DEF Service!vars
  <1>6. ASSUME cl[c] \in Active, sock' = sock,
               \/ cl' = [cl EXCEPT ![c] = "err"]
               \/ cl' = [cl EXCEPT ![c] = "gone"]
        PROVE  Service!Fail(c)
    <2>1. Calls' = [Calls EXCEPT ![c] = "failure"]
      <3>1. \/ Calls' = [Calls EXCEPT ![c] = CallState("err")]
            \/ Calls' = [Calls EXCEPT ![c] = CallState("gone")]
        BY <1>1, <1>6, PlaceMoves
      <3> QED BY <3>1
    <2>2. Calls[c] = "open" BY <1>6 DEF Calls
    <2>3. Ended' = Ended BY <1>6 DEF Ended
    <2> QED BY <1>3, <1>4, <2>1, <2>2, <2>3 DEF Service!Fail
  <1>7. ASSUME cl[c] \in Active, sock' = sock, hdr[c].ok, cl' = [cl EXCEPT ![c] = "ok"]
        PROVE  Service!Succeed(c)
    <2>1. Calls' = [Calls EXCEPT ![c] = "success"]
      <3>1. Calls' = [Calls EXCEPT ![c] = CallState("ok")] BY <1>1, <1>7, PlaceMoves
      <3> QED BY <3>1
    <2>2. Calls[c] = "open" BY <1>7 DEF Calls
    <2>3. Answers[c] = "frame" BY <1>7, HeaderFacts DEF Answers, AnswerState
    <2>4. Ended' = Ended BY <1>7 DEF Ended
    <2> QED BY <1>3, <1>4, <2>1, <2>2, <2>3, <2>4 DEF Service!Succeed
  <1>8. CASE Connect(c)
    <2>1. cl[c] = "new" /\ sock[c] = "none" /\ sock' = [sock EXCEPT ![c] = "queued"]
      BY <1>1, <1>8 DEF Connect, ClientOK
    <2>2. PICK place \in Active : cl' = [cl EXCEPT ![c] = place]
      BY <1>8 DEF Connect, Active, Sending
    <2>3. Calls' = [Calls EXCEPT ![c] = "open"] /\ Calls[c] = "idle"
      <3>1. CallState(place) = "open" /\ CallState(cl[c]) = "idle" BY <2>1
      <3>2. Calls[c] = "idle" BY <3>1 DEF Calls
      <3>3. Calls' = [Calls EXCEPT ![c] = CallState(place)] BY <1>1, <2>2, PlaceMoves
      <3> QED BY <3>1, <3>2, <3>3
    <2>4. Ended' = Ended BY <1>1, <2>1 DEF Ended, TypeOK
    <2>5. Service!Open(c) BY <1>3, <1>4, <2>3, <2>4 DEF Service!Open
    <2> QED BY <2>5 DEF Service!Next
  <1>9. CASE ConnectRefused(c)
    <2>1. cl[c] = "new" /\ cl' = [cl EXCEPT ![c] = "err"] /\ sock' = sock
      BY <1>9 DEF ConnectRefused, listenVars
    <2>2. Calls' = [Calls EXCEPT ![c] = "failure"] /\ Calls[c] = "idle"
      <3>1. Calls[c] = "idle" BY <2>1 DEF Calls
      <3>2. Calls' = [Calls EXCEPT ![c] = CallState("err")] BY <1>1, <2>1, PlaceMoves
      <3> QED BY <3>1, <3>2
    <2>3. Ended' = Ended BY <2>1 DEF Ended
    <2>4. Service!Refuse(c) BY <1>3, <1>4, <2>2, <2>3 DEF Service!Refuse
    <2> QED BY <2>4 DEF Service!Next
  <1>10. CASE Send(c)
    <2>1. cl[c] \in Active /\ sock' = sock BY <1>10 DEF Send, Active, listenVars
    <2>2. \E place \in Active : cl' = [cl EXCEPT ![c] = place]
      BY <1>10 DEF Send, Active, Sending, Receiving
    <2> QED BY <1>5, <2>1, <2>2
  <1>11. CASE SendFails(c) \/ ReadFails(c) \/ Quit(c)
    <2>1. /\ cl[c] \in Active /\ sock' = sock
          /\ cl' = [cl EXCEPT ![c] = "err"] \/ cl' = [cl EXCEPT ![c] = "gone"]
      BY <1>11 DEF SendFails, ReadFails, Quit, Active, Receiving, listenVars
    <2> QED BY <1>6, <2>1 DEF Service!Next
  <1>12. CASE ReadHeader(c)
    <2>1. cl[c] \in Active /\ sock' = sock
      BY <1>12 DEF ReadHeader, Active, Receiving, listenVars
    <2>2. CASE ~hdr[c].ok
      <3>1. cl' = [cl EXCEPT ![c] = "err"] BY <1>12, <2>2 DEF ReadHeader
      <3> QED BY <1>6, <2>1, <3>1 DEF Service!Next
    <2>3. CASE hdr[c].ok /\ hdr[c].size = 0
      <3>1. cl' = [cl EXCEPT ![c] = "ok"] BY <1>12, <2>3 DEF ReadHeader
      <3> QED BY <1>7, <2>1, <2>3, <3>1 DEF Service!Next
    <2>4. CASE hdr[c].ok /\ hdr[c].size # 0
      <3>1. cl' = [cl EXCEPT ![c] = "rbody"] /\ "rbody" \in Active
        BY <1>12, <2>4 DEF ReadHeader, Active, Receiving
      <3> QED BY <1>5, <2>1, <3>1
    <2> QED BY <2>2, <2>3, <2>4
  <1>13. CASE ReadBody(c)
    <2>1. cl[c] \in Active /\ "rbody" \in Active /\ sock' = sock
      BY <1>13 DEF ReadBody, Active, Receiving, listenVars
    <2>2. hdr[c].ok BY <1>1, <1>13 DEF ReadBody, AnswerOK
    <2>3. cl' = [cl EXCEPT ![c] = "ok"] \/ cl' = [cl EXCEPT ![c] = "rbody"]
      BY <1>13 DEF ReadBody
    <2> QED BY <1>5, <1>7, <2>1, <2>2, <2>3 DEF Service!Next
  <1> QED BY <1>8, <1>9, <1>10, <1>11, <1>12, <1>13 DEF ClientStep

\* The end of the process is the service's Stop: whoever was queued or served is lost.
LEMMA StopServes ==
  ASSUME IInv, NEW how, Stop(how), cl' = cl, hdr' = hdr
  PROVE  Service!Stop
  <1>1. ServingInv /\ TypeOK BY DEF IInv
  <1>2. Calls' = Calls /\ Answers' = Answers BY DEF Calls, CallState, Answers, AnswerState
  <1> DEFINE lost == {c \in Conns : sock[c] \in {"queued", "open"}}
  <1>3. \A c \in Conns : sock'[c] = IF sock[c] \in {"queued", "open"} THEN "reset" ELSE sock[c]
    BY DEF Stop
  <1>4. Ended' = Ended \cup lost BY <1>3 DEF Ended
  <1>5. cur # NoConn => cur \in lost BY <1>1 DEF ServingInv, TypeOK
  <1>6. cur' = NoConn BY DEF Stop
  <1>7. lost \in SUBSET Conns OBVIOUS
  <1> QED BY <1>2, <1>4, <1>5, <1>6, <1>7 DEF Service!Stop

\* The daemon takes up a call, answers it, is done with it, or stops.
LEMMA DaemonServes ==
  ASSUME IInv, DaemonStep \/ Kill \/ Restart
  PROVE  [Service!Next]_Service!vars
  <1>1. TypeOK /\ ServingInv /\ QueueInv /\ HandlerInv BY DEF IInv
  <1>2. cl' = cl
    BY DEF DaemonStep, Kill, Restart, Start, Accept, AcceptFails, HandleConnection, RecvRequest,
           HandleEncode, ReadDecodeRequest, ReadBitstream, HandleDecode, WriteHeader,
           WriteBody, Close, clientVars
  <1>3. Calls' = Calls BY <1>2 DEF Calls, CallState
  <1>4. CASE \/ Start \/ Restart \/ HandleConnection \/ RecvRequest \/ HandleEncode
             \/ ReadDecodeRequest \/ ReadBitstream \/ HandleDecode
    <2>1. UNCHANGED <<cl, hdr, sock, cur>>
      BY <1>2, <1>4 DEF Start, Restart, HandleConnection, RecvRequest, HandleEncode,
         ReadDecodeRequest, ReadBitstream, HandleDecode, outVars, listenVars
    <2> QED BY <2>1, ServiceStutter
  <1>5. CASE Accept
    <2> DEFINE h == Head(queue)
    <2>1. /\ pc = "accept" /\ queue # <<>> /\ queue \in Seq(Conns) /\ cur' = h
          /\ sock' = [sock EXCEPT ![h] = "open"] /\ hdr' = hdr
      BY <1>1, <1>5 DEF Accept, outVars, TypeOK
    <2>2. h = queue[1] /\ h \in Conns /\ 1 \in 1 .. Len(queue) BY <2>1
    <2>3. sock[h] = "queued" BY <1>1, <2>2 DEF QueueInv
    <2>4. cur = NoConn BY <1>1, <2>1 DEF ServingInv, Serving
    <2>5. Calls[h] # "idle"
      <3>1. cl[h] # "new" /\ cl[h] \in {"new"} \cup Active \cup Left
        BY <2>2, <2>3 DEF IInv, ClientInv, ClientOK, TypeOK
      <3> QED BY <2>2, <3>1 DEF Calls, CallState
    <2>6. h \notin Ended BY <2>3 DEF Ended
    <2> HIDE DEF h
    <2>7. Ended' = Ended BY <1>1, <2>1, <2>2, <2>3 DEF Ended, TypeOK
    <2>8. Answers' = Answers BY <2>1 DEF Answers, AnswerState
    <2>9. Service!Serve(h)
      BY <1>3, <2>1, <2>4, <2>5, <2>6, <2>7, <2>8 DEF Service!Serve
    <2> QED BY <2>2, <2>9 DEF Service!Next
  <1>6. CASE AcceptFails \/ Kill
    <2>1. (Stop("exited") \/ Stop("crashed")) /\ hdr' = hdr
      BY <1>6 DEF AcceptFails, Kill, outVars
    <2> QED BY <1>2, <2>1, StopServes DEF Service!Next
  <1>7. CASE WriteHeader
    <2>1. Serving /\ pc = "whdr" BY <1>7 DEF WriteHeader, Serving, Down
    <2>2. cur \in Conns /\ hdr[cur] = NoHdr
      BY <1>1, <2>1, ServedConnection DEF HandlerInv
    <2>3. CASE Stop("killed") /\ hdr' = hdr
      BY <1>2, <2>3, StopServes DEF Service!Next
    <2>4. CASE hdr' = [hdr EXCEPT ![cur] = reply] /\ sock' = sock /\ cur' = cur
      <3>1. reply # NoHdr /\ reply \in Replies BY <1>1, HeaderFacts DEF TypeOK
      <3>2. AnswerState(reply) \in {"frame", "error"} BY <3>1 DEF AnswerState
      <3>3. Answers[cur] = "none" BY <2>2 DEF Answers, AnswerState
      <3>4. \A c \in Conns : hdr'[c] = IF c = cur THEN reply ELSE hdr[c]
        BY <1>1, <2>4 DEF TypeOK
      <3>5. Answers' = [c \in Conns |-> AnswerState(hdr'[c])] BY DEF Answers, AnswerState
      <3>6. Answers' = [Answers EXCEPT ![cur] = AnswerState(reply)]
        <4> HIDE DEF AnswerState
        <4> QED BY <2>2, <3>4, <3>5 DEF Answers
      <3>7. Ended' = Ended BY <2>4 DEF Ended
      <3>8. Service!Answer(cur)
        BY <1>3, <2>4, <3>2, <3>3, <3>6, <3>7 DEF Service!Answer
      <3> QED BY <2>2, <3>8 DEF Service!Next
    <2> QED BY <1>7, <2>3, <2>4 DEF WriteHeader, listenVars
  <1>8. CASE WriteBody
    <2>1. hdr' = hdr BY <1>8 DEF WriteBody
    <2>2. CASE Stop("killed") BY <1>2, <2>1, <2>2, StopServes DEF Service!Next
    <2>3. CASE sock' = sock /\ cur' = cur BY <1>2, <2>1, <2>3, ServiceStutter
    <2> QED BY <1>8, <2>2, <2>3 DEF WriteBody, listenVars
  <1>9. CASE Close
    <2>1. Serving /\ hdr' = hdr /\ cur' = NoConn /\ sock' = [sock EXCEPT ![cur] = "closed"]
      BY <1>9 DEF Close, Serving, Down, outVars
    <2>2. cur \in Conns /\ cur # NoConn BY <1>1, <2>1, ServedConnection, NoConnAssumption
    <2>3. \A c \in Conns : sock'[c] = IF c = cur THEN "closed" ELSE sock[c]
      BY <1>1, <2>1 DEF TypeOK
    <2>4. Ended' = Ended \cup {cur} BY <2>2, <2>3 DEF Ended
    <2>5. Answers' = Answers BY <2>1 DEF Answers, AnswerState
    <2>6. Service!Finish BY <1>3, <2>1, <2>2, <2>4, <2>5 DEF Service!Finish
    <2> QED BY <2>6 DEF Service!Next
  <1> QED BY <1>4, <1>5, <1>6, <1>7, <1>8, <1>9 DEF DaemonStep

\* With its sockets, its buffers and its death at any moment the daemon does nothing
\* FrameService does not allow: it takes one call at a time, answers each at most once
\* and none again, and a call succeeds only if a frame was its answer.
THEOREM DaemonImplementsService == Spec => Service!Safety
  <1>1. Init => Service!Init
    <2> SUFFICES ASSUME Init PROVE Service!Init OBVIOUS
    <2>1. Calls = [c \in Conns |-> "idle"]
      <3>1. \A c \in Conns : CallState(cl[c]) = "idle" BY CallStates DEF Init
      <3> QED BY <3>1 DEF Calls
    <2>2. Answers = [c \in Conns |-> "none"] BY DEF Init, Answers, AnswerState
    <2>3. Ended = {} BY DEF Init, Ended
    <2> QED BY <2>1, <2>2, <2>3 DEF Init, Service!Init
  <1>2. IInv /\ [Next]_vars => [Service!Next]_Service!vars
    <2>1. CASE UNCHANGED vars
      BY <2>1, ServiceStutter DEF vars, clientVars, outVars, listenVars
    <2> QED BY <2>1, CallerServes, DaemonServes DEF Next
  <1> QED BY <1>1, <1>2, Invariance, PTL DEF Spec, Service!Safety

------------------------------------------------------------------------------
(* Who waits, and for whom.                                                *)

\* A client's step is its own: it had not left, and nobody else moves.
LEMMA ClientMoves ==
  ASSUME TypeOK, NEW c \in Conns, ClientStep(c) \/ Quit(c)
  PROVE  cl[c] \notin Left /\ \A d \in Conns \ {c} : cl'[d] = cl[d]
  <1>1. \E place : cl' = [cl EXCEPT ![c] = place]
    BY DEF ClientStep, Connect, ConnectRefused, Send, SendFails, ReadHeader, ReadBody,
           ReadFails, Quit
  <1>2. cl[c] \in {"new", "tag", "req", "body", "rhdr", "rbody"}
    BY DEF ClientStep, Connect, ConnectRefused, Send, SendFails, ReadHeader, ReadBody,
           ReadFails, Quit, Active, Sending, Receiving
  <1> QED BY <1>1, <1>2 DEF Left, TypeOK

\* While the daemon writes a body its client has nothing left to write.
LEMMA WritersNeverMeet ==
  ASSUME IInv, pc = "wbody" PROVE cl[cur] \notin Sending
  <1>1. TypeOK /\ ServingInv /\ HandlerInv BY DEF IInv
  <1>2. Serving BY DEF Serving, Down
  <1>3. cur \in Conns BY <1>1, <1>2, ServedConnection
  <1>4. ClientOK(cur) /\ AnswerOK(cur) BY <1>3 DEF IInv, ClientInv, AnswerInv
  <1>5. taken[cur] = Total(cur) /\ kind[cur] # "untagged"
    BY <1>1, <1>4 DEF HandlerInv, AnswerOK, Whole
  <1>6. sent[cur] = Total(cur) /\ Total(cur) \in Nat /\ Total(cur) >= 2
    BY <1>1, <1>3, <1>4, <1>5, StreamTypes DEF ClientOK
  <1> QED BY <1>4, <1>5, <1>6 DEF ClientOK, Sending

\* A step that moves no client and no connection and leaves the daemon running.
LEMMA WaitingFrame ==
  ASSUME WaitingInv, UNCHANGED <<cl, sock, queue, starts>>, Listening => Listening', pc' # "off"
  PROVE  WaitingInv'
  BY DEF WaitingInv

\* The end of the daemon's process: every connection that waited is reset.
LEMMA WaitingStop ==
  ASSUME WaitingInv, NEW how \in {"exited", "killed", "crashed"}, Stop(how),
         UNCHANGED <<cl, starts>>
  PROVE  WaitingInv'
  <1>1. \A c \in Conns : sock'[c] # "queued" /\ (sock'[c] = "none" => sock[c] = "none")
    BY DEF Stop
  <1> QED BY <1>1 DEF WaitingInv, Stop

\* accept() takes the head of the queue and no other connection.
LEMMA WaitingAccept == ASSUME IInv, WaitingInv, Accept PROVE WaitingInv'
  <1>1. TypeOK /\ QueueInv BY DEF IInv
  <1>2. /\ queue # <<>> /\ queue' = Tail(queue) /\ pc' = "tag" /\ Listening
        /\ sock' = [sock EXCEPT ![Head(queue)] = "open"] /\ UNCHANGED <<cl, starts>>
    BY DEF Accept, clientVars, bootVars, Listening, Down
  <1>3. /\ queue \in Seq(Conns) /\ Head(queue) = queue[1] /\ Len(queue) \in Nat
        /\ Len(queue') = Len(queue) - 1
        /\ \A i \in 1 .. Len(queue') : queue'[i] = queue[i + 1]
    <2>1. queue \in Seq(Conns) BY <1>1 DEF TypeOK
    <2> QED BY <1>2, <2>1
  <1>4. \A c \in Conns : sock'[c] = IF c = queue[1] THEN "open" ELSE sock[c]
    BY <1>1, <1>2, <1>3 DEF TypeOK
  <1>5. ASSUME NEW c \in Conns, sock'[c] = "queued"
        PROVE  Listening' /\ \E i \in 1 .. Len(queue') : queue'[i] = c
    <2>1. sock[c] = "queued" /\ c # queue[1] BY <1>4, <1>5
    <2>2. PICK i \in 1 .. Len(queue) : queue[i] = c BY <2>1 DEF WaitingInv
    <2>3. i - 1 \in 1 .. Len(queue') /\ queue'[i - 1] = c BY <1>3, <2>1, <2>2
    <2> QED BY <1>2, <2>3 DEF Listening, Down
  <1>6. \A c \in Conns : sock'[c] = "none" => sock[c] = "none" BY <1>4
  <1> QED BY <1>2, <1>5, <1>6 DEF WaitingInv

\* A connection that is closed waits for nothing.
LEMMA WaitingClose == ASSUME IInv, WaitingInv, Close PROVE WaitingInv'
  <1>1. TypeOK /\ ServingInv BY DEF IInv
  <1>2. /\ pc' = "accept" /\ sock' = [sock EXCEPT ![cur] = "closed"] /\ Listening
        /\ UNCHANGED <<cl, queue, starts>>
    BY DEF Close, clientVars, bootVars, Listening, Down
  <1>3. \A c \in Conns : sock'[c] = IF c = cur THEN "closed" ELSE sock[c]
    BY <1>1, <1>2 DEF TypeOK
  <1>4. Listening' BY <1>2 DEF Listening, Down
  <1>5. \A c \in Conns : /\ sock'[c] = "queued" => sock[c] = "queued"
                         /\ sock'[c] = "none" => sock[c] = "none"
    BY <1>3
  <1> QED BY <1>2, <1>4, <1>5 DEF WaitingInv

\* The daemon's steps.
LEMMA WaitingDaemon ==
  ASSUME IInv, WaitingInv, DaemonStep \/ Kill \/ Restart PROVE WaitingInv'
  <1>1. TypeOK BY DEF IInv
  <1>2. CASE Start
    <2>1. /\ pc = "off" /\ pc' \in {"accept", "failed"} /\ starts' = starts + 1
          /\ UNCHANGED <<cl, sock, queue>>
      BY <1>2 DEF Start, clientVars, listenVars
    <2>2. \A c \in Conns : sock[c] # "queued"
      BY <2>1 DEF WaitingInv, Listening, Down
    <2>3. starts' <= MaxStarts BY <1>1, <2>1, BoundsAssumption DEF WaitingInv, TypeOK
    <2> QED BY <2>1, <2>2, <2>3 DEF WaitingInv
  <1>3. CASE Restart
    <2>1. /\ pc \in Down /\ pc' = "off" /\ starts < MaxStarts
          /\ UNCHANGED <<cl, sock, queue, starts>>
      BY <1>3 DEF Restart, clientVars, listenVars, bootVars
    <2>2. \A c \in Conns : sock[c] # "queued" BY <2>1 DEF WaitingInv, Listening
    <2> QED BY <2>1, <2>2 DEF WaitingInv
  <1>4. CASE Accept BY <1>4, WaitingAccept
  <1>5. CASE Close BY <1>5, WaitingClose
  <1>6. AcceptFails \/ Kill \/ WriteHeader \/ WriteBody => UNCHANGED <<cl, starts>>
    BY DEF AcceptFails, Kill, WriteHeader, WriteBody, clientVars
  <1>7. CASE \E how \in {"exited", "killed", "crashed"} : Stop(how) /\ UNCHANGED <<cl, starts>>
    BY <1>7, WaitingStop
  <1>8. CASE UNCHANGED <<cl, sock, queue, starts>> /\ Listening' /\ pc' # "off"
    BY <1>8, WaitingFrame
  <1>9. CASE HandleConnection \/ RecvRequest \/ HandleEncode \/ ReadDecodeRequest
               \/ ReadBitstream \/ HandleDecode
    <2>1. UNCHANGED <<cl, sock, queue, starts>>
      BY <1>9 DEF HandleConnection, RecvRequest, HandleEncode, ReadDecodeRequest,
         ReadBitstream, HandleDecode, clientVars, listenVars, bootVars
    <2>2. pc' \in {"close", "dreq", "recvmsg", "encode", "dbody", "decode", "whdr"}
      BY <1>9 DEF HandleConnection, RecvRequest, HandleEncode, ReadDecodeRequest,
         ReadBitstream, HandleDecode, Respond
    <2> QED BY <1>8, <2>1, <2>2 DEF Listening, Down
  <1>10. CASE AcceptFails \/ Kill BY <1>6, <1>7, <1>10 DEF AcceptFails, Kill
  <1>11. CASE WriteHeader
    <2>1. \/ UNCHANGED <<sock, queue>> /\ pc' \in {"wbody", "close"}
          \/ Stop("killed")
      BY <1>11 DEF WriteHeader, listenVars
    <2> QED BY <1>6, <1>7, <1>8, <1>11, <2>1 DEF Listening, Down
  <1>12. CASE WriteBody
    <2>1. \/ UNCHANGED <<sock, queue>> /\ pc' \in {"wbody", "close"}
          \/ Stop("killed")
      BY <1>12 DEF WriteBody, listenVars
    <2> QED BY <1>6, <1>7, <1>8, <1>12, <2>1 DEF Listening, Down
  <1> QED BY <1>2, <1>3, <1>4, <1>5, <1>9, <1>10, <1>11, <1>12 DEF DaemonStep

\* The callers' steps: one that connects is in the queue.
LEMMA WaitingCaller ==
  ASSUME IInv, WaitingInv, NEW d \in Conns, ClientStep(d) \/ Quit(d) PROVE WaitingInv'
  <1>1. TypeOK BY DEF IInv
  <1>2. CASE Connect(d)
    <2>1. /\ Listening /\ queue' = Append(queue, d) /\ UNCHANGED <<starts, pc>>
          /\ sock' = [sock EXCEPT ![d] = "queued"]
          /\ \A c \in Conns \ {d} : cl'[c] = cl[c]
      BY <1>1, <1>2 DEF Connect, daemonVars, bootVars, TypeOK
    <2>2. \A c \in Conns : sock'[c] = IF c = d THEN "queued" ELSE sock[c]
      BY <1>1, <2>1 DEF TypeOK
    <2>3. /\ Len(queue) \in Nat /\ Len(queue') = Len(queue) + 1 /\ queue'[Len(queue')] = d
          /\ \A i \in 1 .. Len(queue) : queue'[i] = queue[i]
      <3>1. queue \in Seq(Conns) BY <1>1 DEF TypeOK
      <3> QED BY <2>1, <3>1
    <2>4. ASSUME NEW c \in Conns, sock'[c] = "queued"
          PROVE  \E i \in 1 .. Len(queue') : queue'[i] = c
      <3>1. CASE c = d
        <4>1. Len(queue') \in 1 .. Len(queue') BY <2>3
        <4> QED BY <2>3, <3>1, <4>1
      <3>2. CASE c # d
        <4>1. PICK i \in 1 .. Len(queue) : queue[i] = c
          BY <2>2, <2>4, <3>2 DEF WaitingInv
        <4>2. i \in 1 .. Len(queue') /\ queue'[i] = c BY <2>3, <4>1
        <4> QED BY <4>2
      <3> QED BY <3>1, <3>2
    <2>5. \A c \in Conns : sock'[c] = "none" => c # d /\ sock[c] = "none" BY <2>2
    <2>6. Listening' /\ (pc' = "off" <=> pc = "off") BY <2>1 DEF Listening
    <2> QED BY <2>1, <2>4, <2>5, <2>6 DEF WaitingInv
  <1>3. CASE UNCHANGED <<sock, queue, pc, starts>>
             /\ \A c \in Conns : cl'[c] # cl[c] => cl[c] \notin {"new", "err"} \/ cl'[c] = "err"
    BY <1>3 DEF WaitingInv, Listening
  <1>4. CASE ~Connect(d)
    <2>1. UNCHANGED <<sock, queue, pc, starts>>
      BY <1>4 DEF ClientStep, ConnectRefused, Send, SendFails, ReadHeader, ReadBody, ReadFails,
         Quit, listenVars, daemonVars, bootVars
    <2>2. \A c \in Conns \ {d} : cl'[c] = cl[c] BY <1>1, ClientMoves
    <2>3. cl[d] \notin {"new", "err"} \/ cl' = [cl EXCEPT ![d] = "err"]
      BY <1>4 DEF ClientStep, ConnectRefused, Send, SendFails, ReadHeader, ReadBody, ReadFails,
         Quit, Active, Sending, Receiving
    <2>4. cl' = [cl EXCEPT ![d] = "err"] => cl'[d] = "err" BY <1>1 DEF TypeOK
    <2> QED BY <1>3, <2>1, <2>2, <2>3, <2>4
  <1> QED BY <1>2, <1>4

\* Every step keeps WaitingInv.
LEMMA StepWaiting == ASSUME IInv, WaitingInv, [Next]_vars PROVE WaitingInv'
  <1>1. CASE UNCHANGED vars
    <2>1. UNCHANGED <<cl, sock, queue, starts, pc>>
      BY <1>1 DEF vars, clientVars, listenVars, bootVars
    <2> QED BY <2>1 DEF WaitingInv, Listening
  <1> QED BY <1>1, WaitingDaemon, WaitingCaller DEF Next

\* WaitingInv holds in every reachable state.
THEOREM WaitingInvariance == Spec => []WaitingInv
  <1>1. Init => WaitingInv
    BY BoundsAssumption DEF Init, WaitingInv
  <1>2. IInv /\ WaitingInv /\ [Next]_vars => WaitingInv' BY StepWaiting
  <1> QED BY <1>1, <1>2, Invariance, PTL DEF Spec

\* A daemon that serves a connection goes on, or waits for a client that does: what it
\* reads has not been sent, and what it writes is what that client is reading.
LEMMA ServingGoesOn ==
  ASSUME IInv, WaitingInv, Serving
  PROVE  DaemonGoesOn \/ (cl[cur] \in Active /\ ClientGoesOn(cur))
  <1>1. TypeOK /\ ServingInv /\ HandlerInv BY DEF IInv
  <1>2. cur \in Conns /\ sock[cur] = "open" BY <1>1, ServedConnection
  <1>3. ClientOK(cur) /\ AnswerOK(cur) BY <1>2 DEF IInv, ClientInv, AnswerInv
  <1>4. /\ sent[cur] \in Nat /\ taken[cur] \in Nat /\ read[cur] \in Nat /\ Len(body[cur]) \in Nat
        /\ Total(cur) \in Nat /\ Total(cur) >= 1
        /\ kind[cur] # "untagged" => Total(cur) >= 2
        /\ SockBuf \in Nat /\ SockBuf >= 1
    BY <1>1, <1>2, StreamTypes, BoundsAssumption
  <1>5. cl[cur] \in Left \/ cl[cur] \in Sending \/ cl[cur] \in {"rhdr", "rbody"}
    <2>1. cl[cur] # "new" BY <1>2, <1>3 DEF ClientOK
    <2> QED BY <1>1, <1>2, <2>1 DEF TypeOK, Active, Receiving
  <1>6. CASE pc \in {"tag", "recvmsg", "dreq", "dbody"}
    <2>1. taken[cur] < Total(cur)
      <3>1. pc = "recvmsg" => taken[cur] = 1 /\ kind[cur] # "untagged" BY <1>1 DEF HandlerInv
      <3>2. pc = "dreq" => taken[cur] = 1 /\ kind[cur] # "untagged" BY <1>1 DEF HandlerInv
      <3>3. pc = "dbody" => taken[cur] = 2 + got /\ got < bits[cur] /\ Total(cur) = 2 + bits[cur]
        BY <1>1 DEF HandlerInv, Total
      <3>4. bits[cur] \in Nat /\ got \in Nat
        <4>1. MaxBits + 1 \in Nat BY BoundsAssumption
        <4> QED BY <1>1, <1>2, <4>1 DEF TypeOK
      <3>5. pc = "tag" => taken[cur] = 0 BY <1>1 DEF HandlerInv
      <3> QED BY <1>4, <1>6, <3>1, <3>2, <3>3, <3>4, <3>5
    <2>2. CASE InputReady(cur) \/ cl[cur] \in Left
      BY <1>6, <2>2 DEF DaemonGoesOn, InputEnded
    <2>3. CASE ~InputReady(cur) /\ cl[cur] \notin Left
      <3>1. sent[cur] = taken[cur] BY <1>3, <1>4, <2>3 DEF InputReady, ClientOK
      <3>2. cl[cur] \notin Receiving BY <1>3, <1>4, <2>1, <3>1 DEF ClientOK
      <3>3. cl[cur] \in Sending BY <1>5, <2>3, <3>2 DEF Receiving
      <3>4. InRoom(cur) BY <1>4, <3>1 DEF InRoom
      <3> QED BY <3>3, <3>4 DEF ClientGoesOn, Active
    <2> QED BY <2>2, <2>3
  <1>7. CASE pc = "wbody"
    <2>1. CASE cl[cur] \in Left \/ OutRoom(cur) BY <1>7, <2>1 DEF DaemonGoesOn
    <2>2. CASE cl[cur] \notin Left /\ ~OutRoom(cur)
      <3>1. read[cur] < Len(body[cur]) BY <1>4, <2>2 DEF OutRoom
      <3>2. hdr[cur] # NoHdr BY <1>1, <1>7, HeaderFacts DEF HandlerInv
      <3>3. cl[cur] \in {"rhdr", "rbody"} BY <1>5, <1>7, <2>2, WritersNeverMeet
      <3> QED BY <3>1, <3>2, <3>3 DEF ClientGoesOn, Active, Receiving
    <2> QED BY <2>1, <2>2
  <1>8. CASE pc \in {"encode", "decode", "whdr", "close"} BY <1>8 DEF DaemonGoesOn
  <1> QED BY <1>1, <1>6, <1>7, <1>8 DEF Serving, Down, TypeOK

\* A client that cannot go on waits for the backlog to shrink, in the backlog, or for the
\* daemon that serves it.
LEMMA WaitsForTheDaemon ==
  ASSUME IInv, WaitingInv, NEW c \in Conns, cl[c] \notin Left
  PROVE  ClientGoesOn(c) \/ Serving \/ (pc = "accept" /\ queue # <<>>)
  <1>1. TypeOK /\ ServingInv /\ ClientOK(c) BY DEF IInv, ClientInv
  <1>2. queue \in Seq(Conns) /\ Len(queue) \in Nat /\ Backlog \in Nat
    BY <1>1, BoundsAssumption DEF TypeOK
  <1>3. Listening => Serving \/ pc = "accept" BY DEF Listening, Serving
  <1>4. CASE sock[c] = "none"
    <2>1. cl[c] = "new" BY <1>4 DEF WaitingInv, Left
    <2>2. ClientGoesOn(c) \/ (Listening /\ Len(queue) > Backlog)
      BY <1>2, <2>1 DEF ClientGoesOn
    <2>3. Len(queue) > Backlog => queue # <<>> BY <1>2
    <2> QED BY <1>3, <2>2, <2>3
  <1>5. CASE sock[c] = "queued"
    <2>1. Listening /\ queue # <<>> BY <1>2, <1>5 DEF WaitingInv
    <2> QED BY <1>3, <2>1
  <1>6. CASE sock[c] = "open"
    BY <1>1, <1>6, NoConnAssumption DEF ServingInv
  <1>7. CASE sock[c] \in {"closed", "reset"}
    <2>1. PeerClosed(c) /\ cl[c] # "new" BY <1>1, <1>7 DEF PeerClosed, ClientOK
    <2>2. cl[c] \in Sending \cup {"rhdr", "rbody"}
      BY <1>1, <2>1 DEF TypeOK, Active, Receiving
    <2> QED BY <2>1, <2>2 DEF ClientGoesOn
  <1> QED BY <1>1, <1>4, <1>5, <1>6, <1>7 DEF TypeOK

\* Nobody waits in a circle, however many clients there are and however small the socket
\* buffers and the backlog.
LEMMA SomebodyGoesOn == IInv /\ WaitingInv => NoStandstill
  <1> SUFFICES ASSUME IInv, WaitingInv, NEW c \in Conns, cl[c] \notin Left
               PROVE  \/ ClientGoesOn(c) \/ DaemonGoesOn
                      \/ Serving /\ cl[cur] \in Active /\ ClientGoesOn(cur)
    BY DEF NoStandstill
  <1>1. pc = "accept" /\ queue # <<>> => DaemonGoesOn BY DEF DaemonGoesOn
  <1> QED BY <1>1, ServingGoesOn, WaitsForTheDaemon

\* In every reachable state in which a call has not returned, its caller, the daemon or the
\* client that the daemon serves can go on: nobody waits in a circle.
THEOREM NobodyWaitsInACircle == Spec => []NoStandstill
  <1> QED BY SomebodyGoesOn, Invariance, WaitingInvariance, PTL

------------------------------------------------------------------------------
(* What is left to do.                                                     *)

\* The bounds are numbers, and so are the sizes the measure is made of.
LEMMA SizeTypes ==
  ASSUME IInv, NEW c \in Conns
  PROVE  /\ MaxOut \in Nat /\ MaxOut >= 1 /\ bits[c] \in Nat
         /\ sent[c] \in Nat /\ Total(c) \in Nat /\ sent[c] <= Total(c)
         /\ read[c] \in Nat /\ Len(body[c]) \in Nat
         /\ read[c] <= Len(body[c]) /\ Len(body[c]) <= MaxOut
  <1>1. TypeOK /\ ClientOK(c) /\ AnswerOK(c) BY DEF IInv, ClientInv, AnswerInv
  <1>2. /\ sent[c] \in Nat /\ read[c] \in Nat /\ Total(c) \in Nat /\ Len(body[c]) \in Nat
        /\ MaxOut \in Nat /\ MaxOut >= 1
    BY <1>1, StreamTypes, BoundsAssumption
  <1>3. bits[c] \in Nat
    <2>1. MaxBits + 1 \in Nat BY BoundsAssumption
    <2> QED BY <1>1, <2>1 DEF TypeOK
  <1>4. Len(body[c]) <= MaxOut
    <2>1. CASE hdr[c].ok
      <3>1. hdr[c].size \in -1 .. MaxOut BY <1>1 DEF TypeOK, Headers
      <3>2. Len(body[c]) <= hdr[c].size BY <1>1, <2>1 DEF AnswerOK
      <3> QED BY <1>2, <3>1, <3>2
    <2>2. CASE ~hdr[c].ok
      <3>1. body[c] = <<>> BY <1>1, <2>2 DEF AnswerOK
      <3>2. Len(body[c]) = 0 BY <3>1
      <3> QED BY <1>2, <3>2
    <2> QED BY <2>1, <2>2
  <1> QED BY <1>1, <1>2, <1>3, <1>4 DEF ClientOK, AnswerOK

\* What a client has left to do is a number, of a call that has not returned at least 1.
LEMMA ClientTodoType ==
  ASSUME IInv, NEW c \in Conns
  PROVE  ClientTodo(c) \in Nat /\ (cl[c] \notin Left => ClientTodo(c) >= 1)
  <1>1. One(cl[c] = "new") \in {0, 1} /\ One(cl[c] # "rbody") \in {0, 1} BY DEF One
  <1>2. Total(c) - sent[c] \in Nat /\ MaxOut - read[c] \in Nat BY SizeTypes
  <1> QED BY <1>1, <1>2 DEF ClientTodo

\* What the daemon has left to do for the connection it serves is a number, and so is
\* what it has to do for any.
LEMMA HandlerTodoType ==
  ASSUME IInv, Serving
  PROVE  HandlerTodo \in Nat /\ HandlerTodo >= 1
  <1>1. TypeOK /\ ServingInv /\ HandlerInv BY DEF IInv
  <1>2. cur \in Conns BY <1>1, ServedConnection
  <1>3. /\ MaxOut \in Nat /\ MaxOut >= 1 /\ bits[cur] \in Nat
        /\ Len(body[cur]) \in Nat /\ Len(body[cur]) <= MaxOut
    BY <1>2, SizeTypes
  <1>4. got \in Nat /\ (pc = "dbody" => got < bits[cur]) BY <1>1 DEF TypeOK, HandlerInv
  <1>5. CASE pc \in {"tag", "dreq", "recvmsg", "encode", "decode", "whdr"}
    <2>1. HandlerTodo \in {MaxOut + 6 + bits[cur], MaxOut + 5 + bits[cur], MaxOut + 4,
                          MaxOut + 3, MaxOut + 2}
      BY <1>5 DEF HandlerTodo
    <2> QED BY <1>3, <2>1
  <1>6. CASE pc = "dbody"
    <2>1. bits[cur] - got \in Nat BY <1>3, <1>4, <1>6
    <2>2. HandlerTodo = MaxOut + 3 + (bits[cur] - got) BY <1>6 DEF HandlerTodo
    <2> QED BY <1>3, <2>1, <2>2
  <1>7. CASE pc = "wbody"
    <2>1. MaxOut - Len(body[cur]) \in Nat BY <1>3
    <2>2. HandlerTodo = 1 + (MaxOut - Len(body[cur])) BY <1>7 DEF HandlerTodo
    <2> QED BY <2>1, <2>2
  <1>8. CASE pc = "close" BY <1>8 DEF HandlerTodo
  <1> QED BY <1>1, <1>5, <1>6, <1>7, <1>8 DEF Serving, Down, TypeOK

\* What the daemon has left to do for a connection is a number.
LEMMA ServerTodoType ==
  ASSUME IInv, NEW c \in Conns PROVE ServerTodo(c) \in Nat
  <1>1. MaxOut \in Nat /\ bits[c] \in Nat BY SizeTypes
  <1>2. sock[c] = "open" => Serving BY NoConnAssumption DEF IInv, ServingInv
  <1>3. sock[c] = "open" => HandlerTodo \in Nat BY <1>2, HandlerTodoType
  <1> QED BY <1>1, <1>3 DEF ServerTodo

\* So is how often it can be started and stop.
LEMMA LivesType ==
  ASSUME IInv, WaitingInv PROVE Lives \in Nat
  <1>1. starts \in Nat /\ starts <= MaxStarts /\ MaxStarts \in Nat
    BY BoundsAssumption DEF IInv, TypeOK, WaitingInv
  <1>2. One(Listening) \in {0, 1} BY DEF One
  <1> QED BY <1>1, <1>2 DEF Lives

\* A step of the daemon that moves no client does not add to what clients have to do.
LEMMA ClientTodoFrame ==
  ASSUME UNCHANGED <<kind, bits, cl, sent, read>>
  PROVE  \A c \in Conns : ClientTodo(c)' = ClientTodo(c)
  BY DEF ClientTodo, Total

\* The handler gets on with the connection it serves.
LEMMA HandlerProgress ==
  ASSUME IInv, WaitingInv, Serving, Serving', cur' = cur,
         HandlerTodo' \in Nat, HandlerTodo' < HandlerTodo,
         UNCHANGED <<kind, bits, cl, sent, read, sock, starts>>
  PROVE  Progress
  <1>1. TypeOK /\ ServingInv BY DEF IInv
  <1>2. PICK d \in Conns : d = cur /\ sock[d] = "open" BY <1>1, ServedConnection
  <1>3. Lives' = Lives
    <2>1. Listening /\ Listening' /\ pc # "off" /\ pc' # "off" BY DEF Serving, Listening, Down
    <2> QED BY <2>1 DEF Lives, One
  <1>4. Lives \in Nat BY LivesType
  <1>5. \A c \in Conns : ClientTodo(c) \in Nat /\ ClientTodo(c)' = ClientTodo(c)
    BY ClientTodoType, ClientTodoFrame
  <1>6. \A c \in Conns : ServerTodo(c) \in Nat BY ServerTodoType
  <1>7. \A c \in Conns \ {d} : ServerTodo(c)' = ServerTodo(c)
    BY <1>1, <1>2 DEF ServerTodo, ServingInv
  <1>8. ServerTodo(d) = HandlerTodo /\ ServerTodo(d)' = HandlerTodo'
    BY <1>2 DEF ServerTodo
  <1>9. HandlerTodo \in Nat BY HandlerTodoType
  <1>10. \A c \in Conns \ {d} : Todo(c)' = Todo(c) /\ Todo(c) \in Nat
    BY <1>5, <1>6, <1>7 DEF Todo
  <1>11. Todo(d)' < Todo(d) /\ Todo(d)' <= Todo(d) BY <1>5, <1>8, <1>9 DEF Todo
  <1>12. \A c \in Conns : Todo(c)' <= Todo(c) BY <1>10, <1>11
  <1> QED BY <1>3, <1>4, <1>11, <1>12 DEF Progress

\* A step that leaves what the daemon has to do for d as it was, or less, and for all
\* others as it was, gets on with what it lowers.
LEMMA OneProgresses ==
  ASSUME IInv, WaitingInv, NEW d \in Conns, Lives' = Lives,
         ClientTodo(d)' \in Nat, ServerTodo(d)' \in Nat,
         ClientTodo(d)' + ServerTodo(d)' < ClientTodo(d) + ServerTodo(d),
         \A c \in Conns \ {d} : ClientTodo(c)' = ClientTodo(c) /\ ServerTodo(c)' = ServerTodo(c)
  PROVE  Progress
  <1>1. Lives \in Nat BY LivesType
  <1>2. \A c \in Conns : ClientTodo(c) \in Nat /\ ServerTodo(c) \in Nat
    BY ClientTodoType, ServerTodoType
  <1>3. \A c \in Conns \ {d} : Todo(c)' = Todo(c) /\ Todo(c) \in Nat BY <1>2 DEF Todo
  <1>4. Todo(d)' < Todo(d) /\ Todo(d)' <= Todo(d) BY <1>2 DEF Todo
  <1> QED BY <1>1, <1>3, <1>4 DEF Progress

\* Where the handler stands before and after a step it makes: it comes nearer to its end.
LEMMA HandlerSteps ==
  ASSUME IInv, WaitingInv,
         HandleConnection \/ RecvRequest \/ HandleEncode \/ ReadDecodeRequest
           \/ ReadBitstream \/ HandleDecode
  PROVE  Progress
  <1>1. TypeOK /\ ServingInv /\ HandlerInv BY DEF IInv
  <1>2. /\ UNCHANGED <<kind, bits, cl, sent, read, body, sock, starts, cur>>
        /\ pc \in {"tag", "recvmsg", "encode", "dreq", "dbody", "decode"}
        /\ pc' \in {"close", "dreq", "recvmsg", "encode", "dbody", "decode", "whdr"}
    <2>1. UNCHANGED <<kind, bits, cl, sent, read, body, sock, starts, cur>>
      BY DEF HandleConnection, RecvRequest, HandleEncode, ReadDecodeRequest, ReadBitstream,
         HandleDecode, clientVars, inVars, outVars, listenVars, bootVars
    <2>2. /\ pc \in {"tag", "recvmsg", "encode", "dreq", "dbody", "decode"}
          /\ pc' \in {"close", "dreq", "recvmsg", "encode", "dbody", "decode", "whdr"}
      BY DEF HandleConnection, RecvRequest, HandleEncode, ReadDecodeRequest, ReadBitstream,
         HandleDecode, Respond
    <2> QED BY <2>1, <2>2
  <1>3. Serving /\ Serving' BY <1>2 DEF Serving, Down
  <1>4. cur \in Conns BY <1>1, <1>3, ServedConnection
  <1>5. MaxOut \in Nat /\ MaxOut >= 1 /\ bits[cur] \in Nat BY <1>4, SizeTypes
  <1>6. got \in Nat /\ (pc = "dbody" => got < bits[cur]) BY <1>1 DEF TypeOK, HandlerInv
  <1>7. HandlerTodo' \in Nat /\ HandlerTodo' < HandlerTodo
    <2>1. CASE HandleConnection
      <3>1. pc = "tag" /\ pc' \in {"close", "dreq", "recvmsg"} BY <2>1 DEF HandleConnection
      <3> QED BY <1>2, <1>5, <3>1 DEF HandlerTodo
    <2>2. CASE RecvRequest
      <3>1. pc = "recvmsg" /\ pc' \in {"encode", "whdr"} BY <2>2 DEF RecvRequest, Respond
      <3> QED BY <1>2, <1>5, <3>1 DEF HandlerTodo
    <2>3. CASE HandleEncode \/ HandleDecode
      <3>1. pc \in {"encode", "decode"} /\ pc' = "whdr"
        BY <2>3 DEF HandleEncode, HandleDecode, Respond
      <3> QED BY <1>2, <1>5, <3>1 DEF HandlerTodo
    <2>4. CASE ReadDecodeRequest
      <3>1. pc = "dreq" /\ (pc' = "whdr" \/ (pc' = "dbody" /\ got' = 0))
        BY <2>4 DEF ReadDecodeRequest, Respond
      <3> QED BY <1>2, <1>5, <3>1 DEF HandlerTodo
    <2>5. CASE ReadBitstream
      <3>1. /\ pc = "dbody"
            /\ \/ pc' = "dbody" /\ got' = got + 1 /\ got' # bits[cur]
               \/ pc' \in {"decode", "whdr"}
        BY <2>5 DEF ReadBitstream, Respond
      <3>2. HandlerTodo = MaxOut + 3 + (bits[cur] - got) BY <3>1 DEF HandlerTodo
      <3>3. CASE pc' = "dbody"
        <4>1. HandlerTodo' = MaxOut + 3 + (bits[cur] - got') BY <1>2, <3>3 DEF HandlerTodo
        <4> QED BY <1>5, <1>6, <3>1, <3>2, <3>3, <4>1
      <3>4. CASE pc' \in {"decode", "whdr"}
        <4>1. HandlerTodo' \in {MaxOut + 3, MaxOut + 2} BY <3>4 DEF HandlerTodo
        <4> QED BY <1>5, <1>6, <3>1, <3>2, <4>1
      <3> QED BY <3>1, <3>3, <3>4
    <2> QED BY <2>1, <2>2, <2>3, <2>4, <2>5
  <1> QED BY <1>2, <1>3, <1>7, HandlerProgress

\* The end of the process is the end of a life, and of all its connections.
LEMMA StopProgress ==
  ASSUME IInv, WaitingInv, Listening, NEW how \in {"exited", "killed", "crashed"}, Stop(how),
         UNCHANGED <<kind, bits, cl, sent, read, starts>>
  PROVE  Progress
  <1>1. starts \in Nat /\ MaxStarts \in Nat BY BoundsAssumption DEF IInv, TypeOK
  <1>2. Lives' < Lives
    <2>1. pc # "off" /\ pc' # "off" /\ ~Listening' BY DEF Stop, Listening, Down
    <2>2. Lives = 3 * (MaxStarts - starts) + (1 + 1) BY <2>1 DEF Lives, One
    <2>3. Lives' = 3 * (MaxStarts - starts) + (1 + 0) BY <2>1 DEF Lives, One
    <2> QED BY <1>1, <2>2, <2>3
  <1>3. Lives' <= Lives
    <2>1. Lives' \in Int BY <1>1 DEF Lives, One
    <2> QED BY <1>2, <2>1, LivesType
  <1>4. ASSUME NEW c \in Conns PROVE Todo(c)' <= Todo(c)
    <2>1. ClientTodo(c) \in Nat /\ ServerTodo(c) \in Nat BY ClientTodoType, ServerTodoType
    <2>2. ClientTodo(c)' = ClientTodo(c) BY ClientTodoFrame
    <2>3. ServerTodo(c)' = 0 \/ ServerTodo(c)' = ServerTodo(c)
      BY DEF Stop, ServerTodo
    <2> QED BY <2>1, <2>2, <2>3 DEF Todo
  <1> QED BY <1>2, <1>3, <1>4 DEF Progress

\* The header and the body are written a step nearer to their end, or the process ends.
LEMMA WriteProgress == ASSUME IInv, WaitingInv, WriteHeader \/ WriteBody PROVE Progress
  <1>1. TypeOK /\ ServingInv /\ HandlerInv BY DEF IInv
  <1>2. /\ UNCHANGED <<kind, bits, cl, sent, read, starts>> /\ pc \in {"whdr", "wbody"}
        /\ Stop("killed") \/ (UNCHANGED <<sock, cur>> /\ pc' \in {"wbody", "close"})
    BY DEF WriteHeader, WriteBody, clientVars, inVars, listenVars
  <1>3. CASE Stop("killed")
    <2>1. Listening BY <1>2 DEF Listening, Down
    <2> QED BY <1>2, <1>3, <2>1, StopProgress
  <1>4. CASE ~Stop("killed")
    <2>1. Serving /\ Serving' BY <1>2, <1>4 DEF Serving, Down
    <2>2. cur \in Conns BY <1>1, <2>1, ServedConnection
    <2>3. PICK len \in 0 .. MaxOut : len = Len(body[cur]) BY <2>2, SizeTypes
    <2>4. MaxOut \in Nat /\ MaxOut >= 1 BY <2>2, SizeTypes
    <2>5. pc' \in {"wbody", "close"} /\ cur' = cur BY <1>2, <1>4
    <2>6. pc' = "close" => HandlerTodo' = 1 BY DEF HandlerTodo
    <2>7. HandlerTodo' \in Nat /\ HandlerTodo' < HandlerTodo
      <3>1. CASE WriteHeader
        <4>1. pc = "whdr" /\ body' = body BY <3>1 DEF WriteHeader
        <4>2. HandlerTodo = MaxOut + 2 BY <4>1 DEF HandlerTodo
        <4>3. pc' = "wbody" => HandlerTodo' = 1 + (MaxOut - len)
          BY <2>3, <2>5, <4>1 DEF HandlerTodo
        <4> QED BY <2>4, <2>5, <2>6, <4>2, <4>3
      <3>2. CASE WriteBody
        <4>1. pc = "wbody" /\ len < MaxOut
          <5>1. pc = "wbody" /\ len < reply.size BY <1>1, <2>3, <3>2 DEF WriteBody, HandlerInv
          <5>2. reply.size \in 0 .. MaxOut BY <1>1 DEF TypeOK, Replies
          <5> QED BY <2>4, <5>1, <5>2
        <4>2. HandlerTodo = 1 + (MaxOut - len) BY <2>3, <4>1 DEF HandlerTodo
        <4>3. CASE pc' = "close" BY <2>4, <2>6, <4>1, <4>2, <4>3
        <4>4. CASE pc' = "wbody"
          <5>1. PICK o : body' = [body EXCEPT ![cur] = Append(@, o)]
            BY <1>4, <3>2, <4>4 DEF WriteBody
          <5>2. body \in [Conns -> Seq(Conns)] /\ body[cur] \in Seq(Conns)
            BY <1>1, <2>2 DEF TypeOK
          <5>3. body'[cur] = Append(body[cur], o) BY <2>2, <5>1, <5>2
          <5>4. Len(body'[cur]) = len + 1
            <6>1. \A s \in Seq(Conns) : Len(Append(s, o)) = Len(s) + 1 OBVIOUS
            <6> QED BY <2>3, <5>2, <5>3, <6>1
          <5>5. HandlerTodo' = 1 + (MaxOut - (len + 1))
            BY <2>5, <4>4, <5>4 DEF HandlerTodo
          <5> QED BY <2>4, <4>1, <4>2, <5>5
        <4> QED BY <2>5, <4>3, <4>4
      <3> QED BY <3>1, <3>2
    <2> QED BY <1>2, <1>4, <2>1, <2>7, HandlerProgress
  <1> QED BY <1>3, <1>4

\* accept() begins with a connection, close() ends it.
LEMMA ConnectionProgress == ASSUME IInv, WaitingInv, Accept \/ Close PROVE Progress
  <1>1. TypeOK /\ ServingInv /\ QueueInv BY DEF IInv
  <1>2. UNCHANGED <<kind, bits, cl, sent, read, starts>>
    BY DEF Accept, Close, clientVars, inVars, outVars, bootVars
  <1>3. Lives' = Lives
    <2>1. pc \in {"accept", "close"} /\ pc' \in {"tag", "accept"} BY DEF Accept, Close
    <2>2. Listening /\ Listening' /\ pc # "off" /\ pc' # "off" BY <2>1 DEF Listening, Down
    <2> QED BY <1>2, <2>2 DEF Lives, One
  <1>4. \A c \in Conns : ClientTodo(c) \in Nat /\ ClientTodo(c)' = ClientTodo(c)
    BY <1>2, ClientTodoType, ClientTodoFrame
  <1>5. CASE Accept
    <2>1. PICK d \in Conns : d = Head(queue) /\ sock[d] = "queued"
      <3>1. queue \in Seq(Conns) /\ queue # <<>> BY <1>1, <1>5 DEF TypeOK, Accept
      <3>2. Head(queue) = queue[1] /\ Head(queue) \in Conns /\ 1 \in 1 .. Len(queue) BY <3>1
      <3> QED BY <1>1, <3>2 DEF QueueInv
    <2>2. /\ pc = "accept" /\ pc' = "tag" /\ cur' = d
          /\ sock' = [sock EXCEPT ![d] = "open"]
      BY <1>5, <2>1 DEF Accept
    <2>3. \A c \in Conns : sock'[c] = IF c = d THEN "open" ELSE sock[c]
      BY <1>1, <2>2 DEF TypeOK
    <2>4. \A c \in Conns : sock[c] # "open"
      BY <1>1, <2>2, NoConnAssumption DEF ServingInv, Serving
    <2>5. MaxOut \in Nat /\ bits[d] \in Nat BY SizeTypes
    <2>6. ServerTodo(d) = MaxOut + 7 + bits[d] BY <2>1 DEF ServerTodo
    <2>7. ServerTodo(d)' = MaxOut + 6 + bits[d]
      <3>1. HandlerTodo' = MaxOut + 6 + bits[d] BY <1>2, <2>2 DEF HandlerTodo
      <3> QED BY <2>3, <3>1 DEF ServerTodo
    <2>8. \A c \in Conns \ {d} : ServerTodo(c)' = ServerTodo(c)
      BY <1>2, <2>3, <2>4 DEF ServerTodo
    <2> QED BY <1>3, <1>4, <2>5, <2>6, <2>7, <2>8, OneProgresses
  <1>6. CASE Close
    <2>1. PICK d \in Conns : d = cur /\ sock[d] = "open"
      BY <1>1, <1>6, ServedConnection DEF Close, Serving, Down
    <2>2. pc = "close" /\ sock' = [sock EXCEPT ![d] = "closed"] BY <1>6, <2>1 DEF Close
    <2>3. \A c \in Conns : sock'[c] = IF c = d THEN "closed" ELSE sock[c]
      BY <1>1, <2>2 DEF TypeOK
    <2>4. \A c \in Conns \ {d} : sock[c] # "open" BY <1>1, <2>1 DEF ServingInv
    <2>5. ServerTodo(d) = 1 /\ ServerTodo(d)' = 0
      BY <2>1, <2>2, <2>3 DEF ServerTodo, HandlerTodo
    <2>6. \A c \in Conns \ {d} : ServerTodo(c)' = ServerTodo(c)
      BY <1>2, <2>3, <2>4 DEF ServerTodo
    <2> QED BY <1>3, <1>4, <2>5, <2>6, OneProgresses
  <1> QED BY <1>5, <1>6

\* The daemon that is started or started again, and the one that leaves its loop or is
\* killed.
LEMMA LifeProgress ==
  ASSUME IInv, WaitingInv, Start \/ Restart \/ AcceptFails \/ Kill PROVE Progress
  <1>1. starts \in Nat /\ MaxStarts \in Nat /\ starts <= MaxStarts
    BY BoundsAssumption DEF IInv, TypeOK, WaitingInv
  <1>2. UNCHANGED <<kind, bits, cl, sent, read>>
    BY DEF Start, Restart, AcceptFails, Kill, clientVars, inVars, outVars
  <1>3. CASE AcceptFails \/ Kill
    <2>1. Listening /\ (Stop("exited") \/ Stop("crashed")) /\ starts' = starts
      BY <1>3 DEF AcceptFails, Kill, Listening, Down
    <2> QED BY <1>2, <2>1, StopProgress
  <1>4. CASE Start \/ Restart
    <2>1. Lives' \in Nat /\ Lives' < Lives
      <3>1. CASE Start
        <4>1. /\ pc = "off" /\ pc' \in {"accept", "failed"} /\ starts' = starts + 1
              /\ starts < MaxStarts
          BY <3>1 DEF Start, WaitingInv
        <4>2. Lives = 3 * (MaxStarts - starts) + 0 BY <4>1 DEF Lives
        <4>3. Lives' \in {3 * (MaxStarts - starts') + (1 + 0), 3 * (MaxStarts - starts') + (1 + 1)}
          BY <4>1 DEF Lives, One
        <4> QED BY <1>1, <4>1, <4>2, <4>3
      <3>2. CASE Restart
        <4>1. pc \in Down \ {"off"} /\ pc' = "off" /\ starts' = starts
          BY <3>2 DEF Restart, bootVars
        <4>2. Lives = 3 * (MaxStarts - starts) + (1 + 0) BY <4>1 DEF Lives, One, Listening
        <4>3. Lives' = 3 * (MaxStarts - starts) + 0 BY <4>1 DEF Lives
        <4> QED BY <1>1, <4>2, <4>3
      <3> QED BY <1>4, <3>1, <3>2
    <2>2. sock' = sock /\ \A c \in Conns : sock[c] # "open"
      <3>1. pc \in Down BY <1>4 DEF Start, Restart, Down
      <3>2. ~Serving BY <3>1 DEF Serving
      <3> QED BY <1>4, <3>2, NoConnAssumption DEF IInv, ServingInv, Start, Restart, listenVars
    <2>3. \A c \in Conns : /\ ClientTodo(c) \in Nat /\ ClientTodo(c)' = ClientTodo(c)
                           /\ ServerTodo(c) \in Nat /\ ServerTodo(c)' = ServerTodo(c)
      <3>1. \A c \in Conns : ServerTodo(c)' = ServerTodo(c) BY <1>2, <2>2 DEF ServerTodo
      <3> QED BY <1>2, <3>1, ClientTodoType, ClientTodoFrame, ServerTodoType
    <2>4. \A c \in Conns : Todo(c)' <= Todo(c) BY <2>3 DEF Todo
    <2> QED BY <2>1, <2>4, LivesType DEF Progress
  <1> QED BY <1>3, <1>4

\* A client's step brings its own call nearer to its end.
LEMMA CallerProgress ==
  ASSUME IInv, WaitingInv, NEW d \in Conns, ClientStep(d) \/ Quit(d) PROVE Progress
  <1>1. TypeOK /\ ClientOK(d) /\ AnswerOK(d) BY DEF IInv, ClientInv, AnswerInv
  <1>2. UNCHANGED <<kind, bits, body, starts, pc, cur, got>>
    BY DEF ClientStep, Connect, ConnectRefused, Send, SendFails, ReadHeader, ReadBody, ReadFails,
           Quit, outVars, daemonVars, bootVars
  <1>3. /\ cl[d] \notin Left /\ \A c \in Conns \ {d} : cl'[c] = cl[c]
    BY <1>1, ClientMoves
  <1>4. /\ \/ sent' = sent
           \/ cl[d] \in Sending /\ sent' = [sent EXCEPT ![d] = @ + 1]
        /\ \/ read' = read
           \/ cl[d] = "rbody" /\ read' = [read EXCEPT ![d] = @ + 1]
        /\ \/ sock' = sock
           \/ cl[d] = "new" /\ sock' = [sock EXCEPT ![d] = "queued"]
    BY DEF ClientStep, Connect, ConnectRefused, Send, SendFails, ReadHeader, ReadBody, ReadFails,
           Quit, inVars, outVars, listenVars
  <1>5. \A c \in Conns \ {d} : sent'[c] = sent[c] /\ read'[c] = read[c] /\ sock'[c] = sock[c]
    BY <1>1, <1>4 DEF TypeOK
  <1>6. \A c \in Conns \ {d} : ClientTodo(c)' = ClientTodo(c)
    BY <1>2, <1>3, <1>5 DEF ClientTodo, Total
  <1>7. HandlerTodo' = HandlerTodo BY <1>2 DEF HandlerTodo
  <1>8. \A c \in Conns \ {d} : ServerTodo(c)' = ServerTodo(c)
    BY <1>2, <1>5, <1>7 DEF ServerTodo
  <1>9. ServerTodo(d)' = ServerTodo(d)
    <2>1. sock' # sock => sock[d] = "none" /\ sock'[d] = "queued"
      BY <1>1, <1>4 DEF TypeOK, ClientOK
    <2> QED BY <1>2, <1>7, <2>1 DEF ServerTodo
  <1>10. Lives' = Lives BY <1>2 DEF Lives, Listening
  <1>11. ClientTodo(d)' \in Nat /\ ClientTodo(d)' < ClientTodo(d)
    <2>1. ClientTodo(d) \in Nat /\ ClientTodo(d) >= 1 BY <1>3, ClientTodoType
    <2>2. CASE cl'[d] \in Left BY <2>1, <2>2 DEF ClientTodo
    <2>3. CASE cl'[d] \notin Left
      <3>1. /\ sent[d] \in Nat /\ Total(d) \in Nat /\ sent[d] <= Total(d)
            /\ read[d] \in Nat /\ MaxOut \in Nat /\ read[d] <= MaxOut
            /\ Len(body[d]) \in Nat /\ Len(body[d]) <= MaxOut
        BY SizeTypes
      <3>2. Total(d)' = Total(d) BY <1>2 DEF Total
      <3>3. ClientTodo(d) = 1 + One(cl[d] = "new") + One(cl[d] # "rbody")
                              + (Total(d) - sent[d]) + (MaxOut - read[d])
        BY <1>3 DEF ClientTodo
      <3>4. ClientTodo(d)' = 1 + One(cl'[d] = "new") + One(cl'[d] # "rbody")
                               + (Total(d) - sent'[d]) + (MaxOut - read'[d])
        BY <2>3, <3>2 DEF ClientTodo, One
      <3>5. CASE Connect(d)
        <4>1. cl[d] = "new" /\ cl'[d] \in {"tag", "req"} /\ sent' = sent /\ read' = read
          BY <1>1, <3>5 DEF Connect, inVars, outVars, TypeOK
        <4> QED BY <3>1, <3>3, <3>4, <4>1 DEF One
      <3>6. CASE Send(d)
        <4>1. /\ cl[d] \in Sending /\ sent'[d] = sent[d] + 1 /\ read' = read
              /\ cl'[d] \in {"rhdr", "req", "body"}
          BY <1>1, <3>6 DEF Send, outVars, TypeOK
        <4>2. sent[d] < Total(d)
          <5>1. cl[d] = "body" => sent[d] < Total(d) BY <1>1 DEF ClientOK
          <5>2. Total(d) >= 1 /\ (kind[d] # "untagged" => Total(d) >= 2) BY <1>1, StreamTypes
          <5> QED BY <1>1, <3>1, <4>1, <5>1, <5>2 DEF ClientOK, Sending
        <4>3. cl[d] \notin {"new", "rbody"} BY <4>1 DEF Sending
        <4>4. /\ One(cl[d] = "new") = 0 /\ One(cl[d] # "rbody") = 1
              /\ One(cl'[d] = "new") = 0 /\ One(cl'[d] # "rbody") = 1
          BY <4>1, <4>3 DEF One
        <4> QED BY <3>1, <3>3, <3>4, <4>1, <4>2, <4>4
      <3>7. CASE ReadHeader(d)
        <4>1. cl[d] = "rhdr" /\ cl'[d] = "rbody" /\ sent' = sent /\ read' = read
          BY <1>1, <2>3, <3>7 DEF ReadHeader, inVars, outVars, TypeOK, Left
        <4> QED BY <3>1, <3>3, <3>4, <4>1 DEF One
      <3>8. CASE ReadBody(d)
        <4>1. /\ cl[d] = "rbody" /\ cl'[d] = "rbody" /\ sent' = sent
              /\ read'[d] = read[d] + 1 /\ read[d] < Len(body[d])
          BY <1>1, <2>3, <3>8 DEF ReadBody, inVars, TypeOK, Left
        <4> QED BY <3>1, <3>3, <3>4, <4>1 DEF One
      <3>9. ConnectRefused(d) \/ SendFails(d) \/ ReadFails(d) \/ Quit(d) => FALSE
        BY <1>1, <2>3 DEF ConnectRefused, SendFails, ReadFails, Quit, TypeOK, Left
      <3> QED BY <3>5, <3>6, <3>7, <3>8, <3>9 DEF ClientStep
    <2> QED BY <2>2, <2>3
  <1>12. ServerTodo(d) \in Nat /\ ClientTodo(d) \in Nat BY ServerTodoType, ClientTodoType
  <1> QED BY <1>6, <1>8, <1>9, <1>10, <1>11, <1>12, OneProgresses

\* Nothing the daemon, its clients or an operator does is ever done again: each step
\* lowers what is left to do, of which there is a finite amount.  As by NoStandstill there
\* is a step to take as long as a call has not returned, every call returns if only those
\* who can go on do so.
THEOREM EveryStepIsProgress == Spec => [][Progress]_vars /\ []TodoIsFinite
  <1>1. IInv /\ WaitingInv /\ [Next]_vars => [Progress]_vars
    <2> SUFFICES ASSUME IInv, WaitingInv, Next PROVE Progress OBVIOUS
    <2>1. CASE DaemonStep
      BY <2>1, LifeProgress, ConnectionProgress, HandlerSteps, WriteProgress DEF DaemonStep
    <2> QED BY <2>1, LifeProgress, CallerProgress DEF Next
  <1>2. IInv /\ WaitingInv => TodoIsFinite
    BY LivesType, ClientTodoType, ServerTodoType DEF TodoIsFinite, Todo
  <1> QED BY <1>1, <1>2, Invariance, WaitingInvariance, PTL DEF Spec

------------------------------------------------------------------------------
(* A component with the daemon behind it.                                  *)

\* Codec2Component once more, with what is proved of it.
P == INSTANCE Codec2ComponentProofs WITH
    Kinds <- Components, kind <- comp, queue <- works, pc <- step

\* The component's constants are what Codec2Component assumes of its own.
LEMMA ComponentFits == P!ComponentAssumption
  BY ComponentsAssumption DEF P!ComponentAssumption

------------------------------------------------------------------------------
(* The two instances of Codec2Component are one.                           *)

\* Its initial states and its steps.
LEMMA SameSteps ==
  /\ Component!Init => P!Init
  /\ [Component!Next]_Component!vars => [P!Next]_P!vars
  <1> USE DEF Component!SizesOf, P!SizesOf, Component!NoWork, P!NoWork, Component!NoLast,
              P!NoLast, Component!NoBuffers, P!NoBuffers, Component!Finish, P!Finish,
              Component!Buffer, P!Buffer, Component!base, P!base, Component!SizeSetter,
              P!SizeSetter, Component!Inputs, P!Inputs, Component!vars, P!vars
  <1>1. Component!Init => P!Init BY DEF Component!Init, P!Init
  <1>2. Component!Take => P!Take BY DEF Component!Take, P!Take
  <1>3. Component!ReadSize => P!ReadSize BY DEF Component!ReadSize, P!ReadSize
  <1>4. Component!Call => P!Call BY DEF Component!Call, P!Call
  <1>5. Component!Fetch => P!Fetch BY DEF Component!Fetch, P!Fetch
  <1>6. Component!Deliver => P!Deliver BY DEF Component!Deliver, P!Deliver
  <1>7. ASSUME NEW in, NEW eos, Component!Queue(in, eos) PROVE P!Queue(in, eos)
    BY <1>7 DEF Component!Queue, P!Queue
  <1>8. ASSUME NEW new, Component!Configure(new) PROVE P!Configure(new)
    BY <1>8 DEF Component!Configure, P!Configure
  <1>9. Component!Flush => P!Flush BY DEF Component!Flush, P!Flush
  <1> QED
    BY <1>1, <1>2, <1>3, <1>4, <1>5, <1>6, <1>7, <1>8, <1>9
    DEF Component!Next, P!Next, Component!Process, P!Process

\* Its inductive invariant, and the properties it is there for.
LEMMA SameInvariant ==
  /\ Component!IInv <=> P!IInv
  /\ Component!ReturnedExactlyOnce <=> P!ReturnedExactlyOnce
  /\ Component!ResultMatchesOutput <=> P!ResultMatchesOutput
  <1> USE DEF Component!SizesOf, P!SizesOf, Component!NoWork, P!NoWork, Component!NoBuffers,
              P!NoBuffers, Component!Works, P!Works, Component!Past, P!Past
  <1>1. Component!TypeOK <=> P!TypeOK BY DEF Component!TypeOK, P!TypeOK
  <1>2. Component!QueueInv <=> P!QueueInv BY DEF Component!QueueInv, P!QueueInv
  <1>3. Component!WorkInv <=> P!WorkInv BY DEF Component!WorkInv, P!WorkInv
  <1>4. Component!ReturnedInv <=> P!ReturnedInv BY DEF Component!ReturnedInv, P!ReturnedInv
  <1>5. Component!ResultMatchesOutput <=> P!ResultMatchesOutput
    BY DEF Component!ResultMatchesOutput, P!ResultMatchesOutput,
           Component!Cardinality, P!Cardinality
  <1>6. Component!ReturnedExactlyOnce <=> P!ReturnedExactlyOnce
    BY DEF Component!ReturnedExactlyOnce, P!ReturnedExactlyOnce
  <1> QED BY <1>1, <1>2, <1>3, <1>4, <1>5, <1>6 DEF Component!IInv, P!IInv

\* The same of the next state.
LEMMA SameInvariantNext == Component!IInv' <=> P!IInv'
  <1>1. Component!IInv <=> P!IInv BY SameInvariant
  <1> QED BY <1>1, PTL

------------------------------------------------------------------------------
(* A step of the whole is a step of each part.                             *)

\* Every step of the whole is a step of Codec2Component or none of its variables move.
LEMMA ComponentSteps ==
  ASSUME [SysNext]_sysVars PROVE [Component!Next]_Component!vars
  <1>1. CASE UNCHANGED compVars BY <1>1 DEF compVars, Component!vars
  <1>2. CASE OutsideCall BY <1>2 DEF OutsideCall, Component!Next, Component!Process
  <1>3. CASE CallReturns BY <1>3 DEF CallReturns, Component!Next, Component!Process
  <1>4. ASSUME NEW in \in Component!Inputs[comp] \cap Ins, NEW eos \in Flags,
               Component!Queue(in, eos)
        PROVE  Component!Next
    BY <1>4, ComponentsAssumption DEF Component!Next
  <1>5. CASE User BY <1>4, <1>5 DEF User, Component!Next
  <1> QED
    BY <1>1, <1>2, <1>3, <1>5
    DEF SysNext, sysVars, Thread, InsideCall, Server, Operator, Rival, RivalQuits

\* A work in process() is one of those that were queued, and its connection its own.
LEMMA WorkInProcess ==
  ASSUME Component!IInv, step # "idle"
  PROVE  /\ work.n \in 1 .. MaxWorks
         /\ ConnOf[work.n] \in Conns /\ ConnOf[work.n] \in WorkConns
  <1>1. work \in P!Works BY SameInvariant, ComponentFits, P!InProcess
  <1>2. work.n \in 1 .. MaxWorks BY <1>1 DEF P!Works
  <1> QED BY <1>2, ConnOfAssumption DEF WorkConns

\* Every step of the whole is a step of VaapiDaemon or none of its variables move.
LEMMA DaemonSteps ==
  ASSUME Component!IInv, [SysNext]_sysVars PROVE [Next]_vars
  <1>1. CASE UNCHANGED vars BY <1>1
  <1>2. CASE InsideCall
    <2>1. ClientStep(ConnOf[work.n]) /\ ConnOf[work.n] \in Conns
      BY <1>2, WorkInProcess DEF InsideCall
    <2> QED BY <2>1 DEF Next
  <1>3. CASE Server \/ Operator BY <1>3 DEF Server, Operator, Next
  <1>4. ASSUME NEW c \in Rivals, Rival(c) \/ RivalQuits(c) PROVE [Next]_vars
    BY <1>4 DEF Rival, RivalQuits, Rivals, Next
  <1> QED
    BY <1>1, <1>2, <1>3, <1>4
    DEF SysNext, sysVars, Thread, OutsideCall, CallReturns, User

------------------------------------------------------------------------------
(* CallInv is preserved.                                                   *)

\* The places of a call are apart.
LEMMA PlaceFacts ==
  "ok" \in Left /\ "ok" \notin Active /\ "err" \notin Active /\ "new" \notin Active
  BY DEF Left, Active, Sending, Receiving

\* The connection of a work is one of WorkConns.
LEMMA WorkConnections ==
  /\ WorkConns \subseteq Conns
  /\ \A i \in 1 .. MaxWorks : ConnOf[i] \in WorkConns /\ ConnOf[i] \in Conns
  BY ConnOfAssumption DEF WorkConns

\* When process() finishes a work without a buffer there is nothing to be told of its call.
LEMMA FinishEmpty ==
  ASSUME CallInv, step # "call" \/ cl[ConnOf[work.n]] \notin Active, cl' = cl,
         step' \notin {"fetch", "map"}, last'.buffers = {} \/ last' = last
  PROVE  CallInv'
  <1>1. \A c \in WorkConns : cl[c] \notin Active BY DEF CallInv
  <1>2. last'.buffers # {} => /\ last'.work.n \in 1 .. MaxWorks
                              /\ cl'[ConnOf[last'.work.n]] = "ok"
    BY DEF CallInv
  <1> QED BY <1>1, <1>2 DEF CallInv

\* A step of the thread outside its calls: there is no open call, and a work gets its
\* buffer from "map", which it reached after a call that succeeded.
LEMMA OutsideCallStep ==
  ASSUME SysInv, OutsideCall PROVE CallInv'
  <1> USE DEF Component!Finish, Component!NoBuffers
  <1>1. CallInv /\ Component!IInv /\ cl' = cl BY DEF SysInv, OutsideCall, vars, clientVars
  <1>2. CASE Component!Take
    <2>1. step = "idle" /\ step' \notin {"fetch", "map"} BY <1>2 DEF Component!Take
    <2>2. last'.buffers = {} \/ last' = last BY <1>2 DEF Component!Take
    <2> QED BY <1>1, <2>1, <2>2, FinishEmpty
  <1>3. CASE Component!ReadSize
    <2>1. step \in {"width", "height"} /\ step' \in {"height", "call"} /\ last' = last
      BY <1>3 DEF Component!ReadSize, Component!base
    <2> QED BY <1>1, <2>1, FinishEmpty
  <1>4. CASE Component!Fetch
    <2>1. step = "fetch" /\ cl[ConnOf[work.n]] = "ok" BY <1>1, <1>4 DEF Component!Fetch, CallInv
    <2>2. CASE step' = "map" /\ UNCHANGED <<work, last>>
      BY <1>1, <2>1, <2>2 DEF CallInv
    <2>3. CASE step' = "idle" /\ last'.buffers = {}
      BY <1>1, <2>1, <2>3, FinishEmpty
    <2> QED BY <1>4, <2>2, <2>3 DEF Component!Fetch
  <1>5. CASE Component!Deliver
    <2>1. step = "map" /\ step' = "idle" /\ cl[ConnOf[work.n]] = "ok" /\ work.n \in 1 .. MaxWorks
      BY <1>1, <1>5, WorkInProcess DEF Component!Deliver, CallInv
    <2>2. CASE last'.work = work
      <3>1. \A c \in WorkConns : cl[c] \notin Active BY <1>1, <2>1 DEF CallInv
      <3> QED BY <1>1, <2>1, <2>2, <3>1 DEF CallInv
    <2> QED BY <1>5, <2>2 DEF Component!Deliver
  <1> QED BY <1>2, <1>3, <1>4, <1>5 DEF OutsideCall

\* A step inside the call moves the call of the work in process() and no other; those
\* that have come back stay as they are.
LEMMA InsideCallStep ==
  ASSUME SysInv, InsideCall PROVE CallInv'
  <1> DEFINE c == ConnOf[work.n]
  <1>1. /\ CallInv /\ Component!IInv /\ TypeOK /\ step = "call" /\ ClientStep(c)
        /\ UNCHANGED <<step, work, last>>
    BY DEF SysInv, IInv, InsideCall, compVars
  <1>2. c \in Conns BY <1>1, WorkInProcess
  <1> HIDE DEF c
  <1>3. cl[c] \notin Left /\ \A d \in Conns \ {c} : cl'[d] = cl[d]
    BY <1>1, <1>2, ClientMoves
  <1>4. last.buffers # {} => /\ last.work.n \in 1 .. MaxWorks
                             /\ cl'[ConnOf[last.work.n]] = "ok"
    <2> SUFFICES ASSUME last.buffers # {}
                 PROVE  /\ last.work.n \in 1 .. MaxWorks
                        /\ cl'[ConnOf[last.work.n]] = "ok"
      OBVIOUS
    <2>1. /\ last.work.n \in 1 .. MaxWorks /\ cl[ConnOf[last.work.n]] = "ok"
          /\ ConnOf[last.work.n] \in Conns
      BY <1>1, WorkConnections DEF CallInv
    <2> QED BY <1>3, <2>1, PlaceFacts
  <1>5. \A d \in WorkConns : cl'[d] \in Active => d = c
    BY <1>1, <1>3, WorkConnections DEF CallInv, c
  <1> QED BY <1>1, <1>4, <1>5 DEF CallInv, c

\* The call returns: the thread goes on after a success only, and leaves no call open.
LEMMA CallReturnsStep ==
  ASSUME SysInv, CallReturns PROVE CallInv'
  <1> DEFINE c == ConnOf[work.n]
  <1>1. /\ CallInv /\ step = "call" /\ cl[c] \in {"ok", "err"} /\ cl' = cl /\ Component!Call
        /\ step' = IF cl[c] = "ok" THEN "fetch" ELSE "idle"
    BY DEF SysInv, CallReturns, vars, clientVars
  <1>2. cl[c] \notin Active BY <1>1, PlaceFacts
  <1>3. CASE step' = "fetch" /\ UNCHANGED <<work, last>>
    <2>1. \A d \in WorkConns : cl[d] \notin Active BY <1>1, <1>2 DEF CallInv
    <2> QED BY <1>1, <1>3, <2>1 DEF CallInv
  <1>4. CASE step' = "idle" /\ last'.buffers = {}
    BY <1>1, <1>2, <1>4, FinishEmpty
  <1> QED BY <1>1, <1>3, <1>4 DEF Component!Call, Component!Finish, Component!NoBuffers

\* A step that leaves process() alone, and the places of its calls.
LEMMA ElsewhereStep ==
  ASSUME SysInv, UNCHANGED <<step, work, last>>, \A c \in WorkConns : cl'[c] = cl[c]
  PROVE  CallInv'
  <1>1. CallInv /\ Component!IInv BY DEF SysInv
  <1>2. last.buffers # {} => cl'[ConnOf[last.work.n]] = "ok"
    BY <1>1, WorkConnections DEF CallInv
  <1>3. step \in {"fetch", "map"} => cl'[ConnOf[work.n]] = "ok"
    BY <1>1, WorkInProcess DEF CallInv
  <1> QED BY <1>1, <1>2, <1>3 DEF CallInv

\* Every step of the whole keeps the invariant.
LEMMA SysStep == ASSUME SysInv, [SysNext]_sysVars PROVE SysInv'
  <1>1. IInv /\ Component!IInv /\ CallInv BY DEF SysInv
  <1>2. IInv' BY <1>1, DaemonSteps, StepIInv
  <1>3. Component!IInv'
    <2>1. [P!Next]_P!vars BY ComponentSteps, SameSteps
    <2>2. P!IInv' BY <1>1, <2>1, SameInvariant, ComponentFits, P!StepIInv
    <2> QED BY <2>2, SameInvariantNext
  <1>4. CallInv'
    <2>1. CASE UNCHANGED sysVars
      BY <2>1, ElsewhereStep DEF sysVars, vars, clientVars, compVars
    <2>2. CASE OutsideCall BY <2>2, OutsideCallStep
    <2>3. CASE InsideCall BY <2>3, InsideCallStep
    <2>4. CASE CallReturns BY <2>4, CallReturnsStep
    <2>5. CASE User
      <3>1. UNCHANGED <<step, work, last>> /\ cl' = cl
        BY <2>5 DEF User, Component!Queue, Component!Configure, Component!Flush,
                    Component!base, vars, clientVars
      <3> QED BY <3>1, ElsewhereStep
    <2>6. CASE Server \/ Operator
      <3>1. cl' = cl
        BY <2>6 DEF Server, Operator, DaemonStep, Kill, Restart, Start, Accept, AcceptFails,
           HandleConnection, RecvRequest, HandleEncode, ReadDecodeRequest, ReadBitstream,
           HandleDecode, WriteHeader, WriteBody, Close, clientVars
      <3> QED BY <2>6, <3>1, ElsewhereStep DEF Server, Operator, compVars
    <2>7. ASSUME NEW c \in Rivals, Rival(c) \/ RivalQuits(c) PROVE CallInv'
      <3>1. c \in Conns /\ c \notin WorkConns BY DEF Rivals
      <3>2. \A d \in Conns \ {c} : cl'[d] = cl[d]
        BY <1>1, <2>7, <3>1, ClientMoves DEF Rival, RivalQuits, IInv
      <3>3. \A d \in WorkConns : cl'[d] = cl[d] BY <3>1, <3>2, WorkConnections
      <3> QED BY <2>7, <3>3, ElsewhereStep DEF Rival, RivalQuits, compVars
    <2> QED
      BY <2>1, <2>2, <2>3, <2>4, <2>5, <2>6, <2>7 DEF SysNext, Thread
  <1> QED BY <1>2, <1>3, <1>4 DEF SysInv

\* It holds when nothing has happened yet.
LEMMA SysStart == ASSUME SysInit PROVE SysInv
  <1>1. IInv BY InitIInv DEF SysInit
  <1>2. Component!IInv
    <2>1. P!Init BY SameSteps DEF SysInit
    <2> QED BY <2>1, SameInvariant, ComponentFits, P!InitIInv
  <1>3. CallInv
    <2>1. step = "idle" /\ last.buffers = {}
      BY DEF SysInit, Component!Init, Component!NoLast, Component!NoBuffers
    <2>2. \A c \in WorkConns : cl[c] = "new"
      BY WorkConnections DEF SysInit, Init
    <2> QED BY <2>1, <2>2, PlaceFacts DEF CallInv
  <1> QED BY <1>1, <1>2, <1>3 DEF SysInv

------------------------------------------------------------------------------
(* The theorems about the whole.                                           *)

\* Both parts keep their invariants in the whole, and CallInv ties them together.
THEOREM SystemInvariance == SysSpec => []SysInv
  <1>1. SysInit => SysInv BY SysStart
  <1>2. SysInv /\ [SysNext]_sysVars => SysInv' BY SysStep
  <1> QED BY <1>1, <1>2, PTL DEF SysSpec

\* The work that came back with a frame has the whole frame the daemon answered to that
\* work's own call, however many clients and works there are and whatever became of the
\* daemon; and no call of an earlier work is still open.
THEOREM OwnAnswer == SysSpec => []WorksGetOwnAnswer
  <1>1. SysInv => WorksGetOwnAnswer
    <2> SUFFICES ASSUME SysInv PROVE WorksGetOwnAnswer OBVIOUS
    <2>1. IInv /\ CallInv /\ TypeOK /\ AnswerInv BY DEF SysInv, IInv
    <2>2. SuccessIsComplete BY <2>1, WholeAnswers
    <2>3. ASSUME last.buffers # {}
          PROVE  LET c == ConnOf[last.work.n]
                 IN  /\ cl[c] = "ok" /\ hdr[c].ok
                     /\ Len(body[c]) = hdr[c].size
                     /\ \A i \in DOMAIN body[c] : body[c][i] = c
      <3> DEFINE c == ConnOf[last.work.n]
      <3>1. c \in Conns /\ cl[c] = "ok" BY <2>1, <2>3, WorkConnections DEF CallInv
      <3> HIDE DEF c
      <3>2. hdr[c].ok /\ Len(body[c]) = hdr[c].size BY <2>2, <3>1 DEF SuccessIsComplete
      <3>3. body[c] \in Seq(Conns) BY <2>1, <3>1 DEF TypeOK
      <3>4. \A i \in DOMAIN body[c] : body[c][i] = c
        BY <2>1, <3>1, <3>3 DEF AnswerInv, AnswerOK
      <3> QED BY <3>1, <3>2, <3>4 DEF c
    <2> QED BY <2>1, <2>3 DEF WorksGetOwnAnswer, CallInv
  <1> QED BY <1>1, SystemInvariance, PTL

\* With the daemon and its other clients behind its calls the component does nothing
\* that Codec2Component does not allow.
THEOREM SystemImplementsComponent == SysSpec => Component!Init /\ [][Component!Next]_Component!vars
  <1>1. SysInit => Component!Init BY DEF SysInit
  <1>2. [SysNext]_sysVars => [Component!Next]_Component!vars BY ComponentSteps
  <1> QED BY <1>1, <1>2, PTL DEF SysSpec

\* Nor does the daemon do anything its own specification does not allow.
THEOREM SystemImplementsDaemon == SysSpec => Init /\ [][Next]_vars
  <1>1. SysInit => Init BY DEF SysInit
  <1>2. SysInv /\ [SysNext]_sysVars => [Next]_vars BY DaemonSteps DEF SysInv
  <1> QED BY <1>1, <1>2, SystemInvariance, PTL DEF SysSpec

\* No work is lost or returned twice with the real daemon behind the component.
THEOREM SystemLosesNoWork == SysSpec => []Component!ReturnedExactlyOnce
  <1>1. Component!IInv => Component!ReturnedExactlyOnce
    BY SameInvariant, ComponentFits, P!PastIsReturned
  <1>2. SysInv => Component!IInv BY DEF SysInv
  <1> QED BY <1>1, <1>2, SystemInvariance, PTL

\* The component's own calls are not killed.
LEMMA NoneKilledStep ==
  ASSUME SysInv, NoneKilled, [SysNext]_sysVars PROVE NoneKilled'
  <1>1. TypeOK /\ Component!IInv BY DEF SysInv, IInv
  <1>2. CASE cl' = cl BY <1>2 DEF NoneKilled
  <1>3. CASE InsideCall
    <2>1. PICK d \in Conns : ClientStep(d) BY <1>1, <1>3, WorkInProcess DEF InsideCall
    <2>2. \A c \in Conns \ {d} : cl'[c] = cl[c] BY <1>1, <2>1, ClientMoves
    <2>3. cl'[d] # "gone"
      BY <1>1, <2>1 DEF ClientStep, Connect, ConnectRefused, Send, SendFails, ReadHeader,
                        ReadBody, ReadFails, TypeOK
    <2> QED BY <2>2, <2>3, WorkConnections DEF NoneKilled
  <1>4. ASSUME NEW d \in Rivals, Rival(d) \/ RivalQuits(d) PROVE NoneKilled'
    <2>1. d \in Conns /\ d \notin WorkConns BY DEF Rivals
    <2>2. \A c \in Conns \ {d} : cl'[c] = cl[c]
      BY <1>1, <1>4, <2>1, ClientMoves DEF Rival, RivalQuits
    <2> QED BY <2>1, <2>2, WorkConnections DEF NoneKilled
  <1>5. Server \/ Operator => cl' = cl
    BY DEF Server, Operator, DaemonStep, Kill, Restart, Start, Accept, AcceptFails,
       HandleConnection, RecvRequest, HandleEncode, ReadDecodeRequest, ReadBitstream,
       HandleDecode, WriteHeader, WriteBody, Close, clientVars
  <1>6. User \/ OutsideCall \/ CallReturns \/ UNCHANGED sysVars => cl' = cl
    BY DEF User, OutsideCall, CallReturns, sysVars, vars, clientVars
  <1> QED BY <1>2, <1>3, <1>4, <1>5, <1>6 DEF SysNext, Thread

\* The thread that is in a call, with rivals before it and a daemon that may be full, dead
\* or not yet started, always waits for somebody who can go on.
THEOREM CallsAreNotStuck == SysSpec => []CallGoesOn
  <1>1. SysInit => NoneKilled BY WorkConnections DEF SysInit, Init, NoneKilled
  <1>2. SysInv /\ NoneKilled /\ [SysNext]_sysVars => NoneKilled' BY NoneKilledStep
  <1>3. SysInit => WaitingInv BY BoundsAssumption DEF SysInit, Init, WaitingInv
  <1>4. SysInv /\ WaitingInv /\ [SysNext]_sysVars => WaitingInv'
    BY DaemonSteps, StepWaiting DEF SysInv
  <1>5. SysInv /\ NoneKilled /\ WaitingInv => CallGoesOn
    <2> SUFFICES ASSUME SysInv, NoneKilled, WaitingInv, step = "call"
                 PROVE  CallGoesOn
      BY DEF CallGoesOn
    <2> DEFINE c == ConnOf[work.n]
    <2>1. IInv /\ TypeOK /\ CallInv /\ Component!IInv BY DEF SysInv, IInv
    <2>2. c \in Conns /\ c \in WorkConns BY <2>1, WorkInProcess
    <2>3. cl[c] \in Left => cl[c] \in {"ok", "err"} BY <2>2 DEF NoneKilled, Left
    <2> HIDE DEF c
    <2>4. cl[c] \notin Left =>
            \/ ClientGoesOn(c) \/ DaemonGoesOn
            \/ Serving /\ cl[cur] \in Active /\ ClientGoesOn(cur)
      BY <2>1, <2>2, SomebodyGoesOn DEF NoStandstill
    <2>5. Serving /\ cl[cur] \in Active => cur \in Rivals \/ cur = c
      <3>1. Serving => cur \in Conns BY <2>1, ServedConnection DEF IInv
      <3>2. cur \in WorkConns /\ cl[cur] \in Active => cur = c BY <2>1 DEF CallInv, c
      <3> QED BY <3>1, <3>2 DEF Rivals
    <2> QED BY <2>3, <2>4, <2>5 DEF CallGoesOn, c
  <1> QED BY <1>1, <1>2, <1>3, <1>4, <1>5, SystemInvariance, PTL DEF SysSpec
==============================================================================
