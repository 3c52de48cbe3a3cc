----------------------------- MODULE VaapiDaemon -----------------------------
(***************************************************************************)
(* The socket server of tier5-vaapi-daemon/daemon.c and its clients.       *)
(*                                                                         *)
(* One process serves an AF_UNIX stream socket, one connection at a time   *)
(* and one request/response per connection, with blocking calls and no     *)
(* timeouts.  A client is one call of encodeViaDaemon or decodeViaDaemon   *)
(* (or one run of a test client), so a connection and its client have the  *)
(* same identity c.                                                        *)
(*                                                                         *)
(* A stream is a count of items: item 1 is the VaapiCommand tag, item 2    *)
(* the request struct (with its SCM_RIGHTS fd for encode), and the items   *)
(* after it are chunks of bitstream.  sent[c] - taken[c] items lie in the  *)
(* socket buffer.  In the other direction hdr[c] is the response header    *)
(* and body[c] the chunks after it, each named by the request whose frame  *)
(* it holds; read[c] of them have reached the client.                      *)
(***************************************************************************)
EXTENDS Integers, Sequences, FiniteSets

CONSTANTS
    Conns,      \* connections, one per client call
    NoConn,     \* conn_fd before accept() has returned
    Kinds,      \* the kinds of client that may show up, see AllKinds
    MaxBits,    \* DECODE_MAX_BITSTREAM_SIZE, in chunks
    MaxOut,     \* the longest response body, in chunks
    SockBuf,    \* chunks one direction of a socket can hold
    Backlog,    \* the backlog given to listen()
    FdLimit,    \* descriptors that may leak before accept() fails (EMFILE)
    MaxStarts   \* bound: how often an operator starts the daemon

\* "untagged" clients predate the command tag (rgba-test-client.c and others
\* still do); "truncated" and "nofd" are the two requests recv_request refuses.
AllKinds == {"encode", "decode", "untagged", "truncated", "nofd"}

ASSUME NoConnAssumption == NoConn \notin Conns
ASSUME KindsAssumption == Kinds \subseteq AllKinds
ASSUME BoundsAssumption ==
    /\ MaxBits \in Nat \ {0} /\ MaxOut \in Nat \ {0} /\ SockBuf \in Nat \ {0}
    /\ Backlog \in Nat /\ FdLimit \in Nat \ {0} /\ MaxStarts \in Nat \ {0}

VARIABLES
    (* the clients *)
    kind,       \* what each client is
    bits,       \* DecodeRequest.bitstream_size, in chunks
    cl,         \* where each client is in its call
    (* the sockets *)
    sent, taken, hdr, body, read,
    sock,       \* the server end: "none", "queued", "open", "closed" by the
                \* daemon, or "reset" by the end of its process
    queue,      \* connections waiting for accept()
    (* the daemon *)
    pc, starts,
    have,       \* the commands whose backend initialised
    cur,        \* conn_fd
    got,        \* chunks of bitstream read so far
    reply,      \* the response being sent
    frameOf,    \* the request whose frame g_out_buf holds
    fds         \* requests of which the daemon holds a dma-buf fd open

clientVars == <<kind, bits, cl>>
inVars     == <<sent, taken>>
outVars    == <<hdr, body, read>>
listenVars == <<sock, queue>>
bootVars   == <<starts, have>>
vars == <<clientVars, inVars, outVars, listenVars, bootVars,
          pc, cur, got, reply, frameOf, fds>>

------------------------------------------------------------------------------
(* Responses: status 0 with a size, or an error with no body.              *)

Err   == [ok |-> FALSE, size |-> 0]
Ok(n) == [ok |-> TRUE, size |-> n]
NoHdr == [ok |-> FALSE, size |-> -1]      \* no header has been written
Replies == [ok : BOOLEAN, size : 0 .. MaxOut]
Headers == [ok : BOOLEAN, size : -1 .. MaxOut]

Sending   == {"tag", "req", "body"}
Receiving == {"rhdr", "rbody"}
Active    == Sending \cup Receiving
Left      == {"ok", "err", "gone"}        \* the client's end is closed

DecodeFailed(c) == kind[c] = "decode" /\ hdr[c] = Err

\* What the client writes in all: tag, request struct, bitstream.
Total(c) == CASE kind[c] = "untagged" -> 1
              [] kind[c] = "decode"   -> 2 + bits[c]
              [] OTHER                -> 2

InputReady(c) == taken[c] < sent[c]
InputEnded(c) == ~InputReady(c) /\ cl[c] \in Left
PeerClosed(c) == sock[c] \in {"closed", "reset"}
InRoom(c)     == sent[c] - taken[c] < SockBuf
OutRoom(c)    == Len(body[c]) - read[c] < SockBuf

\* The listening socket exists exactly while the daemon runs its loop.
\* Its process ends in four ways: "failed" to come up, "exited" from its loop,
\* "killed" by SIGPIPE, or "crashed", killed from outside or by a fault.
Down == {"off", "failed", "exited", "killed", "crashed"}
Listening == pc \notin Down

\* One connection is being served.
Serving == pc \notin Down \cup {"accept"}

Init ==
    /\ kind \in [Conns -> Kinds]
    /\ bits \in [Conns -> 0 .. MaxBits + 1]
    /\ \A c \in Conns : kind[c] # "decode" => bits[c] = 0
    /\ cl = [c \in Conns |-> "new"]
    /\ sent = [c \in Conns |-> 0]
    /\ taken = [c \in Conns |-> 0]
    /\ hdr = [c \in Conns |-> NoHdr]
    /\ body = [c \in Conns |-> <<>>]
    /\ read = [c \in Conns |-> 0]
    /\ sock = [c \in Conns |-> "none"]
    /\ queue = <<>>
    /\ pc = "off" /\ starts = 0 /\ have = {}
    /\ cur = NoConn /\ got = 0 /\ reply = Err
    /\ frameOf = NoConn
    /\ fds = {}

------------------------------------------------------------------------------
(* The clients: encodeViaDaemon and decodeViaDaemon, call by call.         *)

daemonVars == <<bootVars, pc, cur, got, reply, frameOf, fds>>

\* connect() returns as soon as the kernel has queued the connection; it
\* blocks while the queue is longer than the backlog.
Connect(c) ==
    /\ cl[c] = "new" /\ Listening /\ Len(queue) <= Backlog
    /\ cl' = [cl EXCEPT ![c] = IF kind[c] = "untagged" THEN "req" ELSE "tag"]
    /\ sock' = [sock EXCEPT ![c] = "queued"]
    /\ queue' = Append(queue, c)
    /\ UNCHANGED <<kind, bits, inVars, outVars, daemonVars>>

ConnectRefused(c) ==
    /\ cl[c] = "new" /\ ~Listening
    /\ cl' = [cl EXCEPT ![c] = "err"]
    /\ UNCHANGED <<kind, bits, inVars, outVars, listenVars, daemonVars>>

\* One write() or sendmsg(): it blocks while the socket buffer is full.
Send(c) ==
    /\ cl[c] \in Sending /\ ~PeerClosed(c) /\ InRoom(c)
    /\ sent' = [sent EXCEPT ![c] = @ + 1]
    /\ cl' = [cl EXCEPT ![c] =
                IF sent'[c] = Total(c) THEN "rhdr"
                ELSE IF cl[c] = "tag" THEN "req" ELSE "body"]
    /\ UNCHANGED <<kind, bits, taken, outVars, listenVars, daemonVars>>

\* The server end is closed: the write fails and the call returns -1.
SendFails(c) ==
    /\ cl[c] \in Sending /\ PeerClosed(c)
    /\ cl' = [cl EXCEPT ![c] = "err"]
    /\ UNCHANGED <<kind, bits, inVars, outVars, listenVars, daemonVars>>

ReadHeader(c) ==
    /\ cl[c] = "rhdr" /\ hdr[c] # NoHdr
    /\ cl' = [cl EXCEPT ![c] = IF ~hdr[c].ok THEN "err"
                               ELSE IF hdr[c].size = 0 THEN "ok" ELSE "rbody"]
    /\ UNCHANGED <<kind, bits, inVars, outVars, listenVars, daemonVars>>

ReadBody(c) ==
    /\ cl[c] = "rbody" /\ read[c] < Len(body[c])
    /\ read' = [read EXCEPT ![c] = @ + 1]
    /\ cl' = [cl EXCEPT ![c] = IF read'[c] = hdr[c].size THEN "ok" ELSE "rbody"]
    /\ UNCHANGED <<kind, bits, inVars, hdr, body, listenVars, daemonVars>>

\* Fault: read() of the header is not looked at.
HeaderEndTakenForSuccess(c) ==
    /\ PeerClosed(c)
    /\ \/ cl[c] = "rhdr" /\ hdr[c] = NoHdr /\ cl' = [cl EXCEPT ![c] = "ok"]
       \/ cl[c] = "rbody" /\ read[c] = Len(body[c]) /\ cl' = [cl EXCEPT ![c] = "err"]
    /\ UNCHANGED <<kind, bits, inVars, outVars, listenVars, daemonVars>>

\* Fault: the loop that reads the body breaks at the end of the stream and returns
\* what it has, as it does when the body is whole.
BodyEndTakenForSuccess(c) ==
    /\ PeerClosed(c)
    /\ \/ cl[c] = "rhdr" /\ hdr[c] = NoHdr /\ cl' = [cl EXCEPT ![c] = "err"]
       \/ cl[c] = "rbody" /\ read[c] = Len(body[c]) /\ cl' = [cl EXCEPT ![c] = "ok"]
    /\ UNCHANGED <<kind, bits, inVars, outVars, listenVars, daemonVars>>

\* End of file before the header, or before the body the header promised.
ReadFails(c) ==
    /\ PeerClosed(c)
    /\ \/ cl[c] = "rhdr" /\ hdr[c] = NoHdr
       \/ cl[c] = "rbody" /\ read[c] = Len(body[c])
    /\ cl' = [cl EXCEPT ![c] = "err"]
    /\ UNCHANGED <<kind, bits, inVars, outVars, listenVars, daemonVars>>

\* The client process is killed; the kernel closes its end of the socket.
Quit(c) ==
    /\ cl[c] \in Active
    /\ cl' = [cl EXCEPT ![c] = "gone"]
    /\ UNCHANGED <<kind, bits, inVars, outVars, listenVars, daemonVars>>

ClientStep(c) ==
    \/ Connect(c) \/ ConnectRefused(c) \/ Send(c) \/ SendFails(c)
    \/ ReadHeader(c) \/ ReadBody(c) \/ ReadFails(c)

------------------------------------------------------------------------------
(* The daemon: main, handle_connection, handle_encode, handle_decode.      *)

\* main() up to listen().  Both backends missing is the only fatal outcome
\* of the probes; the socket calls may fail as well.
Start ==
    /\ pc = "off"
    /\ \/ pc' = "accept" /\ have' \in (SUBSET {"encode", "decode"}) \ {{}}
       \/ pc' = "failed" /\ UNCHANGED have
    /\ starts' = starts + 1
    /\ UNCHANGED <<clientVars, inVars, outVars, listenVars, cur, got, reply, frameOf, fds>>

\* Nothing in the repository restarts the daemon: an operator runs it again.
Restart ==
    /\ pc \in Down \ {"off"} /\ starts < MaxStarts
    /\ pc' = "off"
    /\ UNCHANGED <<clientVars, inVars, outVars, listenVars, bootVars,
                   cur, got, reply, frameOf, fds>>

Accept ==
    /\ pc = "accept" /\ queue # <<>> /\ Cardinality(fds) < FdLimit
    /\ cur' = Head(queue)
    /\ queue' = Tail(queue)
    /\ sock' = [sock EXCEPT ![Head(queue)] = "open"]
    /\ pc' = "tag"
    /\ UNCHANGED <<clientVars, inVars, outVars, bootVars, got, reply, frameOf, fds>>

\* The process ends: its memory is gone, the kernel closes every descriptor it had.
Stop(how) ==
    /\ pc' = how
    /\ sock' = [c \in Conns |->
                  IF sock[c] \in {"queued", "open"} THEN "reset" ELSE sock[c]]
    /\ queue' = <<>>
    /\ cur' = NoConn /\ got' = 0 /\ reply' = Err
    /\ have' = {} /\ frameOf' = NoConn /\ fds' = {}

\* accept() fails with no descriptor left, and main leaves its loop.
AcceptFails ==
    /\ pc = "accept" /\ Cardinality(fds) >= FdLimit
    /\ Stop("exited")
    /\ UNCHANGED <<clientVars, inVars, outVars, starts>>

Take(c) == taken' = [taken EXCEPT ![c] = @ + 1]

\* Fault: an early return that sends no error.
RespondOnlyOk(r) == pc' = (IF r.ok THEN "whdr" ELSE "close") /\ reply' = r
Respond(r) == pc' = "whdr" /\ reply' = r

\* read(command tag) and the dispatch on it; the read blocks until the client
\* has written the tag or has gone.
HandleConnection ==
    /\ pc = "tag"
    /\ \/ /\ InputReady(cur)
          /\ Take(cur)
          /\ pc' = CASE kind[cur] = "untagged" -> "close"
                     [] kind[cur] = "decode"   -> "dreq"
                     [] OTHER                  -> "recvmsg"
       \/ /\ InputEnded(cur)
          /\ pc' = "close"
          /\ UNCHANGED taken
    /\ UNCHANGED <<clientVars, sent, outVars, listenVars, bootVars,
                   cur, got, reply, frameOf, fds>>

\* recv_request().  The kernel installs the fd with the bytes it came with,
\* so a request refused for its length leaves the fd open.
RecvRequest ==
    /\ pc = "recvmsg"
    /\ \/ /\ InputReady(cur)
          /\ Take(cur)
          /\ fds' = IF kind[cur] = "nofd" THEN fds ELSE fds \cup {cur}
          /\ IF kind[cur] = "encode" THEN pc' = "encode" /\ UNCHANGED reply
                                     ELSE Respond(Err)
       \/ /\ InputEnded(cur)
          /\ Respond(Err)
          /\ UNCHANGED <<taken, fds>>
    /\ UNCHANGED <<clientVars, sent, outVars, listenVars, bootVars, cur, got, frameOf>>

\* Fault: the rejection for a missing backend forgets close(dmabuf_fd).
EncodeKeepsFd ==
    /\ pc = "encode"
    /\ \/ Respond(Err) /\ UNCHANGED fds
       \/ /\ "encode" \in have /\ \E n \in 0 .. MaxOut : Respond(Ok(n))
          /\ fds' = fds \ {cur}
    /\ UNCHANGED <<clientVars, inVars, outVars, listenVars, bootVars, cur, got, frameOf>>

\* The rest of handle_encode: the backend's answer, then close(dmabuf_fd).
HandleEncode ==
    /\ pc = "encode"
    /\ fds' = fds \ {cur}
    /\ \/ Respond(Err)
       \/ "encode" \in have /\ \E n \in 0 .. MaxOut : Respond(Ok(n))
    /\ UNCHANGED <<clientVars, inVars, outVars, listenVars, bootVars, cur, got, frameOf>>

\* read(DecodeRequest) and the check of bitstream_size.
ReadDecodeRequest ==
    /\ pc = "dreq"
    /\ \/ /\ InputReady(cur)
          /\ Take(cur)
          /\ IF bits[cur] \in 1 .. MaxBits
               THEN pc' = "dbody" /\ got' = 0 /\ UNCHANGED reply
               ELSE Respond(Err) /\ UNCHANGED got
       \/ /\ InputEnded(cur)
          /\ Respond(Err)
          /\ UNCHANGED <<taken, got>>
    /\ UNCHANGED <<clientVars, sent, outVars, listenVars, bootVars, cur, frameOf, fds>>

\* Fault: one read() where the code loops until bitstream_size bytes are there.
ReadBitstreamOnce ==
    /\ pc = "dbody"
    /\ \/ InputReady(cur) /\ Take(cur) /\ got' = got + 1 /\ pc' = "decode" /\ UNCHANGED reply
       \/ InputEnded(cur) /\ Respond(Err) /\ UNCHANGED <<taken, got>>
    /\ UNCHANGED <<clientVars, sent, outVars, listenVars, bootVars, cur, frameOf, fds>>

\* Fault: the loop only ends when got reaches bitstream_size, not when read()
\* returns 0.
ReadBitstreamIgnoresEnd ==
    /\ pc = "dbody" /\ InputReady(cur)
    /\ Take(cur) /\ got' = got + 1
    /\ pc' = IF got' = bits[cur] THEN "decode" ELSE "dbody"
    /\ UNCHANGED <<clientVars, sent, outVars, listenVars, bootVars, cur, reply, frameOf, fds>>

ReadBitstream ==
    /\ pc = "dbody"
    /\ \/ /\ InputReady(cur)
          /\ Take(cur)
          /\ got' = got + 1
          /\ pc' = IF got' = bits[cur] THEN "decode" ELSE "dbody"
          /\ UNCHANGED reply
       \/ /\ InputEnded(cur)
          /\ Respond(Err)
          /\ UNCHANGED <<taken, got>>
    /\ UNCHANGED <<clientVars, sent, outVars, listenVars, bootVars, cur, frameOf, fds>>

\* Fault: a decode that answers with what g_out_buf held before.
DecodeLeavesOldFrame ==
    /\ pc = "decode"
    /\ \/ Respond(Err)
       \/ "decode" \in have /\ \E n \in 0 .. MaxOut : Respond(Ok(n))
    /\ UNCHANGED <<clientVars, inVars, outVars, listenVars, bootVars,
                   cur, got, frameOf, fds>>

\* The rest of handle_decode.  The frame is left in g_out_buf; a decode that
\* fails after its first plane has overwritten what was there, and one that
\* fails in vk_detile may leave the fd it dup'ed open.
HandleDecode ==
    /\ pc = "decode"
    /\ \/ Respond(Err) /\ UNCHANGED <<frameOf, fds>>
       \/ /\ "decode" \in have
          /\ Respond(Err)
          /\ frameOf' \in {frameOf, cur}
          /\ fds' \in {fds, fds \cup {cur}}
       \/ /\ "decode" \in have
          /\ \E n \in 0 .. MaxOut : Respond(Ok(n))
          /\ frameOf' = cur
          /\ UNCHANGED fds
    /\ UNCHANGED <<clientVars, inVars, outVars, listenVars, bootVars, cur, got>>

\* Fault: the return after send_decode_response(-1) is missing.
GoesOnAfterError ==
    /\ pc = "whdr" /\ cl[cur] \notin Left
    /\ hdr' = [hdr EXCEPT ![cur] = reply]
    /\ pc' = CASE reply.ok /\ reply.size > 0 -> "wbody"
               [] ~reply.ok /\ kind[cur] = "decode" -> "decode"
               [] OTHER -> "close"
    /\ UNCHANGED <<clientVars, inVars, body, read, listenVars, bootVars,
                   cur, got, reply, frameOf, fds>>

\* write(response header).  The daemon leaves SIGPIPE at its default, so a
\* write to a client that has gone ends the process.
WriteHeader ==
    /\ pc = "whdr"
    /\ \/ /\ cl[cur] \notin Left
          /\ hdr' = [hdr EXCEPT ![cur] = reply]
          /\ pc' = IF reply.ok /\ reply.size > 0 THEN "wbody" ELSE "close"
          /\ UNCHANGED <<listenVars, have, cur, got, reply, frameOf, fds>>
       \/ /\ cl[cur] \in Left
          /\ Stop("killed")
          /\ UNCHANGED hdr
    /\ UNCHANGED <<clientVars, inVars, body, read, starts>>

\* write(response body): one call, a chunk at a time as the client makes room.
\* If the client goes in the middle the call returns short instead.
WriteBody ==
    /\ pc = "wbody"
    /\ \/ /\ cl[cur] \notin Left /\ OutRoom(cur)
          /\ body' = [body EXCEPT ![cur] =
                        Append(@, IF kind[cur] = "decode" THEN frameOf ELSE cur)]
          /\ pc' = IF Len(body'[cur]) = reply.size THEN "close" ELSE "wbody"
          /\ UNCHANGED <<listenVars, have, cur, got, reply, frameOf, fds>>
       \/ /\ cl[cur] \in Left /\ body[cur] # <<>>
          /\ pc' = "close"
          /\ UNCHANGED <<body, listenVars, have, cur, got, reply, frameOf, fds>>
       \/ /\ cl[cur] \in Left /\ body[cur] = <<>>
          /\ Stop("killed")
          /\ UNCHANGED body
    /\ UNCHANGED <<clientVars, inVars, hdr, read, starts>>

Close ==
    /\ pc = "close"
    /\ sock' = [sock EXCEPT ![cur] = "closed"]
    /\ cur' = NoConn /\ got' = 0 /\ reply' = Err     \* the handlers' locals
    /\ pc' = "accept"
    /\ UNCHANGED <<clientVars, inVars, outVars, queue, bootVars, frameOf, fds>>

\* The daemon's process is killed (the out-of-memory killer, an operator, a fault in
\* a driver it loaded) between any two of its steps: before, between and after the
\* writes of an answer to a client that is still reading it.
Kill ==
    /\ Listening
    /\ Stop("crashed")
    /\ UNCHANGED <<clientVars, inVars, outVars, starts>>

DaemonStep ==
    \/ Start \/ Accept \/ AcceptFails \/ HandleConnection
    \/ RecvRequest \/ HandleEncode
    \/ ReadDecodeRequest \/ ReadBitstream \/ HandleDecode
    \/ WriteHeader \/ WriteBody \/ Close

Next == DaemonStep \/ Kill \/ Restart \/ \E c \in Conns : ClientStep(c) \/ Quit(c)

\* The daemon is one runnable thread, and a client call that can proceed does.
\* Nobody is obliged to kill a client or the daemon, or to restart it.
Fairness == WF_vars(DaemonStep) /\ \A c \in Conns : WF_vars(ClientStep(c))

Spec == Init /\ [][Next]_vars /\ Fairness

------------------------------------------------------------------------------
(* Properties                                                              *)

\* Every variable keeps its type (what the C declarations and the protocol
\* structs of protocol.h allow).
TypeOK ==
    /\ kind \in [Conns -> Kinds]
    /\ bits \in [Conns -> 0 .. MaxBits + 1]
    /\ cl \in [Conns -> {"new"} \cup Active \cup Left]
    /\ sent \in [Conns -> Nat] /\ taken \in [Conns -> Nat]
    /\ hdr \in [Conns -> Headers]
    /\ body \in [Conns -> Seq(Conns)] /\ read \in [Conns -> Nat]
    /\ sock \in [Conns -> {"none", "queued", "open", "closed", "reset"}]
    /\ queue \in Seq(Conns)
    /\ pc \in Down \cup {"accept", "tag", "recvmsg", "encode", "dreq", "dbody",
                        "decode", "whdr", "wbody", "close"}
    /\ starts \in Nat /\ have \in SUBSET {"encode", "decode"}
    /\ cur \in Conns \cup {NoConn} /\ got \in Nat /\ reply \in Replies
    /\ frameOf \in Conns \cup {NoConn}
    /\ fds \in SUBSET Conns

\* A dma-buf fd is open in the daemon only while its own request is encoded.
\* recv_request and handle_encode between them close it on every path but one,
\* the short read (daemon.c:757-761); the other fds that stay open were dup'ed
\* by a decode that was answered with an error.
FdOwnership ==
    \A c \in fds :
        \/ kind[c] = "truncated"
        \/ c = cur /\ pc = "encode"
        \/ kind[c] = "decode" /\ c = cur /\ pc = "whdr" /\ reply = Err
        \/ DecodeFailed(c)

\* A client never receives a chunk of another request's frame, although every
\* decode answer is sent out of the one static g_out_buf.
AnswersAreOwn ==
    \A c \in Conns : \A i \in 1 .. Len(body[c]) : body[c][i] = c

\* A status-0 header is only ever written to a client whose whole request was
\* read, was well formed and within the size cap, and whose call is one of the
\* two commands.
AnswerNeedsWholeRequest ==
    \A c \in Conns : hdr[c].ok =>
        /\ kind[c] \in {"encode", "decode"}
        /\ taken[c] = Total(c)
        /\ kind[c] = "decode" => bits[c] \in 1 .. MaxBits

\* encodeViaDaemon and decodeViaDaemon return success only with exactly the
\* bytes the header promised, never with a body cut short: not when the daemon's
\* process ends after the header, or between two chunks of the body.
SuccessIsComplete ==
    \A c \in Conns : cl[c] = "ok" =>
        hdr[c].ok /\ read[c] = hdr[c].size /\ Len(body[c]) = hdr[c].size

\* A client's call is not blocked in connect(), write() or read().
ClientGoesOn(c) ==
    \/ cl[c] = "new" /\ (Listening => Len(queue) <= Backlog)
    \/ cl[c] \in Sending /\ (PeerClosed(c) \/ InRoom(c))
    \/ cl[c] = "rhdr" /\ (PeerClosed(c) \/ hdr[c] # NoHdr)
    \/ cl[c] = "rbody" /\ (PeerClosed(c) \/ read[c] < Len(body[c]))

\* The daemon runs, or is being started, and is not blocked in accept(), read()
\* or write().
DaemonGoesOn ==
    \/ pc \in {"off", "encode", "decode", "whdr", "close"}
    \/ pc = "accept" /\ (queue # <<>> \/ Cardinality(fds) >= FdLimit)
    \/ pc \in {"tag", "recvmsg", "dreq", "dbody"} /\ (InputReady(cur) \/ InputEnded(cur))
    \/ pc = "wbody" /\ (cl[cur] \in Left \/ OutRoom(cur))

\* Nobody waits in a circle: whenever a call has not returned it can go on, or the
\* daemon can, or the one client the daemon is serving can.  So the two blocking
\* writers of a connection never wait for each other, no client waits for an answer
\* the daemon does not owe it, and the daemon waits for none that expects an answer.
NoStandstill ==
    \A c \in Conns : cl[c] \notin Left =>
        \/ ClientGoesOn(c) \/ DaemonGoesOn
        \/ Serving /\ cl[cur] \in Active /\ ClientGoesOn(cur)

\* A client that sent a whole tagged request, and whose connection the daemon
\* has closed, was written a response header first: no path through
\* handle_encode or handle_decode returns without one.
TaggedRequestsAnswered ==
    \A c \in Conns :
        kind[c] # "untagged" /\ sent[c] = Total(c) /\ sock[c] = "closed"
            => hdr[c] # NoHdr

\* A daemon that came up, and that nobody kills, stops only because of a call that
\* failed: a client that went away before it was answered (SIGPIPE), or short
\* requests and failed decodes whose fds used up the descriptor table.  A call that
\* succeeds, and an encode that is answered with an error, never costs the others
\* the daemon.
StopsOnlyByFailures ==
    pc \in {"killed", "exited"}
        => \E c \in Conns :
              cl[c] = "gone" \/ kind[c] = "truncated" \/ DecodeFailed(c)

\* One connection is one request/response: what has been written to a client
\* is never followed by a second header, and nothing is written to a client
\* that is not the one being served.
OneResponse ==
    [][\A c \in Conns :
         /\ hdr[c] # NoHdr => hdr'[c] = hdr[c]
         /\ (cur # c \/ sock[c] = "closed") => hdr'[c] = hdr[c] /\ body'[c] = body[c]]_vars

\* Every call returns: with the sequential server, blocking reads and bounded
\* sockets no client waits for ever, as long as the clients ahead of it go on.
EveryCallReturns == \A c \in Conns : <>(cl[c] \in Left)

\* The daemon with its sockets implements the service of FrameService: one call
\* at a time, at most one answer each, success only with a frame, and every
\* call ends.
CallState(place) == CASE place = "new"     -> "idle"
                      [] place \in Active -> "open"
                      [] place = "ok"      -> "success"
                      [] OTHER             -> "failure"
AnswerState(header) == IF header = NoHdr THEN "none"
                       ELSE IF header.ok THEN "frame" ELSE "error"
Ended == {c \in Conns : sock[c] \in {"closed", "reset"}}
Calls == [c \in Conns |-> CallState(cl[c])]
Answers == [c \in Conns |-> AnswerState(hdr[c])]
Service == INSTANCE FrameService WITH
    call <- Calls, answer <- Answers, serving <- cur, finished <- Ended

ImplementsService == Service!Spec

\* The README calls the daemon a "persistent process" that "survives repeated
\* requests": one client that goes away must not end it.
DaemonPersists == pc # "killed"

------------------------------------------------------------------------------
(* The inductive invariant behind the safety properties.                   *)

\* A request that was read to its end and is fit to be answered with a frame.
Whole(c) ==
    /\ kind[c] \in {"encode", "decode"}
    /\ taken[c] = Total(c)
    /\ kind[c] = "decode" => bits[c] \in 1 .. MaxBits

\* cur is the one connection whose server end is open.
ServingInv ==
    /\ Serving <=> cur # NoConn
    /\ \A c \in Conns : sock[c] = "open" <=> c = cur

\* The backlog holds each queued connection once.
QueueInv ==
    /\ \A i \in 1 .. Len(queue) : sock[queue[i]] = "queued"
    /\ \A i, j \in 1 .. Len(queue) : queue[i] = queue[j] => i = j

\* How far each client has got in writing its request.
ClientOK(c) ==
    /\ kind[c] # "decode" => bits[c] = 0
    /\ taken[c] <= sent[c] /\ sent[c] <= Total(c)
    /\ cl[c] = "new" => sent[c] = 0 /\ sock[c] = "none"
    /\ cl[c] = "tag" => sent[c] = 0 /\ kind[c] # "untagged"
    /\ cl[c] = "req" => sent[c] = IF kind[c] = "untagged" THEN 0 ELSE 1
    /\ cl[c] = "body" => kind[c] = "decode" /\ 2 <= sent[c] /\ sent[c] < Total(c)
    /\ cl[c] \in Receiving \cup {"ok"} => sent[c] = Total(c)
ClientInv == \A c \in Conns : ClientOK(c)

\* What has been written to each client and how much of it was read.
AnswerOK(c) ==
    /\ sock[c] \in {"none", "queued"} => taken[c] = 0 /\ hdr[c] = NoHdr
    /\ hdr[c].ok => Whole(c)
    /\ ~hdr[c].ok => body[c] = <<>>
    /\ hdr[c].ok => Len(body[c]) <= hdr[c].size
    /\ \A i \in 1 .. Len(body[c]) : body[c][i] = c
    /\ read[c] <= Len(body[c])
    /\ cl[c] = "rbody" => hdr[c].ok /\ read[c] < hdr[c].size
    /\ cl[c] = "ok" => hdr[c].ok /\ read[c] = hdr[c].size
    /\ cl[c] = "err" => sock[c] \notin {"queued", "open"}
                         \/ (hdr[c] # NoHdr /\ ~hdr[c].ok)
    /\ cl[c] \in {"new", "tag", "req", "body", "rhdr"} => read[c] = 0
    /\ (sock[c] = "closed" \/ (c = cur /\ pc = "close"))
          /\ hdr[c] = NoHdr /\ kind[c] # "untagged"
            => cl[c] \in Left /\ sent[c] < Total(c)
AnswerInv == \A c \in Conns : AnswerOK(c)

\* How far the daemon has got in the request it serves.
HandlerInv ==
    /\ pc = "tag" => taken[cur] = 0
    /\ pc = "recvmsg" => taken[cur] = 1 /\ kind[cur] \in {"encode", "truncated", "nofd"}
    /\ pc = "encode" => Whole(cur) /\ kind[cur] = "encode"
    /\ pc = "dreq" => taken[cur] = 1 /\ kind[cur] = "decode"
    /\ pc = "dbody" => /\ kind[cur] = "decode" /\ bits[cur] \in 1 .. MaxBits
                       /\ taken[cur] = 2 + got /\ got < bits[cur]
    /\ pc = "decode" => Whole(cur) /\ kind[cur] = "decode"
    /\ Serving /\ pc \notin {"wbody", "close"} => hdr[cur] = NoHdr
    /\ pc = "whdr" /\ reply.ok => Whole(cur)
    /\ pc = "whdr" /\ reply.ok /\ kind[cur] = "decode" => frameOf = cur
    /\ pc = "wbody" => /\ hdr[cur] = reply /\ reply.ok
                       /\ Len(body[cur]) < reply.size
                       /\ kind[cur] = "decode" => frameOf = cur

IInv == /\ TypeOK /\ ServingInv /\ QueueInv /\ ClientInv /\ AnswerInv
        /\ HandlerInv /\ FdOwnership /\ StopsOnlyByFailures

\* Who waits, and for whom; beside IInv, for NoStandstill.
WaitingInv ==
    /\ starts <= MaxStarts
    /\ pc = "off" => starts < MaxStarts
    /\ \A c \in Conns : sock[c] = "queued" =>
          Listening /\ \E i \in 1 .. Len(queue) : queue[i] = c
    /\ \A c \in Conns : sock[c] = "none" => cl[c] \in {"new", "err"}

------------------------------------------------------------------------------
(* What is left to do.  Each step makes one of these numbers smaller and   *)
(* none larger; with NoStandstill that is why every call returns.          *)

One(condition) == IF condition THEN 1 ELSE 0

\* What client c has left to do in its call.
ClientTodo(c) ==
    IF cl[c] \in Left THEN 0
    ELSE 1 + One(cl[c] = "new") + One(cl[c] # "rbody") + (Total(c) - sent[c]) + (MaxOut - read[c])

\* What the daemon has left to do for the connection it serves ...
HandlerTodo ==
    CASE pc = "tag"     -> MaxOut + 6 + bits[cur]
      [] pc = "dreq"    -> MaxOut + 5 + bits[cur]
      [] pc = "recvmsg" -> MaxOut + 4
      [] pc = "dbody"   -> MaxOut + 3 + (bits[cur] - got)
      [] pc \in {"encode", "decode"} -> MaxOut + 3
      [] pc = "whdr"    -> MaxOut + 2
      [] pc = "wbody"   -> 1 + (MaxOut - Len(body[cur]))
      [] OTHER          -> 1

\* ... and for any.
ServerTodo(c) ==
    CASE sock[c] \in {"none", "queued"} -> MaxOut + 7 + bits[c]
      [] sock[c] = "open" -> HandlerTodo
      [] OTHER -> 0

\* How often the daemon can still be started and stop.
Lives == 3 * (MaxStarts - starts) + (IF pc = "off" THEN 0 ELSE 1 + One(Listening))

Todo(c) == ClientTodo(c) + ServerTodo(c)

\* A step gets on with the daemon's life or with a call, and undoes nothing.
Progress ==
    /\ Lives' <= Lives /\ \A c \in Conns : Todo(c)' <= Todo(c)
    /\ Lives' < Lives \/ \E c \in Conns : Todo(c)' < Todo(c)

\* There is an end to it.
TodoIsFinite == Lives \in Nat /\ \A c \in Conns : Todo(c) \in Nat
==============================================================================
