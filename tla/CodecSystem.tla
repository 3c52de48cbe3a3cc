----------------------------- MODULE CodecSystem -----------------------------
(***************************************************************************)
(* A Codec2 component together with the daemon it calls.                   *)
(*                                                                         *)
(* Codec2Component takes encodeViaDaemon and decodeViaDaemon as one step   *)
(* that ends in a frame or in an error, and assumes that it ends.  Here    *)
(* the call is what VaapiDaemon says a client does: it connects, sends a   *)
(* request and waits for the answer, against a daemon that serves other    *)
(* clients first, may be stopped by one of them or be killed at any        *)
(* moment, and may never have been started.  The call for work i is the    *)
(* connection ConnOf[i]; all other connections are rivals of any kind.     *)
(***************************************************************************)
EXTENDS VaapiDaemon

CONSTANTS
    Components,     \* the components one of which is looked at
    Dims, BadDims, MaxWorks, MaxConfigs,    \* as in Codec2Component
    ConnOf,         \* the connection of each work
    RivalKinds,     \* the kinds of the other clients
    Ins, Flags      \* what the works queued hold, their end-of-stream flags

ASSUME ConnOfAssumption ==
    /\ ConnOf \in [1 .. MaxWorks -> Conns]
    /\ \A i, j \in 1 .. MaxWorks : ConnOf[i] = ConnOf[j] => i = j

\* The component's own assumption, and what an end-of-stream flag is.
ASSUME ComponentsAssumption ==
    /\ Components \subseteq {"encoder", "decoder"}
    /\ Dims # {} /\ Dims \cap BadDims = {}
    /\ MaxWorks \in Nat /\ MaxConfigs \in Nat /\ Flags \subseteq BOOLEAN

\* The component's variables, those of Codec2Component; works is its queue, step
\* the next step of its process().
VARIABLES comp, size, configs, n, works, kept, step, work, rect, frame, returned, last

compVars == <<comp, size, configs, n, works, kept, step, work, rect, frame, returned, last>>
sysVars == <<vars, compVars>>

Component == INSTANCE Codec2Component WITH
    Kinds <- Components, kind <- comp, queue <- works, pc <- step

WorkConns == {ConnOf[i] : i \in 1 .. MaxWorks}
Rivals == Conns \ WorkConns

\* encodeViaDaemon and decodeViaDaemon send well-formed requests; process() does
\* not call the daemon for an empty block, but a bitstream may be too long.
SysInit ==
    /\ Component!Init
    /\ Init
    /\ \A c \in WorkConns :
          IF comp = "encoder" THEN kind[c] = "encode" ELSE kind[c] = "decode" /\ bits[c] > 0
    /\ \A c \in Rivals : kind[c] \in RivalKinds

------------------------------------------------------------------------------
(* The component's thread, inside and outside its calls.                   *)

\* Everything process() does but the call.
OutsideCall ==
    /\ Component!Take \/ Component!ReadSize \/ Component!Fetch \/ Component!Deliver
    /\ UNCHANGED vars

\* The thread is in encodeViaDaemon or decodeViaDaemon.
InsideCall ==
    /\ step = "call" /\ ClientStep(ConnOf[work.n])
    /\ UNCHANGED compVars

\* Fault: process() does not look at what the call returns.
CallIgnoresStatus ==
    /\ step = "call" /\ cl[ConnOf[work.n]] \in {"ok", "err"}
    /\ Component!Call /\ step' = "fetch"
    /\ UNCHANGED vars

\* The call returns what its connection came to.
CallReturns ==
    /\ step = "call" /\ cl[ConnOf[work.n]] \in {"ok", "err"}
    /\ Component!Call
    /\ step' = IF cl[ConnOf[work.n]] = "ok" THEN "fetch" ELSE "idle"
    /\ UNCHANGED vars

Thread == OutsideCall \/ InsideCall \/ CallReturns

\* Whoever uses the component.
User ==
    /\ \/ \E in \in Component!Inputs[comp] \cap Ins, eos \in Flags : Component!Queue(in, eos)
       \/ \E new \in Component!SizesOf(Dims \cup BadDims) : Component!Configure(new)
       \/ Component!Flush
    /\ UNCHANGED vars

Server == DaemonStep /\ UNCHANGED compVars
Operator == (Kill \/ Restart) /\ UNCHANGED compVars
Rival(c) == ClientStep(c) /\ UNCHANGED compVars
RivalQuits(c) == Quit(c) /\ UNCHANGED compVars

SysNext ==
    \/ Thread \/ User \/ Server \/ Operator
    \/ \E c \in Rivals : Rival(c) \/ RivalQuits(c)

\* VaapiDaemon's fairness, with the component's one thread in the place of the
\* clients that are its calls.
SysFairness ==
    /\ WF_sysVars(Server) /\ WF_sysVars(Thread)
    /\ \A c \in Rivals : WF_sysVars(Rival(c))

SysSpec == SysInit /\ [][SysNext]_sysVars /\ SysFairness

------------------------------------------------------------------------------
(* Properties                                                              *)

\* The component with a real daemon behind it does what Codec2Component says, its
\* fairness included: whatever rivals and the daemon's death do, process() comes
\* back from every call, and so no work is lost, doubled or left unreturned.
ImplementsComponent == Component!Spec

\* A work that came back with a frame has the whole frame the daemon answered to
\* that work's own call; and the thread has left no call of an earlier work open,
\* so that whenever the daemon waits for the component's side, it is working on it.
WorksGetOwnAnswer ==
    /\ last.buffers # {} =>
         LET c == ConnOf[last.work.n]
         IN  /\ cl[c] = "ok" /\ hdr[c].ok
             /\ Len(body[c]) = hdr[c].size
             /\ \A i \in DOMAIN body[c] : body[c][i] = c
    /\ \A c \in WorkConns : cl[c] \in Active => step = "call" /\ ConnOf[work.n] = c

------------------------------------------------------------------------------
(* The inductive invariant behind WorksGetOwnAnswer, beside those of the two parts. *)

\* process() goes on only after a call that succeeded; a call that has been made and
\* has not come back is the one the thread is in.
CallInv ==
    /\ step \in {"fetch", "map"} => cl[ConnOf[work.n]] = "ok"
    /\ last.buffers # {} => /\ last.work.n \in 1 .. MaxWorks
                            /\ cl[ConnOf[last.work.n]] = "ok"
    /\ \A c \in WorkConns : cl[c] \in Active => step = "call" /\ ConnOf[work.n] = c

SysInv == IInv /\ Component!IInv /\ CallInv

\* Nobody kills the component in the middle of a call.
NoneKilled == \A c \in WorkConns : cl[c] # "gone"

\* The thread is never stuck in a call: either it has come back, or it can go on, or the
\* daemon can, or the rival the daemon is serving.
CallGoesOn ==
    step = "call" =>
        LET c == ConnOf[work.n]
        IN  \/ cl[c] \in {"ok", "err"} \/ ClientGoesOn(c) \/ DaemonGoesOn
            \/ Serving /\ cur \in Rivals /\ ClientGoesOn(cur)
==============================================================================
