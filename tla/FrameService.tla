---------------------------- MODULE FrameService ----------------------------
(***************************************************************************)
(* What the daemon promises its callers, with no sockets in it.            *)
(*                                                                         *)
(* A call is opened and ends in success or failure.  The service takes the *)
(* open calls one at a time, gives each at most one answer and never takes *)
(* up a call again; a call succeeds only if its answer was a frame.  The   *)
(* service may stop at any time and be brought back: the call it was busy  *)
(* with, and others it had not taken up yet, are then lost and fail.       *)
(***************************************************************************)
CONSTANTS Conns, NoConn

VARIABLES
    call,       \* "idle", "open", "success" or "failure", for each caller
    answer,     \* "none", "frame" or "error", for each caller
    serving,    \* the call the service is busy with, or NoConn
    finished    \* the calls it will never take up (again)

vars == <<call, answer, serving, finished>>

Init ==
    /\ call = [c \in Conns |-> "idle"]
    /\ answer = [c \in Conns |-> "none"]
    /\ serving = NoConn
    /\ finished = {}

Open(c) ==
    /\ call[c] = "idle"
    /\ call' = [call EXCEPT ![c] = "open"]
    /\ UNCHANGED <<answer, serving, finished>>

\* The service is down: the call fails before it is ever open.
Refuse(c) ==
    /\ call[c] = "idle"
    /\ call' = [call EXCEPT ![c] = "failure"]
    /\ UNCHANGED <<answer, serving, finished>>

\* The caller may have given up while it waited for its turn.
Serve(c) ==
    /\ serving = NoConn /\ call[c] # "idle" /\ c \notin finished
    /\ serving' = c
    /\ UNCHANGED <<call, answer, finished>>

Answer(c) ==
    /\ serving = c /\ answer[c] = "none"
    /\ \E a \in {"frame", "error"} : answer' = [answer EXCEPT ![c] = a]
    /\ UNCHANGED <<call, serving, finished>>

Finish ==
    /\ serving # NoConn
    /\ finished' = finished \cup {serving}
    /\ serving' = NoConn
    /\ UNCHANGED <<call, answer>>

Stop ==
    /\ serving' = NoConn
    /\ \E lost \in SUBSET Conns :
         /\ serving # NoConn => serving \in lost
         /\ finished' = finished \cup lost
    /\ UNCHANGED <<call, answer>>

Succeed(c) ==
    /\ call[c] = "open" /\ answer[c] = "frame"
    /\ call' = [call EXCEPT ![c] = "success"]
    /\ UNCHANGED <<answer, serving, finished>>

Fail(c) ==
    /\ call[c] = "open"
    /\ call' = [call EXCEPT ![c] = "failure"]
    /\ UNCHANGED <<answer, serving, finished>>

Next ==
    \/ Finish \/ Stop
    \/ \E c \in Conns : \/ Open(c) \/ Refuse(c) \/ Serve(c) \/ Answer(c)
                        \/ Succeed(c) \/ Fail(c)

\* Every call ends.
Fairness ==
    \A c \in Conns : /\ WF_vars(Open(c) \/ Refuse(c))
                     /\ WF_vars(Succeed(c) \/ Fail(c))

Safety == Init /\ [][Next]_vars
Spec == Safety /\ Fairness
==============================================================================
