--------------------------- MODULE ComponentStore ---------------------------
(***************************************************************************)
(* The Codec2 store service, tier4-codec2-skeleton/service.cpp: main, which *)
(* prepares the process and then serves, and createComponent and           *)
(* createInterface, which binder's threads run at the same time.           *)
(*                                                                         *)
(* What the threads share is mNextId.  It is a plain integer: mNextId++ is *)
(* a load and a store here, and another thread's may come in between.      *)
(***************************************************************************)
EXTENDS Integers, TLAPS

CONSTANTS
    Threads,        \* the threads of binder's pool
    MainThread,     \* main's own, which joins the pool at the end
    MaxCreations    \* bound: components and interfaces asked for

ASSUME StoreAssumption ==
    /\ MainThread \notin Threads
    /\ MaxCreations \in Nat

VARIABLES
    pc,         \* main's next step
    ignored,    \* SIGPIPE is ignored, in the whole process
    jailed,     \* the threads the seccomp policy holds for
    pool,       \* the threads that take calls
    registered, \* the service manager knows the store
    nextId,     \* StoreImpl::mNextId
    call,       \* per thread: the call it is in
    made,       \* what was created: the creation's number and its id
    asked,      \* creations so far
    lost        \* history: a store undid an increment it had not seen

vars == <<pc, ignored, jailed, pool, registered, nextId, call, made, asked, lost>>

Everyone == Threads \cup {MainThread}
Listed   == {"encoder", "decoder"}
Idle     == [at |-> "idle", n |-> 0, name |-> "none", id |-> 0]

Init ==
    /\ pc = "signal" /\ ignored = FALSE /\ jailed = {} /\ pool = {} /\ registered = FALSE
    /\ nextId = 0 /\ call = [t \in Everyone |-> Idle] /\ made = {} /\ asked = 0 /\ lost = FALSE

------------------------------------------------------------------------------
(* main.                                                                   *)

Serving == UNCHANGED <<nextId, call, made, asked, lost>>

IgnoreSigpipe ==
    /\ pc = "signal" /\ pc' = "jail" /\ ignored' = TRUE
    /\ UNCHANGED <<jailed, pool, registered>> /\ Serving

\* Fault: the pool is started before the process is jailed.
SetUpMinijailLate ==
    /\ pc = "jail" /\ pc' = "pool" /\ jailed' = jailed
    /\ UNCHANGED <<ignored, pool, registered>> /\ Serving

\* SetUpMinijail puts the policy on the thread that calls it; a thread that is
\* started later inherits it, one that runs already does not.
SetUpMinijail ==
    /\ pc = "jail" /\ pc' = "pool" /\ jailed' = jailed \cup {MainThread}
    /\ UNCHANGED <<ignored, pool, registered>> /\ Serving

StartThreadPool ==
    /\ pc = "pool" /\ pc' = "register"
    /\ pool' = Threads
    /\ jailed' = IF MainThread \in jailed THEN jailed \cup Threads ELSE jailed
    /\ UNCHANGED <<ignored, registered>> /\ Serving

\* addService may fail: main says so and joins the pool all the same.
AddService ==
    /\ pc = "register" /\ pc' = "join"
    /\ registered' \in BOOLEAN
    /\ UNCHANGED <<ignored, jailed, pool>> /\ Serving

JoinThreadPool ==
    /\ pc = "join" /\ pc' = "joined" /\ pool' = pool \cup {MainThread}
    /\ UNCHANGED <<ignored, jailed, registered>> /\ Serving

------------------------------------------------------------------------------
(* createComponent and createInterface, which differ in what they wrap.    *)

Main == UNCHANGED <<pc, ignored, jailed, pool, registered>>

\* A client finds the store with the service manager and asks for a name: one
\* that is not listed is C2_NOT_FOUND and changes nothing.
LoadNextId(t, name) ==
    /\ t \in pool /\ registered /\ call[t] = Idle /\ asked < MaxCreations
    /\ call' = [call EXCEPT ![t] = [at |-> "loaded", name |-> name, n |-> asked, id |-> nextId]]
    /\ asked' = asked + 1
    /\ UNCHANGED <<nextId, made, lost>> /\ Main

\* Fault: the id is read and not moved on.
StoreNextIdUnmoved(t) ==
    /\ call[t].at = "loaded"
    /\ nextId' = nextId
    /\ lost' = (lost \/ nextId # call[t].id)
    /\ made' = made \cup {[n |-> call[t].n, name |-> call[t].name, id |-> call[t].id]}
    /\ call' = [call EXCEPT ![t] = Idle]
    /\ UNCHANGED asked /\ Main

StoreNextId(t) ==
    /\ call[t].at = "loaded"
    /\ nextId' = call[t].id + 1
    /\ lost' = (lost \/ nextId # call[t].id)
    /\ made' = made \cup {[n |-> call[t].n, name |-> call[t].name, id |-> call[t].id]}
    /\ call' = [call EXCEPT ![t] = Idle]
    /\ UNCHANGED asked /\ Main

Next ==
    \/ IgnoreSigpipe \/ SetUpMinijail \/ StartThreadPool \/ AddService \/ JoinThreadPool
    \/ \E t \in Everyone :
        \/ StoreNextId(t)
        \/ \E name \in Listed : LoadNextId(t, name)

Spec == Init /\ [][Next]_vars

------------------------------------------------------------------------------
(* Properties.                                                             *)

Creations == [n : Nat, name : Listed, id : Nat]
Calls     == [at : {"idle", "loaded"}, n : Nat, name : Listed \cup {"none"}, id : Nat]

\* Each variable has its type.
TypeOK ==
    /\ pc \in {"signal", "jail", "pool", "register", "join", "joined"}
    /\ ignored \in BOOLEAN /\ registered \in BOOLEAN /\ lost \in BOOLEAN
    /\ jailed \subseteq Everyone /\ pool \subseteq Everyone
    /\ nextId \in Nat /\ asked \in Nat
    /\ call \in [Everyone -> Calls]
    /\ made \subseteq Creations

\* A thread that serves a call is under the seccomp policy, and a daemon that
\* goes away in the middle of its request does not end the service (SIGPIPE).
CallsAreSandboxed ==
    \A t \in Everyone : call[t] # Idle => ignored /\ t \in jailed

\* Two components or interfaces share an id only where an increment of
\* mNextId was lost: creations that do not run into each other never do.
IdsDistinctUnlessLost ==
    ~lost => \A a, b \in made : a.n # b.n => a.id # b.id

\* Inductive: what is prepared when the pool starts, and that the counter is
\* ahead of the ids given out as long as no increment was lost.
Prepared ==
    /\ pc # "signal" => ignored
    /\ pc \notin {"signal", "jail"} => MainThread \in jailed
    /\ pc \in {"signal", "jail", "pool"} => pool = {}
    /\ pool \subseteq jailed
    /\ \A t \in Everyone : call[t] # Idle => t \in pool
    /\ \A t \in Everyone : call[t].at = "loaded" => call[t].name \in Listed
CounterAhead == ~lost => \A a \in made : a.id < nextId
IInv == TypeOK /\ Prepared /\ CounterAhead /\ IdsDistinctUnlessLost

------------------------------------------------------------------------------
(* Proofs.                                                                 *)

\* The inductive invariant holds, for any number of threads and creations.
THEOREM Invariance == Spec => []IInv
<1> USE StoreAssumption DEF Everyone, Listed, Idle, Creations, Calls
<1>1. Init => IInv
    <2> SUFFICES ASSUME Init PROVE IInv
        OBVIOUS
    <2> USE DEF Init
    <2>1. Idle \in Calls /\ 0 \in Nat
        OBVIOUS
    <2>2. TypeOK
        BY <2>1 DEF TypeOK
    <2>3. Prepared
        BY DEF Prepared
    <2>4. CounterAhead /\ IdsDistinctUnlessLost
        BY DEF CounterAhead, IdsDistinctUnlessLost
    <2> QED
        BY <2>2, <2>3, <2>4 DEF IInv
<1>2. IInv /\ [Next]_vars => IInv'
    <2> SUFFICES ASSUME IInv, [Next]_vars PROVE IInv'
        OBVIOUS
    <2> USE DEF IInv, TypeOK, Prepared, CounterAhead, IdsDistinctUnlessLost
    <2>1. CASE IgnoreSigpipe
        BY <2>1 DEF IgnoreSigpipe, Serving
    <2>2. CASE SetUpMinijail
        BY <2>2 DEF SetUpMinijail, Serving
    <2>3. CASE StartThreadPool
        BY <2>3 DEF StartThreadPool, Serving
    <2>4. CASE AddService
        BY <2>4 DEF AddService, Serving
    <2>5. CASE JoinThreadPool
        BY <2>5 DEF JoinThreadPool, Serving
    <2>6. ASSUME NEW t \in Everyone, NEW name \in Listed, LoadNextId(t, name) PROVE IInv'
        BY <2>6 DEF LoadNextId, Main
    <2>7. ASSUME NEW t \in Everyone, StoreNextId(t) PROVE IInv'
        <3>1. call[t] \in Calls
            BY <2>7 DEF StoreNextId
        <3>2. TypeOK'
            BY <2>7, <3>1 DEF StoreNextId, Main
        <3>3. Prepared'
            BY <2>7 DEF StoreNextId, Main
        <3>4. ~lost' => ~lost /\ nextId = call[t].id /\ nextId' = nextId + 1
            BY <2>7 DEF StoreNextId
        <3>5. \A a \in made' : a \in made \/ (a.id = call[t].id /\ a.n = call[t].n)
            BY <2>7 DEF StoreNextId
        <3>6. CounterAhead'
            BY <3>1, <3>4, <3>5
        <3>7. IdsDistinctUnlessLost'
            BY <3>1, <3>4, <3>5
        <3> QED
            BY <3>2, <3>3, <3>6, <3>7
    <2>8. CASE UNCHANGED vars
        BY <2>8 DEF vars
    <2> QED
        BY <2>1, <2>2, <2>3, <2>4, <2>5, <2>6, <2>7, <2>8 DEF Next
<1> QED
    BY <1>1, <1>2, PTL DEF Spec

\* Nothing is served outside the sandbox, or where a lost daemon would be fatal.
THEOREM Sandboxed == Spec => []CallsAreSandboxed
<1>1. IInv => CallsAreSandboxed
    BY DEF IInv, TypeOK, Prepared, CallsAreSandboxed, Everyone
<1> QED
    BY <1>1, Invariance, PTL

\* Ids are shared only through a lost increment.
THEOREM IdsAreDistinct == Spec => []IdsDistinctUnlessLost
<1>1. IInv => IdsDistinctUnlessLost
    BY DEF IInv
<1> QED
    BY <1>1, Invariance, PTL
=============================================================================
