------------------------- MODULE DecodeBackendProofs -------------------------
(***************************************************************************)
(* The safety properties of DecodeBackend for any driver, any number of    *)
(* ids, any resolutions, any size of g_out_buf and any sequence of         *)
(* requests and failures, from the inductive invariant IInv.               *)
(***************************************************************************)
EXTENDS DecodeBackend, TLAPS

\* Slots, planes and the other stages are different; slots have a kind.
LEMMA SlotFacts ==
  /\ Slots = {"surfaces", "context", "vppOut", "vppContext"}
  /\ Planes = {"luma", "chroma"}
  /\ \A s \in Slots : KindOf[s] \in {"surface", "context"} /\ KindOf[s] # "none"
  /\ Filled \subseteq Slots
  BY DEF Slots, Planes, KindOf, Filled

\* What is counted as lost.
LEMMA LostFacts ==
  /\ DOMAIN Nothing = {"buffers", "images", "memory", "fds"}
  /\ \A l \in DetileLoses :
       /\ l.buffers = 0 /\ l.images \in 0 .. 2 /\ l.memory \in 0 .. 2 /\ l.fds \in 0 .. 1
  <1>1. DOMAIN Nothing = {"buffers", "images", "memory", "fds"} BY DEF Nothing
  <1>2. ASSUME NEW l \in DetileLoses
        PROVE  /\ l.buffers = 0 /\ l.images \in 0 .. 2 /\ l.memory \in 0 .. 2
               /\ l.fds \in 0 .. 1
    <2>1. CASE l = Nothing BY <2>1 DEF Nothing
    <2>2. CASE l = [Nothing EXCEPT !.images = 1] BY <2>2 DEF Nothing
    <2>3. CASE l = [Nothing EXCEPT !.images = 1, !.fds = 1] BY <2>3 DEF Nothing
    <2>4. CASE l = [Nothing EXCEPT !.images = 1, !.memory = 1] BY <2>4 DEF Nothing
    <2>5. CASE l = [Nothing EXCEPT !.images = 2, !.memory = 1] BY <2>5 DEF Nothing
    <2>6. CASE l = [Nothing EXCEPT !.images = 2, !.memory = 2] BY <2>6 DEF Nothing
    <2> QED BY <1>2, <2>1, <2>2, <2>3, <2>4, <2>5, <2>6 DEF DetileLoses
  <1> QED BY <1>1, <1>2

\* The counters are numbers.
LEMMA CountTypes ==
  ASSUME TypeOK
  PROVE  /\ lost.buffers \in Nat /\ lost.images \in Nat /\ lost.memory \in Nat /\ lost.fds \in Nat
         /\ failed \in Nat /\ n \in Nat /\ MaxReqs \in Nat
  BY LostFacts, DecodeAssumption DEF TypeOK

\* A vaCreate call fills its slot with an object of the right kind and size,
\* and leaves every other object that is in use where it is.
LEMMA Created ==
  ASSUME TypeOK, want \in Sizes, NEW next, pc \in Slots, Create(next), want' = want
  PROVE  /\ id' \in [Slots -> Ids \cup {NoId}] /\ obj' \in [Ids -> Objects \cup {Free}]
         /\ id'[pc] \in Ids
         /\ obj'[id'[pc]].kind = KindOf[pc] /\ obj'[id'[pc]].dim = want
         /\ \A t \in Slots \ {pc} :
               Holds(t, want) => Holds(t, want)' /\ id'[t] # id'[pc] /\ id'[t] = id[t]
         /\ pc' = next /\ UNCHANGED <<answer, failed>>
  <1>1. PICK i \in Ids :
           /\ obj[i] = Free /\ id' = [id EXCEPT ![pc] = i]
           /\ obj' = [obj EXCEPT ![i] = [kind |-> KindOf[pc], dim |-> want, pic |-> 0]]
    BY DEF Create, Live
  <1>2. [kind |-> KindOf[pc], dim |-> want, pic |-> 0] \in Objects
    BY SlotFacts, DecodeAssumption DEF Objects
  <1>3. id' \in [Slots -> Ids \cup {NoId}] BY <1>1 DEF TypeOK
  <1>4. obj' \in [Ids -> Objects \cup {Free}] BY <1>1, <1>2 DEF TypeOK
  <1>5. /\ id'[pc] = i
        /\ obj'[i] = [kind |-> KindOf[pc], dim |-> want, pic |-> 0]
    BY <1>1 DEF TypeOK
  <1>6. ASSUME NEW t \in Slots \ {pc}, Holds(t, want)
        PROVE  Holds(t, want)' /\ id'[t] # id'[pc] /\ id'[t] = id[t]
    <2>1. id'[t] = id[t] BY <1>1, <1>6 DEF TypeOK
    <2>2. id[t] # i
      <3>1. obj[i].kind = "none" /\ KindOf[t] # "none"
        BY <1>1, <1>6, SlotFacts DEF Free
      <3> QED BY <1>6, <3>1 DEF Holds
    <2>3. obj'[id[t]] = obj[id[t]] BY <1>1, <1>6, <2>2 DEF TypeOK, Holds
    <2> QED BY <1>5, <1>6, <2>1, <2>2, <2>3 DEF Holds
  <1>7. pc' = next /\ UNCHANGED <<answer, failed>> BY DEF Create, GoOn
  <1> QED BY <1>3, <1>4, <1>5, <1>6, <1>7

------------------------------------------------------------------------------
(* What keeps NoStaleIds where an action does not create or destroy.       *)

\* With a context, a step that changes at most what the surfaces show keeps
\* what the slots hold.
LEMMA SameObjects ==
  ASSUME TypeOK, NoStaleIds, have, UNCHANGED <<want, have, dim, id>>,
         \A i \in Ids : obj'[i].kind = obj[i].kind /\ obj'[i].dim = obj[i].dim,
         pc' \notin Slots \cup {"destroy"}, dim = want
  PROVE  NoStaleIds'
  <1>1. Filled = Slots /\ Filled' = Slots BY DEF Filled
  <1>2. \A s \in Slots : Holds(s, dim)' BY <1>1 DEF NoStaleIds, Holds
  <1> QED BY <1>1, <1>2 DEF NoStaleIds

\* Changing what one surface shows keeps types, kinds and sizes.
LEMMA Painted ==
  ASSUME TypeOK, NoStaleIds, have, NEW s \in Slots, NEW p \in 0 .. MaxReqs,
         obj' = [obj EXCEPT ![id[s]].pic = p]
  PROVE  /\ obj' \in [Ids -> Objects \cup {Free}]
         /\ \A i \in Ids : obj'[i].kind = obj[i].kind /\ obj'[i].dim = obj[i].dim
         /\ obj'[id[s]].pic = p
  <1>1. Holds(s, dim) BY DEF NoStaleIds, Filled
  <1>2. id[s] \in Ids /\ obj[id[s]] \in Objects
    <2>1. obj[id[s]].kind # "none" BY <1>1, SlotFacts DEF Holds
    <2> QED BY <1>1, <2>1 DEF Holds, TypeOK, Free
  <1>3. [obj[id[s]] EXCEPT !.pic = p] \in Objects BY <1>2 DEF Objects
  <1>4. obj' = [obj EXCEPT ![id[s]] = [obj[id[s]] EXCEPT !.pic = p]] OBVIOUS
  <1>5. obj' \in [Ids -> Objects \cup {Free}] BY <1>2, <1>3, <1>4 DEF TypeOK
  <1>6. obj'[id[s]] = [obj[id[s]] EXCEPT !.pic = p] BY <1>2, <1>4 DEF TypeOK
  <1>7. \A i \in Ids \ {id[s]} : obj'[i] = obj[i] BY <1>4 DEF TypeOK
  <1>8. obj'[id[s]].pic = p /\ obj'[id[s]].kind = obj[id[s]].kind
        /\ obj'[id[s]].dim = obj[id[s]].dim
    BY <1>2, <1>6 DEF Objects
  <1> QED BY <1>5, <1>7, <1>8

\* Between requests nothing is demanded but what have_context stands for.
LEMMA IdleObjects ==
  ASSUME TypeOK, NoStaleIds, pc' = "idle", UNCHANGED <<have, dim, id>>,
         have => \A i \in Ids : obj'[i].kind = obj[i].kind /\ obj'[i].dim = obj[i].dim
  PROVE  NoStaleIds'
  <1>1. Filled' = IF have THEN Slots ELSE {} BY DEF Filled
  <1>2. have => Filled = Slots BY DEF Filled
  <1>3. have => \A s \in Slots : Holds(s, dim)' BY <1>2 DEF NoStaleIds, Holds
  <1> QED BY <1>1, <1>2, <1>3, SlotFacts DEF NoStaleIds

\* b buffers more are lost, and nothing else.
LEMMA BuffersLost ==
  ASSUME TypeOK, NEW b \in Nat, LoseBuffers(b)
  PROVE  /\ lost' \in [DOMAIN Nothing -> Nat]
         /\ lost'.buffers = lost.buffers + b
         /\ lost'.images = lost.images /\ lost'.memory = lost.memory
         /\ lost'.fds = lost.fds
  BY LostFacts DEF TypeOK, LoseBuffers

------------------------------------------------------------------------------
(* Each action preserves IInv.                                             *)

\* A request that has nothing to decode leaves all as it was.
LEMMA RejectStep == ASSUME IInv, Reject PROVE IInv'
  <1>1. TypeOK /\ NoStaleIds /\ pc = "idle" /\ n < MaxReqs BY DEF IInv, Reject
  <1>2. /\ pc' = "idle" /\ answer' = -1 /\ failed' = failed + 1 /\ n' = n + 1 /\ want' = 0
        /\ UNCHANGED <<have, dim, id, obj, out, total, sure, pending, fds, lost>>
    BY DEF Reject, Fail, gdec, copy
  <1>3. TypeOK' BY <1>1, <1>2, DecodeAssumption DEF TypeOK
  <1>4. NoStaleIds' BY <1>1, <1>2, IdleObjects
  <1>5. PictureInv' /\ ReturnsOwnFrame'
    BY <1>2, SlotFacts DEF PictureInv, ReturnsOwnFrame, OwnOrUnsure
  <1>6. LostByFailures' /\ BufferInv'
    BY <1>1, <1>2, SlotFacts, CountTypes DEF IInv, LostByFailures, BufferInv
  <1> QED BY <1>3, <1>4, <1>5, <1>6 DEF IInv

\* The comparison of sizes: what is kept is used at its own size only.
LEMMA AcceptStep == ASSUME IInv, NEW s \in Sizes, Accept(s) PROVE IInv'
  <1>1. TypeOK /\ NoStaleIds /\ pc = "idle" /\ n < MaxReqs BY DEF IInv, Accept
  <1>2. /\ n' = n + 1 /\ want' = s /\ total' = 0 /\ sure' = {} /\ answer' = -1
        /\ UNCHANGED <<have, dim, id, obj, out, pending, fds, lost, failed>>
    BY DEF Accept, gdec
  <1>3. \/ pc' = "decode" /\ have /\ dim = s
        \/ pc' = "destroy" /\ have /\ dim # s
        \/ pc' = "surfaces" /\ ~have
    BY <1>1 DEF Accept, TypeOK
  <1>4. TypeOK' BY <1>1, <1>2, <1>3, SlotFacts, DecodeAssumption DEF TypeOK
  <1>5. NoStaleIds'
    <2>1. Filled' = Filled BY <1>1, <1>2, <1>3 DEF Filled
    <2>2. have => Filled = Slots BY DEF Filled
    <2>3. ~have => Filled = {} BY <1>1 DEF Filled
    <2>4. \A t \in Filled : Holds(t, dim)' /\ \A u \in Filled : t # u => id'[t] # id'[u]
      BY <1>1, <1>2, <2>3 DEF NoStaleIds, Holds
    <2> QED BY <1>2, <1>3, <2>1, <2>2, <2>3, <2>4, SlotFacts DEF NoStaleIds
  <1>6. PictureInv' /\ ReturnsOwnFrame'
    BY <1>2, <1>3, SlotFacts DEF PictureInv, ReturnsOwnFrame, OwnOrUnsure
  <1>7. LostByFailures' /\ BufferInv'
    BY <1>1, <1>2, <1>3, SlotFacts, CountTypes DEF IInv, LostByFailures, BufferInv
  <1> QED BY <1>4, <1>5, <1>6, <1>7 DEF IInv

\* Dropping the old size: have_context goes with the objects.
LEMMA DestroyStep == ASSUME IInv, Destroy PROVE IInv'
  <1>1. TypeOK /\ PictureInv /\ pc = "destroy" BY DEF IInv, Destroy
  <1>2. /\ pc' = "surfaces" /\ have' = FALSE
        /\ obj' = [i \in Ids |-> IF \E s \in Slots : id[s] = i THEN Free ELSE obj[i]]
        /\ UNCHANGED <<n, want, dim, id, out, total, sure, pending, fds, lost, answer, failed>>
    BY DEF Destroy, GoOn, copy
  <1>3. obj' \in [Ids -> Objects \cup {Free}] BY <1>1, <1>2 DEF TypeOK
  <1>4. TypeOK' BY <1>1, <1>2, <1>3, SlotFacts DEF TypeOK
  <1>5. Filled' = {} BY <1>2 DEF Filled
  <1>6. NoStaleIds' BY <1>2, <1>5, SlotFacts DEF NoStaleIds
  <1>7. PictureInv' /\ ReturnsOwnFrame'
    BY <1>1, <1>2, SlotFacts DEF PictureInv, ReturnsOwnFrame, OwnOrUnsure
  <1>8. LostByFailures' /\ BufferInv'
    BY <1>1, <1>2, SlotFacts DEF IInv, LostByFailures, BufferInv
  <1> QED BY <1>4, <1>6, <1>7, <1>8 DEF IInv

\* A failure before anything was decoded or exported.
LEMMA FailStep ==
  ASSUME IInv, pc \in Slots, Fail, UNCHANGED <<n, want, have, dim, id, obj, copy, lost>>
  PROVE  IInv'
  <1>1. TypeOK /\ NoStaleIds BY DEF IInv
  <1>2. /\ pc' = "idle" /\ answer' = -1 /\ failed' = failed + 1
        /\ UNCHANGED <<n, want, have, dim, id, obj, out, total, sure, pending, fds, lost>>
    BY DEF Fail, copy
  <1>3. TypeOK' BY <1>1, <1>2, DecodeAssumption DEF TypeOK
  <1>4. NoStaleIds' BY <1>1, <1>2, IdleObjects
  <1>5. PictureInv' /\ ReturnsOwnFrame'
    BY <1>2, SlotFacts DEF PictureInv, ReturnsOwnFrame, OwnOrUnsure
  <1>6. LostByFailures' /\ BufferInv'
    BY <1>1, <1>2, SlotFacts, CountTypes DEF IInv, LostByFailures, BufferInv
  <1> QED BY <1>3, <1>4, <1>5, <1>6 DEF IInv

\* Creating the first three objects, or failing to.
LEMMA CreateKeptStep == ASSUME IInv, CreateKept PROVE IInv'
  <1>1. TypeOK /\ NoStaleIds /\ PictureInv BY DEF IInv
  <1>2. UNCHANGED <<n, want, have, dim, out, total, sure, pending, fds, lost>>
    BY DEF CreateKept, copy
  <1>3. CASE pc \in Slots /\ Fail /\ UNCHANGED <<id, obj>>
    BY <1>2, <1>3, FailStep DEF copy
  <1>4. ASSUME NEW s \in Slots, NEW next \in Slots, pc = s, Create(next),
               \/ s = "surfaces" /\ next = "context"
               \/ s = "context" /\ next = "vppOut"
               \/ s = "vppOut" /\ next = "vppContext"
        PROVE  IInv'
    <2>1. want \in Sizes /\ ~have
      BY <1>1, <1>4, SlotFacts DEF PictureInv, NoStaleIds
    <2>2. /\ id' \in [Slots -> Ids \cup {NoId}] /\ obj' \in [Ids -> Objects \cup {Free}]
          /\ Holds(s, want)' /\ pc' = next /\ UNCHANGED <<answer, failed>>
          /\ \A t \in Slots \ {s} :
               Holds(t, want) => Holds(t, want)' /\ id'[t] # id'[s] /\ id'[t] = id[t]
      BY <1>1, <1>2, <1>4, <2>1, Created DEF Holds
    <2>3. Filled' = Filled \cup {s} /\ s \notin Filled
      BY <1>2, <1>4, <2>1, <2>2 DEF Filled
    <2>4. NoStaleIds'
      <3>1. \A t \in Filled : Holds(t, want) /\ t \in Slots \ {s}
        BY <1>1, <2>1, <2>3, SlotFacts DEF NoStaleIds
      <3>2. \A t \in Filled' : Holds(t, want)' BY <1>2, <2>2, <2>3, <3>1
      <3>3. \A t, u \in Filled' : t # u => id'[t] # id'[u]
        BY <1>1, <2>2, <2>3, <3>1 DEF NoStaleIds
      <3> QED BY <1>2, <1>4, <2>1, <2>2, <3>2, <3>3, SlotFacts DEF NoStaleIds
    <2>5. TypeOK' BY <1>1, <1>2, <2>2 DEF TypeOK
    <2>6. PictureInv' /\ ReturnsOwnFrame'
      BY <1>1, <1>2, <1>4, <2>2, SlotFacts DEF PictureInv, ReturnsOwnFrame, OwnOrUnsure
    <2>7. LostByFailures' /\ BufferInv'
      BY <1>2, <1>4, <2>2, SlotFacts DEF IInv, LostByFailures, BufferInv
    <2> QED BY <2>4, <2>5, <2>6, <2>7 DEF IInv
  <1> QED BY <1>3, <1>4, SlotFacts DEF CreateKept

\* The last of the four: from here on have_context stands for all.
LEMMA CreateVppContextStep == ASSUME IInv, CreateVppContext PROVE IInv'
  <1> DEFINE s == "vppContext"
  <1>1. TypeOK /\ NoStaleIds /\ PictureInv /\ pc = s BY DEF IInv, CreateVppContext
  <1>2. /\ have' = TRUE /\ dim' = want /\ Create("decode")
        /\ UNCHANGED <<n, want, out, total, sure, pending, fds, lost>>
    BY DEF CreateVppContext, copy
  <1>3. want \in Sizes /\ ~have /\ s \in Slots
    BY <1>1, SlotFacts DEF PictureInv, NoStaleIds
  <1>4. /\ id' \in [Slots -> Ids \cup {NoId}] /\ obj' \in [Ids -> Objects \cup {Free}]
        /\ Holds(s, want)' /\ pc' = "decode" /\ UNCHANGED <<answer, failed>>
        /\ \A t \in Slots \ {s} :
             Holds(t, want) => Holds(t, want)' /\ id'[t] # id'[s] /\ id'[t] = id[t]
    BY <1>1, <1>2, <1>3, Created DEF Holds
  <1>5. Filled = Slots \ {s} /\ Filled' = Slots
    BY <1>1, <1>2, <1>3, SlotFacts DEF Filled
  <1>6. NoStaleIds'
    <2>1. \A t \in Slots \ {s} : Holds(t, want) BY <1>1, <1>3, <1>5 DEF NoStaleIds
    <2>2. \A t \in Slots : Holds(t, want)' BY <1>4, <2>1
    <2>3. \A t, u \in Slots : t # u => id'[t] # id'[u]
      BY <1>1, <1>4, <1>5, <2>1 DEF NoStaleIds
    <2> QED BY <1>2, <1>4, <1>5, <2>2, <2>3, SlotFacts DEF NoStaleIds, Holds
  <1>7. TypeOK' BY <1>1, <1>2, <1>3, <1>4 DEF TypeOK
  <1>8. PictureInv' /\ ReturnsOwnFrame'
    BY <1>1, <1>2, <1>4, SlotFacts DEF PictureInv, ReturnsOwnFrame, OwnOrUnsure
  <1>9. LostByFailures' /\ BufferInv'
    BY <1>1, <1>2, <1>3, <1>4, SlotFacts DEF IInv, LostByFailures, BufferInv
  <1> QED BY <1>6, <1>7, <1>8, <1>9 DEF IInv

\* What the stages that need a context start from.
LEMMA Ready ==
  ASSUME IInv, pc \in Planes \cup {"decode", "vpp", "export", "close", "closeFailed"}
  PROVE  /\ TypeOK /\ NoStaleIds /\ have /\ dim = want /\ want \in Sizes /\ want \in Nat
         /\ answer = -1 /\ n \in 0 .. MaxReqs
  BY SlotFacts, DecodeAssumption DEF IInv, NoStaleIds, PictureInv, TypeOK

\* A surface that a stage draws on, in success or in failure.
LEMMA DrawStep ==
  ASSUME IInv, NEW b \in 0 .. 4, LoseBuffers(b), NEW s \in Slots, NEW p \in 0 .. MaxReqs,
         obj' = [obj EXCEPT ![id[s]].pic = p],
         UNCHANGED <<n, want, have, dim, id, out, total, sure, pending, fds>>,
         \/ pc = "decode" /\ pc' = "vpp" /\ s = "surfaces" /\ p = n /\ b = 4
         \/ pc = "vpp" /\ pc' = "export" /\ s = "vppOut" /\ p = n /\ b = 1
         \/ pc \in {"decode", "vpp"} /\ pc' = "idle" /\ (pc = "vpp" => b <= 1),
         IF pc' = "idle" THEN answer' = -1 /\ failed' = failed + 1
                         ELSE UNCHANGED <<answer, failed>>
  PROVE  IInv'
  <1>1. /\ TypeOK /\ NoStaleIds /\ have /\ dim = want /\ want \in Sizes
        /\ answer = -1 /\ n \in 0 .. MaxReqs
    BY Ready
  <1>2. /\ obj' \in [Ids -> Objects \cup {Free}]
        /\ \A i \in Ids : obj'[i].kind = obj[i].kind /\ obj'[i].dim = obj[i].dim
        /\ obj'[id[s]].pic = p
    BY <1>1, Painted
  <1>3. /\ lost' \in [DOMAIN Nothing -> Nat]
        /\ lost'.buffers = lost.buffers + b
        /\ lost'.images = lost.images /\ lost'.memory = lost.memory /\ lost'.fds = lost.fds
    BY <1>1, BuffersLost
  <1>4. TypeOK' BY <1>1, <1>2, <1>3 DEF TypeOK
  <1>5. NoStaleIds'
    <2>1. CASE pc' = "idle" BY <1>1, <1>2, <2>1, IdleObjects
    <2>2. CASE pc' # "idle" BY <1>1, <1>2, <2>2, SameObjects, SlotFacts
    <2> QED BY <2>1, <2>2
  <1>6. PictureInv' /\ ReturnsOwnFrame'
    BY <1>1, <1>2, SlotFacts DEF IInv, PictureInv, ReturnsOwnFrame, OwnOrUnsure
  <1>7. LostByFailures' /\ BufferInv'
    BY <1>1, <1>3, SlotFacts, CountTypes DEF IInv, LostByFailures, BufferInv
  <1> QED BY <1>4, <1>5, <1>6, <1>7 DEF IInv

\* The pictures a surface may show after a call that failed.
LEMMA Shown ==
  ASSUME IInv, have, NEW s \in Slots
  PROVE  {0, n, obj[id[s]].pic} \subseteq 0 .. MaxReqs
  <1>1. id[s] \in Ids /\ obj[id[s]] \in Objects \cup {Free}
    BY DEF IInv, NoStaleIds, Filled, Holds, TypeOK
  <1> QED BY <1>1, DecodeAssumption DEF IInv, TypeOK, Objects, Free

\* vaEndPicture puts the request's picture into surfaces[0].
LEMMA DecodeStep == ASSUME IInv, Decode PROVE IInv'
  <1>1. /\ pc = "decode" /\ UNCHANGED <<n, want, have, dim, id, out, total, sure, pending, fds>>
    BY DEF Decode, copy
  <1>2. "surfaces" \in Slots /\ have /\ n \in 0 .. MaxReqs BY <1>1, Ready, SlotFacts
  <1>3. CASE GoOn("vpp") /\ LoseBuffers(4) /\ obj' = [obj EXCEPT ![id["surfaces"]].pic = n]
    <2>1. 4 \in 0 .. 4 OBVIOUS
    <2>2. pc' = "vpp" /\ UNCHANGED <<answer, failed>> BY <1>3 DEF GoOn
    <2> QED BY <1>1, <1>2, <1>3, <2>1, <2>2, DrawStep
  <1>4. ASSUME NEW b \in 0 .. 4, LoseBuffers(b), Fail,
               NEW p \in {0, n, obj[id["surfaces"]].pic},
               obj' = [obj EXCEPT ![id["surfaces"]].pic = p]
        PROVE  IInv'
    <2>1. p \in 0 .. MaxReqs BY <1>2, Shown
    <2> QED BY <1>1, <1>2, <1>4, <2>1, DrawStep DEF Fail
  <1> QED BY <1>3, <1>4 DEF Decode

\* The blit takes it to vpp_out.
LEMMA VppStep == ASSUME IInv, Vpp PROVE IInv'
  <1>1. /\ pc = "vpp" /\ UNCHANGED <<n, want, have, dim, id, out, total, sure, pending, fds>>
    BY DEF Vpp, copy
  <1>2. "vppOut" \in Slots /\ have /\ n \in 0 .. MaxReqs BY <1>1, Ready, SlotFacts
  <1>3. CASE /\ GoOn("export") /\ LoseBuffers(1)
             /\ obj' = [obj EXCEPT ![id["vppOut"]].pic = obj[id["surfaces"]].pic]
    <2>1. obj[id["surfaces"]].pic = n BY <1>1 DEF IInv, PictureInv
    <2>2. 1 \in 0 .. 4 OBVIOUS
    <2>3. pc' = "export" /\ UNCHANGED <<answer, failed>> BY <1>3 DEF GoOn
    <2>4. obj' = [obj EXCEPT ![id["vppOut"]].pic = n] BY <1>3, <2>1
    <2> QED BY <1>1, <1>2, <1>3, <2>2, <2>3, <2>4, DrawStep
  <1>4. ASSUME NEW b \in 0 .. 1, LoseBuffers(b), Fail,
               NEW p \in {0, n, obj[id["vppOut"]].pic},
               obj' = [obj EXCEPT ![id["vppOut"]].pic = p]
        PROVE  IInv'
    <2>1. p \in 0 .. MaxReqs BY <1>2, Shown
    <2>2. b \in 0 .. 4 /\ b <= 1 OBVIOUS
    <2>3. pc' = "idle" /\ answer' = -1 /\ failed' = failed + 1 BY <1>4 DEF Fail
    <2> QED BY <1>1, <1>2, <1>4, <2>1, <2>2, <2>3, DrawStep
  <1> QED BY <1>3, <1>4 DEF Vpp

\* Exporting vpp_out changes nothing that is kept.
LEMMA ExportStep == ASSUME IInv, Export PROVE IInv'
  <1>1. /\ pc = "export"
        /\ UNCHANGED <<n, want, have, dim, id, obj, out, total, sure, pending, lost>>
    BY DEF Export, gdec
  <1>2. /\ TypeOK /\ NoStaleIds /\ have /\ dim = want /\ want \in Sizes /\ answer = -1
    BY <1>1, Ready
  <1>3. \/ pc' = "luma" /\ fds' \in {1, 2} /\ UNCHANGED <<answer, failed>>
        \/ pc' = "idle" /\ answer' = -1 /\ failed' = failed + 1 /\ UNCHANGED fds
    BY DEF Export, GoOn, Fail
  <1>4. TypeOK' BY <1>1, <1>2, <1>3, SlotFacts, CountTypes, DecodeAssumption DEF TypeOK
  <1>5. NoStaleIds'
    <2>1. CASE pc' = "idle" BY <1>1, <1>2, <2>1, IdleObjects
    <2>2. CASE pc' = "luma" BY <1>1, <1>2, <2>2, SameObjects, SlotFacts
    <2> QED BY <1>3, <2>1, <2>2
  <1>6. PictureInv' /\ ReturnsOwnFrame'
    BY <1>1, <1>2, <1>3, SlotFacts DEF IInv, PictureInv, ReturnsOwnFrame, OwnOrUnsure
  <1>7. LostByFailures' /\ BufferInv'
    BY <1>1, <1>2, <1>3, SlotFacts, CountTypes DEF IInv, LostByFailures, BufferInv
  <1> QED BY <1>4, <1>5, <1>6, <1>7 DEF IInv

\* Each plane that is copied is the request's own and fits.
LEMMA DetileStep == ASSUME IInv, Detile PROVE IInv'
  <1>1. /\ pc \in Planes /\ UNCHANGED <<n, want, have, dim, id, obj, fds, answer, failed>>
    BY DEF Detile, gdec, GoOn
  <1>2. /\ TypeOK /\ NoStaleIds /\ have /\ dim = want /\ want \in Sizes /\ want \in Nat
        /\ answer = -1 /\ n \in 0 .. MaxReqs
    BY <1>1, Ready, SlotFacts
  <1>3. obj[id["vppOut"]].pic = n BY <1>1 DEF IInv, PictureInv
  <1>4. /\ pc = "luma" => total = 0 /\ PlaneSize(pc) = 2 * want
        /\ pc = "chroma" => total = 2 * want /\ PlaneSize(pc) = want
    BY <1>1, SlotFacts DEF IInv, PictureInv, PlaneSize
  <1>5. total \in Nat /\ OutMax \in Nat BY <1>2, DecodeAssumption DEF TypeOK
  <1>6. CASE /\ total + PlaneSize(pc) <= OutMax
             /\ Copied
             /\ total' = total + PlaneSize(pc)
             /\ pc' = (IF pc = "luma" THEN "chroma" ELSE "close")
             /\ UNCHANGED lost
    <2>1. /\ out' \in [Planes -> 0 .. MaxReqs] /\ sure' \subseteq Planes /\ pending' \in BOOLEAN
          /\ out'[pc] = n \/ (out'[pc] = 0 /\ pc \notin sure')
          /\ \A q \in Planes \ {pc} : out'[q] = out[q] /\ (q \in sure' <=> q \in sure)
      <3>1. /\ out \in [Planes -> 0 .. MaxReqs] /\ sure \subseteq Planes
            /\ pending \in BOOLEAN /\ 0 \in 0 .. MaxReqs
        BY <1>2, DecodeAssumption DEF TypeOK
      <3>2. pc \notin sure BY <1>1, SlotFacts DEF IInv, PictureInv
      <3>3. PICK recorded, waited \in BOOLEAN :
              /\ \/ out' = [out EXCEPT ![pc] = n]
                 \/ ~(recorded /\ waited /\ ~pending) /\ out' = [out EXCEPT ![pc] = 0]
              /\ sure' = IF recorded /\ waited /\ ~pending THEN sure \cup {pc} ELSE sure
              /\ pending' = ~waited
        BY <1>3, <1>6 DEF Copied
      <3>4. sure' \subseteq Planes /\ \A q \in Planes \ {pc} : q \in sure' <=> q \in sure
        BY <1>1, <3>1, <3>3
      <3>5. CASE out' = [out EXCEPT ![pc] = n] BY <1>1, <1>2, <3>1, <3>3, <3>4, <3>5
      <3>6. CASE /\ ~(recorded /\ waited /\ ~pending)
                 /\ out' = [out EXCEPT ![pc] = 0]
        <4>1. sure' = sure BY <3>3, <3>6
        <4> QED BY <1>1, <1>2, <3>1, <3>2, <3>3, <3>4, <3>6, <4>1
      <3> QED BY <3>3, <3>5, <3>6
    <2>2. total' \in 0 .. OutMax BY <1>1, <1>2, <1>4, <1>5, <1>6, SlotFacts
    <2>3. TypeOK' BY <1>1, <1>2, <1>6, <2>1, <2>2, SlotFacts DEF TypeOK
    <2>4. NoStaleIds' BY <1>1, <1>2, <1>6, SameObjects, SlotFacts
    <2>5. PictureInv' /\ ReturnsOwnFrame'
      <3>1. CASE pc = "luma"
        <4>1. "chroma" \notin sure /\ "chroma" \in Planes \ {pc}
          BY <3>1, SlotFacts DEF IInv, PictureInv
        <4>2. "chroma" \notin sure' BY <2>1, <4>1
        <4> QED BY <1>1, <1>2, <1>3, <1>4, <1>6, <2>1, <3>1, <4>2, SlotFacts
                DEF PictureInv, ReturnsOwnFrame, OwnOrUnsure
      <3>2. CASE pc = "chroma"
        <4>1. out["luma"] = n \/ (out["luma"] = 0 /\ "luma" \notin sure)
          BY <3>2 DEF IInv, PictureInv, OwnOrUnsure
        <4>2. out'["luma"] = n \/ (out'["luma"] = 0 /\ "luma" \notin sure')
          BY <2>1, <3>2, <4>1, SlotFacts
        <4>3. total' = 3 * want BY <1>2, <1>4, <1>6, <3>2
        <4> QED BY <1>1, <1>2, <1>6, <2>1, <3>2, <4>2, <4>3, SlotFacts
                DEF PictureInv, ReturnsOwnFrame, OwnOrUnsure
      <3> QED BY <1>1, <3>1, <3>2, SlotFacts
    <2>6. LostByFailures' /\ BufferInv'
      BY <1>1, <1>2, <1>6, SlotFacts, CountTypes DEF IInv, LostByFailures, BufferInv
    <2> QED BY <2>3, <2>4, <2>5, <2>6 DEF IInv
  <1>7. ASSUME pc' = "closeFailed", UNCHANGED <<out, total, sure>>, pending' \in BOOLEAN,
               \/ UNCHANGED lost
               \/ \E l \in DetileLoses : lost' = [k \in DOMAIN lost |-> lost[k] + l[k]]
        PROVE  IInv'
    <2>1. /\ lost' \in [DOMAIN Nothing -> Nat] /\ lost'.buffers = lost.buffers
          /\ lost'.images <= lost.images + 2 /\ lost'.memory <= lost.memory + 2
          /\ lost'.fds <= lost.fds + 1
          /\ lost'.images \in Nat /\ lost'.memory \in Nat /\ lost'.fds \in Nat
      <3>1. CASE UNCHANGED lost BY <1>2, <3>1, CountTypes DEF TypeOK
      <3>2. CASE \E l \in DetileLoses : lost' = [k \in DOMAIN lost |-> lost[k] + l[k]]
        <4>0. PICK l \in DetileLoses : lost' = [k \in DOMAIN lost |-> lost[k] + l[k]]
          BY <3>2
        <4>1. DOMAIN lost = {"buffers", "images", "memory", "fds"}
          BY <1>2, LostFacts DEF TypeOK
        <4>2. /\ lost'.buffers = lost.buffers + l.buffers
              /\ lost'.images = lost.images + l.images
              /\ lost'.memory = lost.memory + l.memory /\ lost'.fds = lost.fds + l.fds
          BY <4>0, <4>1
        <4>3. /\ l.buffers = 0 /\ l.images \in 0 .. 2 /\ l.memory \in 0 .. 2
              /\ l.fds \in 0 .. 1
          BY LostFacts
        <4>4. \A k \in DOMAIN lost : lost[k] + l[k] \in Nat
          BY <1>2, <4>1, <4>3, CountTypes
        <4>5. lost' \in [DOMAIN Nothing -> Nat] BY <4>0, <4>1, <4>4, LostFacts
        <4> QED BY <1>2, <4>2, <4>3, <4>5, CountTypes
      <3> QED BY <1>7, <3>1, <3>2
    <2>2. TypeOK' BY <1>1, <1>2, <1>7, <2>1 DEF TypeOK
    <2>3. NoStaleIds' BY <1>1, <1>2, <1>7, SameObjects, SlotFacts
    <2>4. PictureInv' /\ ReturnsOwnFrame'
      BY <1>1, <1>2, <1>7, SlotFacts DEF PictureInv, ReturnsOwnFrame, OwnOrUnsure
    <2>5. LostByFailures' /\ BufferInv'
      BY <1>1, <1>2, <1>7, <2>1, SlotFacts, CountTypes DEF IInv, LostByFailures, BufferInv
    <2> QED BY <2>2, <2>3, <2>4, <2>5 DEF IInv
  <1>8. pending \in BOOLEAN BY <1>2 DEF TypeOK
  <1> QED BY <1>6, <1>7, <1>8 DEF Detile, GoOn

\* The descriptors are closed, and then the request succeeds or fails.
LEMMA CloseStep == ASSUME IInv, Close PROVE IInv'
  <1>1. /\ pc \in {"close", "closeFailed"} /\ pc' = "idle" /\ fds' = 0
        /\ UNCHANGED <<n, want, have, dim, id, obj, out, total, sure, pending, lost>>
    BY DEF Close, Fail, gdec
  <1>2. \/ pc = "close" /\ answer' = n /\ UNCHANGED failed
        \/ pc = "closeFailed" /\ answer' = -1 /\ failed' = failed + 1
    BY DEF Close, Fail
  <1>3. /\ TypeOK /\ NoStaleIds /\ n \in 0 .. MaxReqs BY <1>1, Ready
  <1>4. TypeOK' BY <1>1, <1>2, <1>3, CountTypes DEF TypeOK
  <1>5. NoStaleIds' BY <1>1, <1>3, IdleObjects
  <1>6. PictureInv' /\ ReturnsOwnFrame'
    BY <1>1, <1>2, SlotFacts DEF IInv, PictureInv, ReturnsOwnFrame, OwnOrUnsure
  <1>7. LostByFailures' /\ BufferInv'
    BY <1>1, <1>2, <1>3, SlotFacts, CountTypes DEF IInv, LostByFailures, BufferInv
  <1> QED BY <1>4, <1>5, <1>6, <1>7 DEF IInv

\* A freshly started decoder, with no context and no objects.
LEMMA InitIInv == ASSUME Init PROVE IInv
  <1>1. TypeOK
    <2>1. Nothing \in [DOMAIN Nothing -> Nat] BY DEF Nothing
    <2>2. 0 \in 0 .. MaxReqs /\ -1 \in -1 .. MaxReqs /\ 0 \in 0 .. OutMax
      BY DecodeAssumption
    <2>3. /\ id \in [Slots -> Ids \cup {NoId}] /\ obj \in [Ids -> Objects \cup {Free}]
          /\ out \in [Planes -> 0 .. MaxReqs]
      BY <2>2 DEF Init
    <2>4. lost \in [DOMAIN Nothing -> Nat] BY <2>1 DEF Init
    <2>5. /\ pc = "idle" /\ n = 0 /\ want = 0 /\ have = FALSE /\ dim = 0 /\ total = 0
          /\ sure = {} /\ pending = FALSE /\ fds = 0 /\ answer = -1 /\ failed = 0
      BY DEF Init
    <2>6. pc \in Slots \cup Planes \cup {"idle", "destroy", "decode", "vpp", "export",
                                         "close", "closeFailed"}
      BY <2>5
    <2>7. fds \in 0 .. 2 /\ failed \in Nat BY <2>5
    <2>8. have \in BOOLEAN /\ pending \in BOOLEAN /\ sure \subseteq Planes BY <2>5
    <2>9. n \in 0 .. MaxReqs /\ total \in 0 .. OutMax /\ answer \in -1 .. MaxReqs
      BY <2>2, <2>5
    <2>10. want \in Sizes \cup {0} /\ dim \in Sizes \cup {0} BY <2>5
    <2> QED BY <2>3, <2>4, <2>6, <2>7, <2>8, <2>9, <2>10 DEF TypeOK
  <1>2. NoStaleIds BY SlotFacts DEF Init, NoStaleIds, Filled
  <1>3. PictureInv /\ ReturnsOwnFrame
    BY SlotFacts DEF Init, PictureInv, ReturnsOwnFrame, OwnOrUnsure
  <1>4. LostByFailures /\ BufferInv
    BY SlotFacts DEF Init, LostByFailures, BufferInv, Nothing
  <1> QED BY <1>1, <1>2, <1>3, <1>4 DEF IInv

\* One case for each stage of decode_h264_frame.
LEMMA StepIInv == ASSUME IInv, [Next]_vars PROVE IInv'
  <1>1. CASE UNCHANGED vars
    <2>1. UNCHANGED <<pc, n, want, have, dim, id, obj, out, total, sure, pending, fds, lost,
                      answer, failed>>
      BY <1>1 DEF vars, gdec, copy
    <2> QED BY <2>1 DEF IInv, TypeOK, NoStaleIds, Filled, Holds, PictureInv,
                        ReturnsOwnFrame, OwnOrUnsure, LostByFailures, BufferInv
  <1> QED BY <1>1, RejectStep, AcceptStep, DestroyStep, CreateKeptStep, CreateVppContextStep,
             DecodeStep, VppStep, ExportStep, DetileStep, CloseStep DEF Next

------------------------------------------------------------------------------
(* The theorems.                                                           *)

\* The inductive invariant holds in every state.
THEOREM Invariance == Spec => []IInv
  <1>1. Init => IInv BY InitIInv
  <1>2. IInv /\ [Next]_vars => IInv' BY StepIInv
  <1> QED BY <1>1, <1>2, PTL DEF Spec

\* The decoder's state, g_out_buf and the driver's objects keep their types: in
\* particular what is copied to g_out_buf never exceeds it.
THEOREM TypeCorrect == Spec => []TypeOK
  <1>1. IInv => TypeOK BY DEF IInv
  <1> QED BY <1>1, Invariance, PTL

\* No id that decode_h264_frame uses is stale, whatever failed before.
THEOREM NoIdIsStale == Spec => []NoStaleIds
  <1>1. IInv => NoStaleIds BY DEF IInv
  <1> QED BY <1>1, Invariance, PTL

\* A frame that is returned is the whole frame of its own request.
THEOREM OwnFrameOnly == Spec => []ReturnsOwnFrame
  <1>1. IInv => ReturnsOwnFrame BY DEF IInv
  <1> QED BY <1>1, Invariance, PTL

\* What is lost is bounded by the failures, and descriptors are closed.
THEOREM LossesAreBounded == Spec => []LostByFailures
  <1>1. IInv => LostByFailures BY DEF IInv
  <1> QED BY <1>1, Invariance, PTL

\* The context and its surfaces are made again only for another resolution.
THEOREM ContextIsReused == Spec => RecreatedOnlyForNewSize
  <1>1. IInv /\ [Next]_vars =>
          [/\ have /\ ~have' => want # dim
           /\ have /\ have' => dim' = dim /\ id' = id]_vars
    <2> DEFINE Reused == /\ have /\ ~have' => want # dim
                         /\ have /\ have' => dim' = dim /\ id' = id
    <2> SUFFICES ASSUME IInv, Next PROVE Reused
      OBVIOUS
    <2>1. CASE Reject \/ \E s \in Sizes : Accept(s) BY <2>1 DEF Reject, Accept, gdec
    <2>2. CASE Destroy BY <2>2 DEF Destroy, IInv, PictureInv
    <2>3. CASE CreateKept
      <3>1. ~have BY <2>3, SlotFacts DEF CreateKept, IInv, NoStaleIds
      <3> QED BY <2>3, <3>1 DEF CreateKept
    <2>4. CASE CreateVppContext
      <3>1. ~have BY <2>4, SlotFacts DEF CreateVppContext, IInv, NoStaleIds
      <3> QED BY <2>4, <3>1 DEF CreateVppContext
    <2>5. CASE Decode \/ Vpp \/ Export \/ Detile \/ Close
      BY <2>5 DEF Decode, Vpp, Export, Detile, Close, gdec
    <2> QED BY <2>1, <2>2, <2>3, <2>4, <2>5 DEF Next
  <1> QED BY <1>1, Invariance, PTL DEF Spec, RecreatedOnlyForNewSize
==============================================================================
