------------------------- MODULE EncodeBackendProofs -------------------------
(***************************************************************************)
(* The safety properties of EncodeBackend for any driver, any number of    *)
(* ids and resolutions and any sequence of requests and failures, from the *)
(* inductive invariant IInv.                                               *)
(***************************************************************************)
EXTENDS EncodeBackend, FiniteSetTheorems, TLAPS

\* The slots are seven different names; the contents of slot s have a kind.
LEMMA SlotFacts ==
  /\ Kept \subseteq Slots /\ "input" \in Slots /\ "pipe" \in Slots /\ "coded" \in Slots
  /\ \A s \in Slots : KindOf[s] \in {"surface", "context", "buffer"}
  /\ Filled \subseteq Slots
  BY DEF Slots, Kept, KindOf, Filled

\* A vaCreate call fills its slot with an object of the right kind and size,
\* and leaves every other object that is in use where it is.
LEMMA Created ==
  ASSUME TypeOK, want \in Sizes, NEW s \in Slots, NEW content \in 0 .. MaxReqs, NEW next,
         Create(s, content, next), want' = want
  PROVE  /\ id' \in [Slots -> Ids \cup {NoId}] /\ obj' \in [Ids -> Objects \cup {Free}]
         /\ Holds(s, want)' /\ obj'[id'[s]].pic = content
         /\ \A t \in Slots \ {s}, size \in Sizes \cup {NoSize} :
               Holds(t, size) => /\ Holds(t, size)' /\ id'[t] # id'[s]
                                 /\ id'[t] = id[t] /\ obj'[id[t]] = obj[id[t]]
  <1>1. PICK i \in Ids :
           /\ obj[i] = Free /\ id' = [id EXCEPT ![s] = i]
           /\ obj' = [obj EXCEPT ![i] =
                        [kind |-> KindOf[s], dim |-> want, pic |-> content]]
    BY DEF Create, Live
  <1>2. [kind |-> KindOf[s], dim |-> want, pic |-> content] \in Objects
    BY SlotFacts DEF Objects
  <1>3. id' \in [Slots -> Ids \cup {NoId}] BY <1>1 DEF TypeOK
  <1>4. obj' \in [Ids -> Objects \cup {Free}] BY <1>1, <1>2 DEF TypeOK
  <1>5. /\ id'[s] = i
        /\ obj'[i] = [kind |-> KindOf[s], dim |-> want, pic |-> content]
    BY <1>1 DEF TypeOK
  <1>6. Holds(s, want)' BY <1>5 DEF Holds
  <1>7. ASSUME NEW t \in Slots \ {s}, NEW size \in Sizes \cup {NoSize}, Holds(t, size)
        PROVE  /\ Holds(t, size)' /\ id'[t] # id'[s]
               /\ id'[t] = id[t] /\ obj'[id[t]] = obj[id[t]]
    <2>1. id'[t] = id[t] BY <1>1, <1>7 DEF TypeOK
    <2>2. id[t] # i
      <3>1. obj[i].kind = "none" /\ KindOf[t] # "none"
        BY <1>1, <1>7, SlotFacts DEF Free
      <3> QED BY <1>7, <3>1 DEF Holds
    <2>3. obj'[id[t]] = obj[id[t]] BY <1>1, <1>7, <2>2 DEF TypeOK, Holds
    <2> QED BY <1>5, <1>7, <2>1, <2>2, <2>3 DEF Holds
  <1> QED BY <1>3, <1>4, <1>5, <1>6, <1>7

\* Destroying what is in the slots S leaves the objects of the others.
LEMMA Destroyed ==
  ASSUME TypeOK, NEW S \in SUBSET Slots
  PROVE  /\ Without(S) \in [Ids -> Objects \cup {Free}]
         /\ \A i \in Ids : (\A s \in S : id[s] # i) => Without(S)[i] = obj[i]
  BY DEF TypeOK, Without

------------------------------------------------------------------------------
(* Each action preserves IInv.                                             *)

\* While have_context is set, the four kept slots hold objects of their own.
LEMMA KeptObjects ==
  ASSUME IInv, have
  PROVE  \A s \in Kept : Holds(s, dim) /\ \A t \in Kept : s # t => id[s] # id[t]
  BY DEF IInv, NoStaleIds, Filled

\* A return of -1 that destroys only what is not kept preserves IInv.
LEMMA FailStep ==
  ASSUME IInv, NEW S \in SUBSET {"input"}, S \subseteq Filled, Fail(S),
         UNCHANGED <<n, want, have, dim, complete>>
  PROVE  IInv'
  <1>1. TypeOK BY DEF IInv
  <1>2. S \in SUBSET Slots /\ \A s \in Kept : s \notin S
    BY SlotFacts DEF Kept
  <1>3. /\ pc' = "idle" /\ answer' = -1 /\ failed' \in Nat
        /\ obj' = Without(S) /\ UNCHANGED id
    BY <1>1 DEF Fail, TypeOK
  <1>4. obj' \in [Ids -> Objects \cup {Free}] BY <1>1, <1>2, <1>3, Destroyed
  <1>5. answer' \in -1 .. MaxReqs BY <1>3, EncodeAssumption
  <1>6. TypeOK' BY <1>1, <1>3, <1>4, <1>5 DEF TypeOK
  <1>7. Filled' = IF have THEN Kept ELSE {} BY <1>3 DEF Filled
  <1>8. ASSUME NEW s \in Kept, have
        PROVE  Holds(s, dim)' /\ \A t \in Kept : s # t => id'[s] # id'[t]
    <2>1. Holds(s, dim) /\ \A t \in Kept : s # t => id[s] # id[t]
      BY <1>8, KeptObjects
    <2>2. \A t \in S : id[t] # id[s]
      <3>1. s \in Filled /\ S \subseteq Filled /\ s \notin S BY <1>2, <1>8 DEF Filled
      <3> QED BY <3>1 DEF IInv, NoStaleIds
    <2>3. obj'[id[s]] = obj[id[s]] BY <1>1, <1>2, <1>3, <2>1, <2>2, Destroyed DEF Holds
    <2> QED BY <1>3, <2>1, <2>3 DEF Holds
  <1>9. NoStaleIds' BY <1>3, <1>7, <1>8 DEF NoStaleIds, Kept
  <1>10. PictureInv' /\ EncodesOwnFrame' BY <1>3 DEF PictureInv, EncodesOwnFrame
  <1> QED BY <1>6, <1>9, <1>10 DEF IInv

\* The comparison of sizes preserves IInv: what is kept is used only at its size.
LEMMA RequestStep == ASSUME IInv, NEW s \in Sizes, Request(s) PROVE IInv'
  <1>1. TypeOK /\ pc = "idle" BY DEF IInv, Request
  <1>2. /\ n' = n + 1 /\ n' \in 0 .. MaxReqs /\ want' = s /\ answer' = -1
        /\ UNCHANGED <<have, dim, id, obj, complete, failed>>
    BY <1>1, EncodeAssumption DEF Request, TypeOK
  <1>3. \/ pc' = "import" /\ have /\ dim = s
        \/ pc' = "destroy" /\ have /\ dim # s
        \/ pc' = "recon" /\ ~have
    BY DEF Request
  <1>4. TypeOK' BY <1>1, <1>2, <1>3, EncodeAssumption DEF TypeOK, Kept
  <1>5. Filled' = IF have THEN Kept ELSE {} BY <1>2, <1>3 DEF Filled
  <1>6. NoStaleIds'
    <2>1. \A t \in Kept : have => Holds(t, dim)' /\ \A u \in Kept : t # u => id'[t] # id'[u]
      BY <1>2, KeptObjects DEF Holds
    <2> QED BY <1>2, <1>3, <1>5, <2>1 DEF NoStaleIds, Kept
  <1>7. PictureInv' /\ EncodesOwnFrame' BY <1>2, <1>3 DEF PictureInv, EncodesOwnFrame
  <1> QED BY <1>4, <1>6, <1>7 DEF IInv

\* Dropping the old resolution preserves IInv, since have_context goes with it.
LEMMA DestroyStep == ASSUME IInv, Destroy PROVE IInv'
  <1>1. TypeOK /\ PictureInv /\ pc = "destroy" BY DEF IInv, Destroy
  <1>2. /\ pc' = "recon" /\ have' = FALSE /\ obj' = Without(Kept)
        /\ UNCHANGED <<n, want, dim, id, complete, answer, failed>>
    BY DEF Destroy
  <1>3. obj' \in [Ids -> Objects \cup {Free}] BY <1>1, <1>2, SlotFacts, Destroyed
  <1>4. TypeOK' BY <1>1, <1>2, <1>3 DEF TypeOK, Kept
  <1>5. Filled' = {} BY <1>2 DEF Filled
  <1>6. NoStaleIds' BY <1>2, <1>5 DEF NoStaleIds, Kept
  <1>7. PictureInv' /\ EncodesOwnFrame'
    BY <1>1, <1>2 DEF PictureInv, EncodesOwnFrame
  <1> QED BY <1>4, <1>6, <1>7 DEF IInv

\* Creating the first three kept objects, or failing to, preserves IInv.
LEMMA CreateKeptStep == ASSUME IInv, CreateKept PROVE IInv'
  <1>1. TypeOK /\ PictureInv /\ NoStaleIds BY DEF IInv
  <1>2. UNCHANGED <<n, want, have, dim, complete>> BY DEF CreateKept
  <1>3. CASE Fail({}) BY <1>2, <1>3, FailStep
  <1>4. ASSUME NEW s \in Kept, NEW next \in Kept, pc = s, Create(s, 0, next),
               \/ s = "recon" /\ next = "context"
               \/ s = "context" /\ next = "nv12"
               \/ s = "nv12" /\ next = "vppContext"
        PROVE  IInv'
    <2>1. want \in Sizes /\ answer = -1 /\ ~have
      BY <1>1, <1>4 DEF PictureInv, NoStaleIds, Kept
    <2>2. pc' = next /\ UNCHANGED <<answer, failed>> BY <1>4 DEF Create
    <2>3. 0 \in 0 .. MaxReqs /\ s \in Slots BY EncodeAssumption, SlotFacts
    <2>4. /\ id' \in [Slots -> Ids \cup {NoId}] /\ obj' \in [Ids -> Objects \cup {Free}]
          /\ Holds(s, want)'
          /\ \A t \in Slots \ {s}, size \in Sizes \cup {NoSize} :
                Holds(t, size) => Holds(t, size)' /\ id'[t] # id'[s] /\ id'[t] = id[t]
      BY <1>1, <1>2, <1>4, <2>1, <2>3, Created
    <2>5. TypeOK' BY <1>1, <1>2, <1>4, <2>2, <2>4 DEF TypeOK
    <2>6. Filled' = Filled \cup {s} /\ s \notin Filled /\ Filled \subseteq Kept
      BY <1>2, <1>4, <2>1, <2>2 DEF Filled, Kept
    <2>7. ASSUME NEW t \in Filled PROVE Holds(t, want)' /\ id'[t] # id'[s] /\ id'[t] = id[t]
      <3>1. Holds(t, want) BY <1>1, <2>1 DEF NoStaleIds
      <3>2. t \in Slots \ {s} /\ want' = want BY <1>2, <2>6, SlotFacts
      <3> QED BY <2>1, <2>4, <3>1, <3>2
    <2>8. NoStaleIds'
      <3>1. \A t \in Filled' : Holds(t, want)' BY <2>4, <2>6, <2>7
      <3>2. \A t, u \in Filled' : t # u => id'[t] # id'[u]
        BY <1>1, <2>6, <2>7 DEF NoStaleIds
      <3> QED BY <1>2, <1>4, <2>1, <2>2, <3>1, <3>2 DEF NoStaleIds, Kept
    <2>9. PictureInv' /\ EncodesOwnFrame'
      BY <1>2, <1>4, <2>1, <2>2 DEF PictureInv, EncodesOwnFrame, Kept
    <2> QED BY <2>5, <2>8, <2>9 DEF IInv
  <1> QED BY <1>3, <1>4 DEF CreateKept, Kept

\* The last kept object, with the flag and the size set, preserves IInv.
LEMMA CreateVppContextStep == ASSUME IInv, CreateVppContext PROVE IInv'
  <1>1. TypeOK /\ PictureInv /\ NoStaleIds /\ pc = "vppContext"
    BY DEF IInv, CreateVppContext
  <1>2. /\ Create("vppContext", 0, "import")
        /\ have' = TRUE /\ dim' = want /\ UNCHANGED <<n, want, complete>>
        /\ pc' = "import" /\ UNCHANGED <<answer, failed>>
    BY DEF CreateVppContext, Create
  <1>3. want \in Sizes /\ answer = -1 /\ ~have
    BY <1>1 DEF PictureInv, NoStaleIds, Kept
  <1>4. 0 \in 0 .. MaxReqs /\ "vppContext" \in Slots
    BY EncodeAssumption DEF Slots, Kept
  <1>5. /\ id' \in [Slots -> Ids \cup {NoId}] /\ obj' \in [Ids -> Objects \cup {Free}]
        /\ Holds("vppContext", want)'
        /\ \A t \in Slots \ {"vppContext"}, size \in Sizes \cup {NoSize} :
              Holds(t, size) => /\ Holds(t, size)' /\ id'[t] # id'["vppContext"]
                                /\ id'[t] = id[t]
    BY <1>1, <1>2, <1>3, <1>4, Created
  <1>6. TypeOK' BY <1>1, <1>2, <1>3, <1>5 DEF TypeOK
  <1>7. Filled = Kept \ {"vppContext"} /\ Filled' = Kept
    BY <1>1, <1>2, <1>3 DEF Filled, Kept
  <1>8. ASSUME NEW t \in Filled
        PROVE  Holds(t, want)' /\ id'[t] # id'["vppContext"] /\ id'[t] = id[t]
    <2>1. Holds(t, want) BY <1>1, <1>3 DEF NoStaleIds
    <2>2. t \in Slots \ {"vppContext"} BY <1>7, SlotFacts
    <2> QED BY <1>2, <1>3, <1>5, <2>1, <2>2
  <1>9. NoStaleIds'
    <2>1. \A t \in Filled' : Holds(t, want)' BY <1>5, <1>7, <1>8
    <2>2. \A t, u \in Filled' : t # u => id'[t] # id'[u]
      BY <1>1, <1>7, <1>8 DEF NoStaleIds
    <2>3. dim' = want' BY <1>2
    <2> QED BY <1>2, <2>1, <2>2, <2>3 DEF NoStaleIds, Kept
  <1>10. PictureInv' /\ EncodesOwnFrame'
    BY <1>2, <1>3 DEF PictureInv, EncodesOwnFrame
  <1> QED BY <1>6, <1>9, <1>10 DEF IInv

\* Past vaapi_state_ensure_resolution: what is known of a request.
LEMMA Prepared ==
  ASSUME IInv, pc \in {"import", "pipe", "convert", "coded", "params", "encode", "map"}
  PROVE  /\ TypeOK /\ PictureInv /\ have /\ dim = want /\ want \in Sizes /\ answer = -1
         /\ \A s \in Filled : Holds(s, want)
         /\ \A s, t \in Filled : s # t => id[s] # id[t]
         /\ Kept \subseteq Filled
  BY DEF IInv, NoStaleIds, PictureInv, Filled, Kept

\* Creating one of the objects that last for a request preserves the slots.
LEMMA CreateForRequest ==
  ASSUME IInv, pc \in {"import", "pipe", "coded"}, NEW s \in {"input", "pipe", "coded"},
         NEW content \in 0 .. MaxReqs, NEW next, Create(s, content, next), s \notin Filled,
         UNCHANGED <<n, want, have, dim, complete>>, next \in {"pipe", "convert", "params"},
         Filled' = Filled \cup {s}
  PROVE  TypeOK' /\ NoStaleIds' /\ obj'[id'[s]].pic = content
         /\ \A t \in Filled : id'[t] = id[t] /\ obj'[id[t]] = obj[id[t]]
  <1>1. /\ TypeOK /\ have /\ dim = want /\ want \in Sizes
        /\ \A t \in Filled : Holds(t, want)
        /\ \A t, u \in Filled : t # u => id[t] # id[u]
    BY Prepared
  <1>2. s \in Slots BY SlotFacts
  <1>3. /\ id' \in [Slots -> Ids \cup {NoId}] /\ obj' \in [Ids -> Objects \cup {Free}]
        /\ Holds(s, want)' /\ obj'[id'[s]].pic = content
        /\ \A t \in Slots \ {s}, size \in Sizes \cup {NoSize} :
              Holds(t, size) => /\ Holds(t, size)' /\ id'[t] # id'[s]
                                /\ id'[t] = id[t] /\ obj'[id[t]] = obj[id[t]]
    BY <1>1, <1>2, Created
  <1>4. ASSUME NEW t \in Filled
        PROVE  Holds(t, want)' /\ id'[t] # id'[s] /\ id'[t] = id[t] /\ obj'[id[t]] = obj[id[t]]
    <2>1. Holds(t, want) BY <1>1
    <2>2. t \in Slots \ {s} BY SlotFacts
    <2> QED BY <1>1, <1>3, <2>1, <2>2
  <1>5. pc' = next /\ UNCHANGED <<answer, failed>> BY DEF Create
  <1>6. TypeOK' BY <1>1, <1>3, <1>5 DEF TypeOK
  <1>7. NoStaleIds'
    <2>1. \A t \in Filled' : Holds(t, want)' BY <1>3, <1>4
    <2>2. \A t, u \in Filled' : t # u => id'[t] # id'[u] BY <1>1, <1>4
    <2>3. have' /\ dim' = want' BY <1>1
    <2> QED BY <1>5, <2>1, <2>2, <2>3 DEF NoStaleIds, Kept
  <1> QED BY <1>3, <1>4, <1>6, <1>7

\* Importing the dma-buf preserves IInv: surfaces[0] holds the request's picture.
LEMMA ImportStep == ASSUME IInv, Import PROVE IInv'
  <1>1. pc = "import" /\ UNCHANGED <<n, want, have, dim, complete>> BY DEF Import
  <1>2. CASE Fail({}) BY <1>1, <1>2, FailStep
  <1>3. CASE Create("input", n, "pipe")
    <2>1. n \in 0 .. MaxReqs /\ answer = -1 /\ want \in Sizes
      BY <1>1, Prepared DEF TypeOK
    <2>2. pc' = "pipe" /\ UNCHANGED <<answer, failed>> BY <1>3 DEF Create
    <2>3. "input" \notin Filled /\ Filled' = Filled \cup {"input"}
      BY <1>1, <2>2 DEF Filled, Kept
    <2>4. TypeOK' /\ NoStaleIds' /\ obj'[id'["input"]].pic = n
      BY <1>1, <1>3, <2>1, <2>3, CreateForRequest
    <2>5. PictureInv' /\ EncodesOwnFrame'
      BY <1>1, <2>1, <2>2, <2>4 DEF PictureInv, EncodesOwnFrame
    <2> QED BY <2>4, <2>5 DEF IInv
  <1> QED BY <1>2, <1>3 DEF Import

\* Creating the pipeline buffer preserves IInv; a failure releases surfaces[0].
LEMMA CreatePipeStep == ASSUME IInv, CreatePipe PROVE IInv'
  <1>1. pc = "pipe" /\ UNCHANGED <<n, want, have, dim, complete>> BY DEF CreatePipe
  <1>2. CASE Fail({"input"})
    <2>1. {"input"} \subseteq Filled BY <1>1 DEF Filled
    <2> QED BY <1>1, <1>2, <2>1, FailStep
  <1>3. CASE Create("pipe", 0, "convert")
    <2>1. 0 \in 0 .. MaxReqs /\ answer = -1 /\ want \in Sizes /\ obj[id["input"]].pic = n
      BY <1>1, Prepared, EncodeAssumption DEF PictureInv
    <2>2. pc' = "convert" /\ UNCHANGED <<answer, failed>> BY <1>3 DEF Create
    <2>3. "pipe" \notin Filled /\ Filled' = Filled \cup {"pipe"} /\ "input" \in Filled
      BY <1>1, <2>2 DEF Filled, Kept
    <2>4. TypeOK' /\ NoStaleIds' /\ id'["input"] = id["input"]
          /\ obj'[id["input"]] = obj[id["input"]]
      BY <1>1, <1>3, <2>1, <2>3, CreateForRequest
    <2>5. PictureInv' /\ EncodesOwnFrame'
      BY <1>1, <2>1, <2>2, <2>4 DEF PictureInv, EncodesOwnFrame
    <2> QED BY <2>4, <2>5 DEF IInv
  <1> QED BY <1>2, <1>3 DEF CreatePipe

\* Creating the coded buffer preserves IInv: the NV12 surface keeps its picture.
LEMMA CreateCodedStep == ASSUME IInv, CreateCoded PROVE IInv'
  <1>1. pc = "coded" /\ UNCHANGED <<n, want, have, dim, complete>> BY DEF CreateCoded
  <1>2. CASE Fail({}) BY <1>1, <1>2, FailStep
  <1>3. CASE Create("coded", 0, "params")
    <2>1. 0 \in 0 .. MaxReqs /\ answer = -1 /\ want \in Sizes /\ obj[id["nv12"]].pic = n
      BY <1>1, Prepared, EncodeAssumption DEF PictureInv
    <2>2. pc' = "params" /\ UNCHANGED <<answer, failed>> BY <1>3 DEF Create
    <2>3. /\ "coded" \notin Filled /\ Filled' = Filled \cup {"coded"}
          /\ "nv12" \in Filled
      <3>1. have BY <1>1, Prepared
      <3> QED BY <1>1, <2>2, <3>1 DEF Filled, Kept
    <2>4. TypeOK' /\ NoStaleIds' /\ id'["nv12"] = id["nv12"]
          /\ obj'[id["nv12"]] = obj[id["nv12"]]
      BY <1>1, <1>3, <2>1, <2>3, CreateForRequest
    <2>5. PictureInv' /\ EncodesOwnFrame'
      BY <1>1, <2>1, <2>2, <2>4 DEF PictureInv, EncodesOwnFrame
    <2> QED BY <2>4, <2>5 DEF IInv
  <1> QED BY <1>2, <1>3 DEF CreateCoded

\* The conversion preserves IInv: what succeeds leaves the request's picture in
\* the NV12 surface, whatever was there before.
LEMMA ConvertStep == ASSUME IInv, Convert PROVE IInv'
  <1>1. /\ TypeOK /\ PictureInv /\ have /\ dim = want /\ want \in Sizes /\ answer = -1
        /\ \A s \in Filled : Holds(s, want)
        /\ \A s, t \in Filled : s # t => id[s] # id[t]
        /\ Kept \subseteq Filled /\ pc = "convert"
    BY Prepared DEF Convert
  <1>2. UNCHANGED <<n, want, have, dim, id, complete>> BY DEF Convert
  <1>3. Filled = Kept \cup {"input", "pipe"} BY <1>1 DEF Filled
  <1>4. /\ n \in 0 .. MaxReqs /\ obj[id["input"]].pic = n
        /\ obj[id["nv12"]].pic \in 0 .. MaxReqs /\ 0 \in 0 .. MaxReqs
    <2>1. Holds("nv12", want) BY <1>1, <1>3 DEF Kept
    <2>2. obj[id["nv12"]] \in Objects \cup {Free} BY <1>1, <2>1 DEF TypeOK, Holds
    <2>3. obj[id["nv12"]].pic \in 0 .. MaxReqs
      BY <2>2, EncodeAssumption DEF Objects, Free
    <2> QED BY <1>1, <2>3, EncodeAssumption DEF TypeOK, PictureInv
  <1>5. ASSUME NEW S \in SUBSET {"input", "pipe"}, NEW p \in 0 .. MaxReqs,
               obj' = [Without(S) EXCEPT ![id["nv12"]].pic = p]
        PROVE  /\ obj' \in [Ids -> Objects \cup {Free}] /\ obj'[id["nv12"]].pic = p
               /\ \A s \in Filled \ S : Holds(s, want)'
    <2>1. S \in SUBSET Slots /\ S \cap Kept = {} BY SlotFacts DEF Kept
    <2>2. /\ Without(S) \in [Ids -> Objects \cup {Free}]
          /\ \A s \in Filled \ S : Without(S)[id[s]] = obj[id[s]]
      <3>1. \A s \in Filled \ S, t \in S : id[t] # id[s] BY <1>1, <1>3
      <3>2. \A s \in Filled : id[s] \in Ids BY <1>1 DEF Holds
      <3> QED BY <1>1, <2>1, <3>1, <3>2, Destroyed
    <2>3. /\ "nv12" \in Filled \ S /\ Holds("nv12", want) /\ id["nv12"] \in Ids
          /\ Without(S)[id["nv12"]] = obj[id["nv12"]]
      BY <1>1, <1>3, <1>5, <2>1, <2>2 DEF Kept, Holds
    <2>4. obj[id["nv12"]] \in Objects
      <3>1. obj[id["nv12"]] # Free BY <2>3 DEF Holds, KindOf, Free, Slots, Kept
      <3> QED BY <1>1, <2>3, <3>1 DEF TypeOK
    <2>5. obj' = [Without(S) EXCEPT ![id["nv12"]] =
                    [obj[id["nv12"]] EXCEPT !.pic = p]]
      BY <1>5, <2>2, <2>3
    <2>6. [obj[id["nv12"]] EXCEPT !.pic = p] \in Objects BY <1>5, <2>4 DEF Objects
    <2>7. obj' \in [Ids -> Objects \cup {Free}] BY <2>2, <2>5, <2>6
    <2>8. obj'[id["nv12"]] = [obj[id["nv12"]] EXCEPT !.pic = p] BY <2>2, <2>3, <2>5
    <2>9. obj'[id["nv12"]].pic = p BY <2>4, <2>8 DEF Objects
    <2>10. ASSUME NEW s \in Filled \ S PROVE Holds(s, want)'
      <3>1. Holds(s, want) BY <1>1
      <3>2. CASE id[s] = id["nv12"] BY <1>2, <2>4, <2>8, <3>1, <3>2 DEF Holds, Objects
      <3>3. CASE id[s] # id["nv12"]
        <4>1. obj'[id[s]] = obj[id[s]] BY <2>2, <2>5, <3>1, <3>3 DEF Holds
        <4> QED BY <1>2, <3>1, <4>1 DEF Holds
      <3> QED BY <3>2, <3>3
    <2> QED BY <2>7, <2>9, <2>10
  <1>6. CASE /\ obj' = [Without({"pipe"}) EXCEPT ![id["nv12"]].pic = obj[id["input"]].pic]
             /\ pc' = "coded" /\ UNCHANGED <<answer, failed>>
    <2>1. /\ obj' \in [Ids -> Objects \cup {Free}] /\ obj'[id["nv12"]].pic = n
          /\ \A s \in Filled \ {"pipe"} : Holds(s, want)'
      BY <1>4, <1>5, <1>6
    <2>2. TypeOK' BY <1>1, <1>2, <1>6, <2>1 DEF TypeOK
    <2>3. Filled' = Filled \ {"pipe"}
      BY <1>1, <1>2, <1>3, <1>6 DEF Filled, Kept
    <2>4. NoStaleIds' BY <1>1, <1>2, <1>6, <2>1, <2>3 DEF NoStaleIds, Kept
    <2>5. PictureInv' /\ EncodesOwnFrame'
      BY <1>1, <1>2, <1>6, <2>1 DEF PictureInv, EncodesOwnFrame
    <2> QED BY <2>2, <2>4, <2>5 DEF IInv
  <1>7. CASE /\ \E p \in {0, n, obj[id["nv12"]].pic} :
                   obj' = [Without({"input"}) EXCEPT ![id["nv12"]].pic = p]
             /\ pc' = "idle" /\ answer' = -1 /\ failed' = failed + 1
    <2>1. /\ obj' \in [Ids -> Objects \cup {Free}]
          /\ \A s \in Filled \ {"input"} : Holds(s, want)'
      BY <1>4, <1>5, <1>7
    <2>2. answer' \in -1 .. MaxReqs /\ failed' \in Nat
      BY <1>1, <1>7, EncodeAssumption DEF TypeOK
    <2>3. TypeOK' BY <1>1, <1>2, <1>7, <2>1, <2>2 DEF TypeOK
    <2>4. Filled' = Kept /\ Kept \subseteq Filled \ {"input"}
      BY <1>1, <1>2, <1>3, <1>7 DEF Filled, Kept
    <2>5. NoStaleIds' BY <1>1, <1>2, <1>7, <2>1, <2>4 DEF NoStaleIds, Kept
    <2>6. PictureInv' /\ EncodesOwnFrame'
      BY <1>7 DEF PictureInv, EncodesOwnFrame
    <2> QED BY <2>3, <2>5, <2>6 DEF IInv
  <1> QED BY <1>6, <1>7 DEF Convert

\* The parameter buffers take ids that are free, so no slot loses its object.
LEMMA CreateParamsStep == ASSUME IInv, CreateParams PROVE IInv'
  <1>1. /\ TypeOK /\ PictureInv /\ have /\ dim = want /\ want \in Sizes /\ answer = -1
        /\ \A s \in Filled : Holds(s, want)
        /\ \A s, t \in Filled : s # t => id[s] # id[t]
        /\ pc = "params"
    BY Prepared DEF CreateParams
  <1>2. /\ pc' = "encode" /\ complete' \in BOOLEAN
        /\ UNCHANGED <<n, want, have, dim, id, answer, failed>>
    BY DEF CreateParams
  <1>3. PICK P \in SUBSET (Ids \ Live) :
           obj' = [i \in Ids |-> IF i \in P
                     THEN [kind |-> "buffer", dim |-> want, pic |-> 0] ELSE obj[i]]
    BY DEF CreateParams
  <1>4. [kind |-> "buffer", dim |-> want, pic |-> 0] \in Objects
    BY <1>1, EncodeAssumption DEF Objects
  <1>5. obj' \in [Ids -> Objects \cup {Free}] BY <1>1, <1>3, <1>4 DEF TypeOK
  <1>6. ASSUME NEW s \in Filled PROVE Holds(s, want)' /\ obj'[id[s]] = obj[id[s]]
    <2>1. Holds(s, want) BY <1>1
    <2>2. obj[id[s]] # Free
      <3>1. KindOf[s] # "none" BY SlotFacts
      <3> QED BY <2>1, <3>1 DEF Holds, Free
    <2>3. id[s] \notin P BY <2>2 DEF Live
    <2>4. obj'[id[s]] = obj[id[s]] BY <1>3, <2>1, <2>3 DEF Holds
    <2> QED BY <1>2, <2>1, <2>4 DEF Holds
  <1>7. TypeOK' BY <1>1, <1>2, <1>5 DEF TypeOK
  <1>8. Filled' = Filled /\ "nv12" \in Filled BY <1>1, <1>2 DEF Filled, Kept
  <1>9. NoStaleIds' BY <1>1, <1>2, <1>6, <1>8 DEF NoStaleIds, Kept
  <1>10. PictureInv' /\ EncodesOwnFrame'
    BY <1>1, <1>2, <1>6, <1>8 DEF PictureInv, EncodesOwnFrame
  <1> QED BY <1>7, <1>9, <1>10 DEF IInv

\* Encoding preserves IInv: the coded buffer gets the picture of the NV12
\* surface, unless a parameter buffer is missing.
LEMMA EncodeStep == ASSUME IInv, Encode PROVE IInv'
  <1>1. /\ TypeOK /\ PictureInv /\ have /\ dim = want /\ want \in Sizes /\ answer = -1
        /\ \A s \in Filled : Holds(s, want)
        /\ \A s, t \in Filled : s # t => id[s] # id[t]
        /\ pc = "encode" /\ UNCHANGED <<n, want, have, dim, complete>>
    BY Prepared DEF Encode
  <1>2. CASE Fail({}) BY <1>1, <1>2, FailStep
  <1>3. CASE /\ \E p \in {obj[id["nv12"]].pic} \cup (IF complete THEN {} ELSE {0}) :
                   obj' = [obj EXCEPT ![id["coded"]].pic = p]
             /\ pc' = "map" /\ UNCHANGED <<id, answer, failed>>
    <2>1. PICK p \in {n} \cup (IF complete THEN {} ELSE {0}) :
             obj' = [obj EXCEPT ![id["coded"]].pic = p]
      BY <1>1, <1>3 DEF PictureInv
    <2>2. p \in 0 .. MaxReqs BY <1>1, <2>1, EncodeAssumption DEF TypeOK
    <2>3. "coded" \in Filled /\ Holds("coded", want) BY <1>1 DEF Filled
    <2>4. obj[id["coded"]] \in Objects /\ id["coded"] \in Ids
      <3>1. obj[id["coded"]].kind # "none" BY <2>3, SlotFacts DEF Holds
      <3> QED BY <1>1, <2>3, <3>1 DEF TypeOK, Holds, Free
    <2>5. obj' = [obj EXCEPT ![id["coded"]] = [obj[id["coded"]] EXCEPT !.pic = p]]
      BY <2>1
    <2>6. [obj[id["coded"]] EXCEPT !.pic = p] \in Objects BY <2>2, <2>4 DEF Objects
    <2>7. obj' \in [Ids -> Objects \cup {Free}] BY <1>1, <2>5, <2>6 DEF TypeOK
    <2>8. obj'[id["coded"]] = [obj[id["coded"]] EXCEPT !.pic = p]
      BY <1>1, <2>4, <2>5 DEF TypeOK
    <2>9. ASSUME NEW s \in Filled PROVE Holds(s, want)'
      <3>1. Holds(s, want) BY <1>1
      <3>2. CASE id[s] = id["coded"] BY <1>3, <1>1, <2>4, <2>8, <3>1, <3>2 DEF Holds, Objects
      <3>3. CASE id[s] # id["coded"]
        <4>1. obj'[id[s]] = obj[id[s]] BY <1>1, <2>5, <3>1, <3>3 DEF Holds, TypeOK
        <4> QED BY <1>1, <1>3, <3>1, <4>1 DEF Holds
      <3> QED BY <3>2, <3>3
    <2>10. TypeOK' BY <1>1, <1>3, <2>7 DEF TypeOK
    <2>11. Filled' = Filled BY <1>1, <1>3 DEF Filled, Kept
    <2>12. NoStaleIds' BY <1>1, <1>3, <2>9, <2>11 DEF NoStaleIds, Kept
    <2>13. PictureInv' /\ EncodesOwnFrame'
      <3>1. obj'[id'["coded"]].pic = p BY <1>3, <2>4, <2>8 DEF Objects
      <3> QED BY <1>1, <1>3, <2>1, <3>1 DEF PictureInv, EncodesOwnFrame
    <2> QED BY <2>10, <2>12, <2>13 DEF IInv
  <1> QED BY <1>1, <1>2, <1>3 DEF Encode

\* Copying the picture out preserves IInv; only what is not kept is destroyed.
LEMMA MapStep == ASSUME IInv, Map PROVE IInv'
  <1>1. /\ TypeOK /\ PictureInv /\ have /\ dim = want /\ want \in Sizes /\ answer = -1
        /\ \A s \in Filled : Holds(s, want)
        /\ \A s, t \in Filled : s # t => id[s] # id[t]
        /\ pc = "map" /\ UNCHANGED <<n, want, have, dim, complete>>
    BY Prepared DEF Map
  <1>2. CASE Fail({}) BY <1>1, <1>2, FailStep
  <1>3. CASE /\ answer' = obj[id["coded"]].pic
             /\ obj' = Without({"coded", "input"})
             /\ pc' = "idle" /\ UNCHANGED <<id, failed>>
    <2>1. answer' = n \/ (answer' = 0 /\ ~complete) BY <1>1, <1>3 DEF PictureInv
    <2>2. answer' \in -1 .. MaxReqs BY <1>1, <2>1, EncodeAssumption DEF TypeOK
    <2>3. Filled = Kept \cup {"input", "coded"} /\ Filled' = Kept
      BY <1>1, <1>3 DEF Filled, Kept
    <2>4. ASSUME NEW s \in Kept PROVE Holds(s, want)'
      <3>1. Holds(s, want) /\ s \in Filled BY <1>1, <2>3
      <3>2. \A t \in {"coded", "input"} : id[t] # id[s]
        <4>1. s # "coded" /\ s # "input" BY DEF Kept
        <4> QED BY <1>1, <2>3, <3>1, <4>1
      <3>3. obj'[id[s]] = obj[id[s]] BY <1>1, <1>3, <3>1, <3>2, SlotFacts, Destroyed DEF Holds
      <3> QED BY <1>1, <1>3, <3>1, <3>3 DEF Holds
    <2>5. obj' \in [Ids -> Objects \cup {Free}] BY <1>1, <1>3, SlotFacts, Destroyed
    <2>6. TypeOK' BY <1>1, <1>3, <2>2, <2>5 DEF TypeOK
    <2>7. NoStaleIds' BY <1>1, <1>3, <2>3, <2>4 DEF NoStaleIds, Kept
    <2>8. PictureInv' /\ EncodesOwnFrame' BY <1>1, <1>3, <2>1 DEF PictureInv, EncodesOwnFrame
    <2> QED BY <2>6, <2>7, <2>8 DEF IInv
  <1> QED BY <1>1, <1>2, <1>3 DEF Map

------------------------------------------------------------------------------
(* The theorems.                                                           *)

\* The memset vaapi_state_t satisfies IInv.
LEMMA InitIInv == ASSUME Init PROVE IInv
  <1>1. TypeOK
    <2>1. 0 \in 0 .. MaxReqs /\ -1 \in -1 .. MaxReqs /\ 0 \in Nat BY EncodeAssumption
    <2>2. /\ id \in [Slots -> Ids \cup {NoId}] /\ obj \in [Ids -> Objects \cup {Free}]
      BY DEF Init
    <2> QED BY <2>1, <2>2 DEF Init, TypeOK
  <1>2. Filled = {} BY DEF Init, Filled
  <1>3. NoStaleIds BY <1>2 DEF Init, NoStaleIds, Kept
  <1> QED BY <1>1, <1>3 DEF Init, IInv, PictureInv, EncodesOwnFrame

\* Every step, whichever call it is and however it ends, preserves IInv.
LEMMA StepIInv == ASSUME IInv, [Next]_vars PROVE IInv'
  <1>1. ASSUME NEW s \in Sizes, Request(s) PROVE IInv' BY <1>1, RequestStep
  <1>2. CASE Destroy BY <1>2, DestroyStep
  <1>3. CASE CreateKept BY <1>3, CreateKeptStep
  <1>4. CASE CreateVppContext BY <1>4, CreateVppContextStep
  <1>5. CASE Import BY <1>5, ImportStep
  <1>6. CASE CreatePipe BY <1>6, CreatePipeStep
  <1>7. CASE Convert BY <1>7, ConvertStep
  <1>8. CASE CreateCoded BY <1>8, CreateCodedStep
  <1>9. CASE CreateParams BY <1>9, CreateParamsStep
  <1>10. CASE Encode BY <1>10, EncodeStep
  <1>11. CASE Map BY <1>11, MapStep
  <1>12. CASE UNCHANGED vars
    BY <1>12 DEF vars, IInv, TypeOK, NoStaleIds, PictureInv, EncodesOwnFrame, Filled, Holds
  <1> QED
    BY <1>1, <1>2, <1>3, <1>4, <1>5, <1>6, <1>7, <1>8, <1>9, <1>10, <1>11, <1>12 DEF Next

\* IInv holds in every state the encoder reaches.
THEOREM Invariance == Spec => []IInv
  <1>1. Init => IInv BY InitIInv
  <1>2. IInv /\ [Next]_vars => IInv' BY StepIInv
  <1> QED BY <1>1, <1>2, PTL DEF Spec

\* vaapi_state_t, the driver's objects and the answers keep their types.
THEOREM TypeCorrect == Spec => []TypeOK
  <1>1. IInv => TypeOK BY DEF IInv
  <1> QED BY <1>1, Invariance, PTL

\* vaapi_state_ensure_resolution and encode_one_frame pass no id on that does not
\* name a live object of their own, after any sequence of failures.
THEOREM NoIdIsStale == Spec => []NoStaleIds
  <1>1. IInv => NoStaleIds BY DEF IInv
  <1> QED BY <1>1, Invariance, PTL

\* An encode that succeeds answers with the picture of its own request.
THEOREM OwnFrameOnly == Spec => []EncodesOwnFrame
  <1>1. IInv => EncodesOwnFrame BY DEF IInv
  <1> QED BY <1>1, Invariance, PTL

\* The context and the surfaces are made again only for another resolution.
THEOREM ContextIsReused == Spec => RecreatedOnlyForNewSize
  <1>1. IInv /\ [Next]_vars =>
          [/\ have /\ ~have' => want # dim
           /\ have /\ have' => dim' = dim /\ \A s \in Kept : id'[s] = id[s]]_vars
    <2> DEFINE Reused == /\ have /\ ~have' => want # dim
                         /\ have /\ have' => dim' = dim /\ \A s \in Kept : id'[s] = id[s]
    <2> SUFFICES ASSUME IInv, Next PROVE Reused
      OBVIOUS
    <2>1. ASSUME NEW s \in Sizes, Request(s) PROVE Reused BY <2>1 DEF Request
    <2>2. CASE Destroy BY <2>2 DEF Destroy, IInv, PictureInv
    <2>3. CASE CreateKept
      <3>1. ~have BY <2>3 DEF CreateKept, IInv, NoStaleIds, Kept
      <3> QED BY <2>3, <3>1 DEF CreateKept
    <2>4. CASE CreateVppContext
      <3>1. ~have BY <2>4 DEF CreateVppContext, IInv, NoStaleIds, Kept
      <3> QED BY <2>4, <3>1 DEF CreateVppContext
    <2>5. ASSUME NEW s \in {"input", "pipe", "coded"}, NEW content, NEW next,
                 Create(s, content, next)
          PROVE  \A t \in Kept : id'[t] = id[t]
      <3>1. PICK i \in Ids : id' = [id EXCEPT ![s] = i] BY <2>5 DEF Create, Live
      <3>2. id \in [Slots -> Ids \cup {NoId}] BY DEF IInv, TypeOK
      <3> QED BY <3>1, <3>2, SlotFacts DEF Kept
    <2>6. CASE Import \/ CreatePipe \/ CreateCoded
      BY <2>5, <2>6 DEF Import, CreatePipe, CreateCoded, Fail
    <2>7. CASE Convert \/ CreateParams \/ Encode \/ Map
      BY <2>7 DEF Convert, CreateParams, Encode, Map, Fail
    <2> QED BY <2>1, <2>2, <2>3, <2>4, <2>6, <2>7 DEF Next
  <1> QED BY <1>1, Invariance, PTL DEF Spec, RecreatedOnlyForNewSize

------------------------------------------------------------------------------
(* Counting surfaces.                                                      *)

\* The counts are numbers.
LEMMA CountTypes ==
  ASSUME TypeOK, SurfaceInv
  PROVE  /\ Cardinality(Surfaces) \in Nat /\ failed \in Nat /\ InUse \in 0 .. 4
  BY FS_CardinalityType DEF SurfaceInv, TypeOK, InUse

\* vaCreateSurfaces adds one, and no other vaCreate call any.
LEMMA SurfaceCreated ==
  ASSUME TypeOK, SurfaceInv, NEW s \in Slots, NEW content, NEW next, Create(s, content, next)
  PROVE  /\ IsFiniteSet(Surfaces')
         /\ Cardinality(Surfaces')
              = Cardinality(Surfaces) + IF KindOf[s] = "surface" THEN 1 ELSE 0
  <1>1. PICK i \in Ids \ Live :
           obj' = [obj EXCEPT ![i] = [kind |-> KindOf[s], dim |-> want, pic |-> content]]
    BY DEF Create
  <1> DEFINE new == [kind |-> KindOf[s], dim |-> want, pic |-> content]
  <1>2. new # Free /\ new.kind = KindOf[s]
    <2>1. new.kind # Free.kind BY SlotFacts DEF Free
    <2> QED BY <2>1
  <1>3. \A j \in Ids : obj'[j] = IF j = i THEN new ELSE obj[j] BY <1>1 DEF TypeOK
  <1>4. i \notin Surfaces BY <1>1 DEF Surfaces
  <1> HIDE DEF new
  <1>5. Surfaces' = IF KindOf[s] = "surface" THEN Surfaces \cup {i} ELSE Surfaces
    BY <1>1, <1>2, <1>3 DEF Surfaces, Live
  <1>6. IsFiniteSet(Surfaces) /\ Cardinality(Surfaces) \in Nat BY CountTypes DEF SurfaceInv
  <1>7. CASE KindOf[s] = "surface"
    <2>1. /\ IsFiniteSet(Surfaces \cup {i})
          /\ Cardinality(Surfaces \cup {i}) = Cardinality(Surfaces) + 1
      BY <1>4, <1>6, FS_AddElement
    <2>2. Surfaces' = Surfaces \cup {i} BY <1>5, <1>7
    <2> QED BY <1>7, <2>1, <2>2
  <1>8. CASE KindOf[s] # "surface"
    <2>1. Surfaces' = Surfaces BY <1>5, <1>8
    <2> QED BY <1>6, <1>8, <2>1
  <1> QED BY <1>7, <1>8

\* Destroying objects, and writing into those that are left, makes no surface.
LEMMA NoSurfaceCreated ==
  ASSUME TypeOK, SurfaceInv,
         \A i \in Ids : obj'[i] # Free /\ obj'[i].kind = "surface" => i \in Surfaces
  PROVE  /\ IsFiniteSet(Surfaces') /\ Cardinality(Surfaces') <= Cardinality(Surfaces)
         /\ Cardinality(Surfaces') \in Nat
  <1>1. Surfaces' \in SUBSET Surfaces BY DEF Surfaces, Live
  <1> QED BY <1>1, FS_Subset, FS_CardinalityType DEF SurfaceInv

\* Destroying objects, a surface among them, takes that out of the count.
LEMMA SurfaceDestroyed ==
  ASSUME TypeOK, SurfaceInv, NEW a \in Surfaces,
         \A i \in Ids : obj'[i] # Free /\ obj'[i].kind = "surface"
                          => i \in Surfaces /\ i # a
  PROVE  /\ IsFiniteSet(Surfaces') /\ Cardinality(Surfaces') \in Nat
         /\ Cardinality(Surfaces') <= Cardinality(Surfaces) - 1
  <1>1. Surfaces' \in SUBSET (Surfaces \ {a}) BY DEF Surfaces, Live
  <1>2. /\ IsFiniteSet(Surfaces \ {a})
        /\ Cardinality(Surfaces \ {a}) = Cardinality(Surfaces) - 1
    BY FS_RemoveElement DEF SurfaceInv
  <1>3. /\ IsFiniteSet(Surfaces') /\ Cardinality(Surfaces') <= Cardinality(Surfaces \ {a})
    BY <1>1, <1>2, FS_Subset
  <1>4. Cardinality(Surfaces') \in Nat BY <1>3, FS_CardinalityType
  <1> QED BY <1>2, <1>3, <1>4

\* A filled slot for a surface names one.
LEMMA FilledSurface ==
  ASSUME IInv, NEW s \in Filled \cap {"recon", "nv12", "input"}
  PROVE  id[s] \in Surfaces
  <1>1. KindOf[s] = "surface" BY DEF KindOf, Slots, Kept
  <1>2. id[s] \in Ids /\ obj[id[s]].kind = "surface"
    BY <1>1 DEF IInv, NoStaleIds, Holds
  <1>3. obj[id[s]] # Free BY <1>2 DEF Free
  <1> QED BY <1>2, <1>3 DEF Surfaces, Live

\* Objects that are destroyed are gone, and the rest is as it was.
LEMMA WithoutFacts ==
  ASSUME TypeOK, NEW S, NEW i \in Ids
  PROVE  /\ Without(S)[i] \in {Free, obj[i]}
         /\ (\E s \in S : id[s] = i) => Without(S)[i] = Free
  BY DEF Without

\* A request that fails loses at most the two surfaces it can have made.
LEMMA FailLoses ==
  ASSUME IInv, SurfaceInv, pc' = "idle", failed' = failed + 1, have' = have,
         \A i \in Ids : obj'[i] # Free /\ obj'[i].kind = "surface" => i \in Surfaces
  PROVE  SurfaceInv'
  <1>1. TypeOK BY DEF IInv
  <1>2. /\ IsFiniteSet(Surfaces') /\ Cardinality(Surfaces') <= Cardinality(Surfaces)
        /\ Cardinality(Surfaces') \in Nat
    BY <1>1, NoSurfaceCreated
  <1>3. Cardinality(Surfaces) <= 2 * failed + InUse BY DEF SurfaceInv
  <1>4. InUse' = (IF have THEN 2 ELSE 0) BY DEF InUse
  <1>5. InUse <= 2 + IF have THEN 2 ELSE 0 BY DEF InUse
  <1>6. Cardinality(Surfaces') <= 2 * failed' + InUse'
    BY <1>1, <1>2, <1>3, <1>4, <1>5, CountTypes
  <1> QED BY <1>2, <1>6 DEF SurfaceInv

\* So does a return of -1.
LEMMA ReturnLoses ==
  ASSUME IInv, SurfaceInv, NEW S, Fail(S), have' = have
  PROVE  SurfaceInv'
  <1>1. \A i \in Ids : obj'[i] # Free /\ obj'[i].kind = "surface" => i \in Surfaces
    <2> TAKE i \in Ids
    <2>1. obj'[i] \in {Free, obj[i]} BY WithoutFacts DEF IInv, Fail
    <2> QED BY <2>1 DEF Surfaces, Live
  <1>2. pc' = "idle" /\ failed' = failed + 1 BY DEF Fail
  <1> QED BY <1>1, <1>2, FailLoses

\* A step that makes and destroys no surface and uses as many as before.
LEMMA SurfacesStay ==
  ASSUME IInv, SurfaceInv, failed' = failed, InUse' >= InUse, InUse' \in 0 .. 4,
         \A i \in Ids : obj'[i] # Free /\ obj'[i].kind = "surface" => i \in Surfaces
  PROVE  SurfaceInv'
  <1>1. TypeOK BY DEF IInv
  <1>2. /\ IsFiniteSet(Surfaces') /\ Cardinality(Surfaces') <= Cardinality(Surfaces)
        /\ Cardinality(Surfaces') \in Nat
    BY <1>1, NoSurfaceCreated
  <1>3. Cardinality(Surfaces) <= 2 * failed + InUse BY DEF SurfaceInv
  <1>4. Cardinality(Surfaces') <= 2 * failed' + InUse' BY <1>1, <1>2, <1>3, CountTypes
  <1> QED BY <1>2, <1>4 DEF SurfaceInv

\* A vaCreate call that succeeds counts where its step says so.
LEMMA CreateCounts ==
  ASSUME IInv, SurfaceInv, NEW s \in Slots, NEW content, NEW next, Create(s, content, next),
         InUse' = InUse + IF KindOf[s] = "surface" THEN 1 ELSE 0
  PROVE  SurfaceInv'
  <1>1. TypeOK BY DEF IInv
  <1>2. /\ IsFiniteSet(Surfaces')
        /\ Cardinality(Surfaces')
             = Cardinality(Surfaces) + IF KindOf[s] = "surface" THEN 1 ELSE 0
    BY <1>1, SurfaceCreated
  <1>3. Cardinality(Surfaces) <= 2 * failed + InUse /\ failed' = failed
    BY DEF SurfaceInv, Create
  <1>4. Cardinality(Surfaces') <= 2 * failed' + InUse'
    BY <1>1, <1>2, <1>3, CountTypes
  <1> QED BY <1>2, <1>4 DEF SurfaceInv

\* Every step keeps the count within what is in use and what failures lost.
LEMMA SurfaceStep ==
  ASSUME IInv, SurfaceInv, [Next]_vars
  PROVE  SurfaceInv'
  <1>1. TypeOK /\ NoStaleIds BY DEF IInv
  <1>2. InUse \in 0 .. 4 BY <1>1, CountTypes
  <1>3. \A i \in Ids : obj[i] # Free /\ obj[i].kind = "surface" => i \in Surfaces
    BY DEF Surfaces, Live
  <1>4. CASE UNCHANGED vars \/ \E s \in Sizes : Request(s)
    <2>1. obj' = obj /\ failed' = failed BY <1>4 DEF vars, Request
    <2>2. InUse' = InUse BY <1>4 DEF vars, Request, InUse
    <2> QED BY <1>2, <1>3, <2>1, <2>2, SurfacesStay
  <1>5. CASE Destroy
    <2>1. /\ pc = "destroy" /\ have /\ obj' = Without(Kept) /\ failed' = failed
          /\ pc' = "recon" /\ ~have'
      BY <1>1, <1>5 DEF Destroy, NoStaleIds
    <2>2. id["recon"] \in Surfaces /\ id["nv12"] \in Surfaces /\ id["recon"] # id["nv12"]
      <3>1. "recon" \in Filled /\ "nv12" \in Filled BY <2>1 DEF Filled, Kept
      <3> QED BY <1>1, <3>1, FilledSurface DEF NoStaleIds
    <2>3. \A i \in Ids : obj'[i] # Free /\ obj'[i].kind = "surface"
                           => i \in Surfaces /\ i # id["recon"] /\ i # id["nv12"]
      <3> TAKE i \in Ids
      <3>1. obj'[i] \in {Free, obj[i]} /\ ((\E s \in Kept : id[s] = i) => obj'[i] = Free)
        BY <1>1, <2>1, WithoutFacts
      <3> QED BY <3>1 DEF Surfaces, Live, Kept
    <2>4. Surfaces' \in SUBSET ((Surfaces \ {id["recon"]}) \ {id["nv12"]})
      BY <2>3 DEF Surfaces, Live
    <2>5. /\ IsFiniteSet(Surfaces \ {id["recon"]})
          /\ Cardinality(Surfaces \ {id["recon"]}) = Cardinality(Surfaces) - 1
      BY <2>2, FS_RemoveElement DEF SurfaceInv
    <2>6. id["nv12"] \in Surfaces \ {id["recon"]} BY <2>2
    <2>7. /\ IsFiniteSet((Surfaces \ {id["recon"]}) \ {id["nv12"]})
          /\ Cardinality((Surfaces \ {id["recon"]}) \ {id["nv12"]}) = Cardinality(Surfaces) - 1 - 1
      BY <2>5, <2>6, FS_RemoveElement
    <2>8. /\ IsFiniteSet(Surfaces') /\ Cardinality(Surfaces')
               <= Cardinality((Surfaces \ {id["recon"]}) \ {id["nv12"]})
      BY <2>4, <2>7, FS_Subset
    <2>9. Cardinality(Surfaces') \in Nat BY <2>8, FS_CardinalityType
    <2>10. InUse = 2 /\ InUse' = 0 BY <2>1 DEF InUse
    <2>11. Cardinality(Surfaces') <= 2 * failed' + InUse'
      BY <1>1, <2>1, <2>7, <2>8, <2>9, <2>10, CountTypes DEF SurfaceInv
    <2> QED BY <2>8, <2>11 DEF SurfaceInv
  <1>6. CASE CreateKept
    <2>1. ~have /\ have' = have BY <1>1, <1>6 DEF CreateKept, NoStaleIds, Kept
    <2>2. CASE pc = "recon" /\ Create("recon", 0, "context")
      <3>1. InUse' = InUse + 1 /\ KindOf["recon"] = "surface" /\ "recon" \in Slots
        BY <2>1, <2>2 DEF InUse, Create, KindOf, Slots, Kept
      <3> QED BY <2>2, <3>1, CreateCounts
    <2>3. CASE pc = "context" /\ Create("context", 0, "nv12")
      <3>1. InUse' = InUse + 0 /\ KindOf["context"] = "context" /\ "context" \in Slots
        BY <2>1, <2>3 DEF InUse, Create, KindOf, Slots, Kept
      <3> QED BY <2>3, <3>1, CreateCounts
    <2>4. CASE pc = "nv12" /\ Create("nv12", 0, "vppContext")
      <3>1. InUse' = InUse + 1 /\ KindOf["nv12"] = "surface" /\ "nv12" \in Slots
        BY <2>1, <2>4 DEF InUse, Create, KindOf, Slots, Kept
      <3> QED BY <2>4, <3>1, CreateCounts
    <2>5. CASE Fail({}) BY <2>1, <2>5, ReturnLoses
    <2> QED BY <1>6, <2>2, <2>3, <2>4, <2>5 DEF CreateKept
  <1>7. CASE CreateVppContext
    <2>1. ~have BY <1>1, <1>7 DEF CreateVppContext, NoStaleIds, Kept
    <2>2. Create("vppContext", 0, "import") BY <1>7 DEF CreateVppContext
    <2>3. InUse' = InUse + 0 /\ KindOf["vppContext"] = "context" /\ "vppContext" \in Slots
      BY <1>7, <2>1 DEF CreateVppContext, InUse, Create, KindOf, Slots, Kept
    <2> QED BY <2>2, <2>3, CreateCounts
  <1>8. CASE Import
    <2>1. CASE Create("input", n, "pipe")
      <3>1. InUse' = InUse + 1 /\ KindOf["input"] = "surface" /\ "input" \in Slots
        BY <1>8, <2>1 DEF Import, InUse, Create, KindOf, Slots, Kept
      <3> QED BY <2>1, <3>1, CreateCounts
    <2>2. CASE Fail({}) BY <1>8, <2>2, ReturnLoses DEF Import
    <2> QED BY <1>8, <2>1, <2>2 DEF Import
  <1>9. CASE CreatePipe
    <2>1. CASE Create("pipe", 0, "convert")
      <3>1. InUse' = InUse + 0 /\ KindOf["pipe"] = "buffer" /\ "pipe" \in Slots
        BY <1>9, <2>1 DEF CreatePipe, InUse, Create, KindOf, Slots, Kept
      <3> QED BY <2>1, <3>1, CreateCounts
    <2>2. CASE Fail({"input"}) BY <1>9, <2>2, ReturnLoses DEF CreatePipe
    <2> QED BY <1>9, <2>1, <2>2 DEF CreatePipe
  <1>10. CASE CreateCoded
    <2>1. CASE Create("coded", 0, "params")
      <3>1. InUse' = InUse + 0 /\ KindOf["coded"] = "buffer" /\ "coded" \in Slots
        BY <1>10, <2>1 DEF CreateCoded, InUse, Create, KindOf, Slots, Kept
      <3> QED BY <2>1, <3>1, CreateCounts
    <2>2. CASE Fail({}) BY <1>10, <2>2, ReturnLoses DEF CreateCoded
    <2> QED BY <1>10, <2>1, <2>2 DEF CreateCoded
  <1>11. CASE Convert
    <2>1. pc = "convert" /\ have' = have BY <1>11 DEF Convert
    <2>2. id["nv12"] \in Surfaces
      <3>1. "nv12" \in Filled BY <1>1, <2>1 DEF NoStaleIds, Filled, Kept
      <3> QED BY <3>1, FilledSurface
    <2>3. ASSUME NEW S, NEW p, obj' = [Without(S) EXCEPT ![id["nv12"]].pic = p]
          PROVE  \A i \in Ids : obj'[i] # Free /\ obj'[i].kind = "surface" => i \in Surfaces
      <3> TAKE i \in Ids
      <3>1. CASE i # id["nv12"]
        <4>1. obj'[i] = Without(S)[i] BY <2>3, <3>1 DEF Without
        <4> QED BY <1>1, <4>1, WithoutFacts DEF Surfaces, Live
      <3>2. CASE i = id["nv12"] BY <2>2, <3>2
      <3> QED BY <3>1, <3>2
    <2>4. CASE /\ obj' = [Without({"pipe"}) EXCEPT ![id["nv12"]].pic = obj[id["input"]].pic]
               /\ pc' = "coded" /\ failed' = failed
      <3>1. InUse' = InUse BY <2>1, <2>4 DEF InUse
      <3>2. \A i \in Ids : obj'[i] # Free /\ obj'[i].kind = "surface" => i \in Surfaces
        BY <2>3, <2>4
      <3> QED BY <1>2, <2>4, <3>1, <3>2, SurfacesStay
    <2>5. CASE /\ \E p : obj' = [Without({"input"}) EXCEPT ![id["nv12"]].pic = p]
               /\ pc' = "idle" /\ failed' = failed + 1
      <3>1. \A i \in Ids : obj'[i] # Free /\ obj'[i].kind = "surface" => i \in Surfaces
        BY <2>3, <2>5
      <3> QED BY <2>1, <2>5, <3>1, FailLoses
    <2> QED BY <1>11, <2>4, <2>5 DEF Convert
  <1>12. CASE CreateParams
    <2>1. /\ pc = "params" /\ pc' = "encode" /\ have' = have /\ failed' = failed
          /\ \A i \in Ids : obj'[i].kind = "buffer" \/ obj'[i] = obj[i]
      BY <1>12 DEF CreateParams
    <2>2. InUse' = InUse BY <2>1 DEF InUse
    <2>3. \A i \in Ids : obj'[i] # Free /\ obj'[i].kind = "surface" => i \in Surfaces
      BY <1>3, <2>1
    <2> QED BY <1>2, <2>1, <2>2, <2>3, SurfacesStay
  <1>13. CASE Encode
    <2>1. pc = "encode" /\ have' = have BY <1>13 DEF Encode
    <2>2. CASE (\E p : obj' = [obj EXCEPT ![id["coded"]].pic = p]) /\ pc' = "map"
                 /\ failed' = failed
      <3>1. obj[id["coded"]].kind = "buffer"
        <4>1. "coded" \in Filled /\ KindOf["coded"] = "buffer"
          BY <2>1 DEF Filled, KindOf, Slots, Kept
        <4> QED BY <1>1, <4>1 DEF NoStaleIds, Holds
      <3>2. \A i \in Ids : obj'[i] # Free /\ obj'[i].kind = "surface" => i \in Surfaces
        <4> TAKE i \in Ids
        <4>1. CASE i # id["coded"] BY <1>1, <1>3, <2>2, <4>1 DEF TypeOK
        <4>2. CASE i = id["coded"]
          <5>1. obj[i].kind = "buffer" /\ obj[i] \in Objects
            BY <1>1, <3>1, <4>2 DEF TypeOK, Free
          <5>2. obj'[i].kind = "buffer" BY <1>1, <2>2, <4>2, <5>1 DEF TypeOK, Objects
          <5> QED BY <5>2
        <4> QED BY <4>1, <4>2
      <3>3. InUse' = InUse BY <2>1, <2>2 DEF InUse
      <3> QED BY <1>2, <2>2, <3>2, <3>3, SurfacesStay
    <2>3. CASE Fail({}) BY <2>1, <2>3, ReturnLoses
    <2> QED BY <1>13, <2>2, <2>3 DEF Encode
  <1>14. CASE Map
    <2>1. pc = "map" /\ have' = have BY <1>14 DEF Map
    <2>2. CASE obj' = Without({"coded", "input"}) /\ pc' = "idle" /\ failed' = failed
      <3>1. id["input"] \in Surfaces
        <4>1. "input" \in Filled BY <2>1 DEF Filled
        <4> QED BY <4>1, FilledSurface
      <3>2. \A i \in Ids : obj'[i] # Free /\ obj'[i].kind = "surface"
                             => i \in Surfaces /\ i # id["input"]
        <4> TAKE i \in Ids
        <4>1. obj'[i] \in {Free, obj[i]} /\ (id["input"] = i => obj'[i] = Free)
          BY <1>1, <2>2, WithoutFacts
        <4> QED BY <4>1 DEF Surfaces, Live
      <3>3. /\ IsFiniteSet(Surfaces') /\ Cardinality(Surfaces') \in Nat
            /\ Cardinality(Surfaces') <= Cardinality(Surfaces) - 1
        BY <1>1, <3>1, <3>2, SurfaceDestroyed
      <3>4. InUse' = InUse - 1 BY <2>1, <2>2 DEF InUse
      <3>5. Cardinality(Surfaces') <= 2 * failed' + InUse'
        BY <1>1, <1>2, <2>2, <3>3, <3>4, CountTypes DEF SurfaceInv
      <3> QED BY <3>3, <3>5 DEF SurfaceInv
    <2>3. CASE Fail({}) BY <2>1, <2>3, ReturnLoses
    <2> QED BY <1>14, <2>2, <2>3 DEF Map
  <1> QED
    BY <1>4, <1>5, <1>6, <1>7, <1>8, <1>9, <1>10, <1>11, <1>12, <1>13, <1>14 DEF Next

\* Between requests a daemon holds the two kept surfaces and at most two more for each
\* request that failed: encodes that succeed, however many, lose none.
THEOREM LossesAreBounded == Spec => []SurfacesLostByFailures
  <1>1. Init => SurfaceInv
    <2> SUFFICES ASSUME Init PROVE SurfaceInv OBVIOUS
    <2>1. Surfaces = {} BY DEF Init, Surfaces, Live
    <2>2. InUse = 0 /\ failed = 0 BY DEF Init, InUse
    <2> QED BY <2>1, <2>2, FS_EmptySet DEF SurfaceInv
  <1>2. IInv /\ SurfaceInv /\ [Next]_vars => SurfaceInv' BY SurfaceStep
  <1>3. IInv /\ SurfaceInv => SurfacesLostByFailures
    <2> SUFFICES ASSUME IInv, SurfaceInv, pc = "idle"
                 PROVE  Cardinality(Surfaces) <= 2 * failed + IF have THEN 2 ELSE 0
      BY DEF SurfacesLostByFailures
    <2>1. InUse = IF have THEN 2 ELSE 0 BY DEF InUse
    <2> QED BY <2>1 DEF SurfaceInv
  <1> QED BY <1>1, <1>2, <1>3, Invariance, PTL DEF Spec
==============================================================================
