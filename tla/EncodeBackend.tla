---------------------------- MODULE EncodeBackend ----------------------------
(***************************************************************************)
(* The VA-API encoder of tier5-vaapi-daemon/daemon.c: the part of          *)
(* vaapi_state_t that lives from one request to the next, and              *)
(* encode_one_frame with the functions it calls, one VA call (or one run   *)
(* of calls that fail alike) per action.                                   *)
(*                                                                         *)
(* The driver hands out ids and may hand out an id again once the object   *)
(* it named is destroyed; any call that can fail may fail.  A picture is   *)
(* named by the request it came with, so the content of a surface or of a  *)
(* coded buffer is a request number (0: undefined).                        *)
(***************************************************************************)
EXTENDS Integers, FiniteSets

CONSTANTS
    Ids,        \* the ids the driver has
    NoId,       \* what vaapi_state_t holds before the first vaCreate call
    Sizes,      \* resolutions (width and height together)
    NoSize,     \* st->width and st->height after memset
    ParamBufs,  \* parameter and packed-header buffers per picture (nine)
    MaxReqs     \* bound: requests that reach encode_one_frame

ASSUME EncodeAssumption ==
    /\ NoId \notin Ids /\ NoSize \notin Sizes
    /\ ParamBufs \in Nat /\ MaxReqs \in Nat

VARIABLES
    pc,         \* the next step of encode_one_frame, "idle" between requests
    n,          \* the number of the current (or last) request
    want,       \* its req->width, req->height
    have, dim,  \* st->have_context; st->width, st->height
    id,         \* the ids in vaapi_state_t, coded_buf and pipeline_buf
    obj,        \* the driver's objects, by id
    complete,   \* whether the picture has all its parameter buffers
    answer,     \* what encode_one_frame returned last: the picture, or -1
    failed      \* history: how many requests failed

vars == <<pc, n, want, have, dim, id, obj, complete, answer, failed>>

\* surfaces[1], context_id, surfaces[2] and vpp_context_id are kept; the
\* others last for one request.  surfaces[0] wraps the client's dma-buf.
Kept  == {"recon", "context", "nv12", "vppContext"}
Slots == Kept \cup {"input", "pipe", "coded"}
KindOf == [s \in Slots |-> CASE s \in {"recon", "nv12", "input"} -> "surface"
                             [] s \in {"context", "vppContext"} -> "context"
                             [] OTHER -> "buffer"]

Free == [kind |-> "none", dim |-> NoSize, pic |-> 0]
Objects == [kind : {"surface", "context", "buffer"}, dim : Sizes, pic : 0 .. MaxReqs]
Live == {i \in Ids : obj[i] # Free}

Init ==
    /\ pc = "idle" /\ n = 0 /\ want = NoSize
    /\ have = FALSE /\ dim = NoSize
    /\ id = [s \in Slots |-> NoId]
    /\ obj = [i \in Ids |-> Free]
    /\ complete = TRUE /\ answer = -1 /\ failed = 0

------------------------------------------------------------------------------
(* The steps of one request.                                               *)

\* A vaCreate call that fills slot s and is followed by step next.
Create(s, content, next) ==
    /\ \E i \in Ids \ Live :
         /\ id' = [id EXCEPT ![s] = i]
         /\ obj' = [obj EXCEPT ![i] = [kind |-> KindOf[s], dim |-> want, pic |-> content]]
    /\ pc' = next
    /\ UNCHANGED <<answer, failed>>

\* The objects as they are once those in the slots S are destroyed.
Without(S) == [i \in Ids |-> IF \E s \in S : id[s] = i THEN Free ELSE obj[i]]

\* return -1, after destroying what is in the slots S.
Fail(S) ==
    /\ pc' = "idle"
    /\ answer' = -1 /\ failed' = failed + 1
    /\ obj' = Without(S)
    /\ UNCHANGED id

\* Fault: the old resolution is dropped on every request.
RequestAlwaysRecreates(s) ==
    /\ pc = "idle" /\ n < MaxReqs
    /\ n' = n + 1 /\ want' = s /\ answer' = -1
    /\ pc' = IF have THEN "destroy" ELSE "recon"
    /\ UNCHANGED <<have, dim, id, obj, complete, failed>>

\* encode_one_frame is called; vaapi_state_ensure_resolution compares sizes.
Request(s) ==
    /\ pc = "idle" /\ n < MaxReqs
    /\ n' = n + 1 /\ want' = s /\ answer' = -1
    /\ pc' = IF have /\ dim = s THEN "import" ELSE IF have THEN "destroy" ELSE "recon"
    /\ UNCHANGED <<have, dim, id, obj, complete, failed>>

\* Fault: have_context is not reset before the objects are made again.
DestroyKeepsFlag ==
    /\ pc = "destroy"
    /\ obj' = Without(Kept)
    /\ pc' = "recon"
    /\ UNCHANGED <<n, want, have, dim, id, complete, answer, failed>>

\* The kept objects of the old size go; the struct keeps their ids.
Destroy ==
    /\ pc = "destroy"
    /\ obj' = Without(Kept)
    /\ have' = FALSE
    /\ pc' = "recon"
    /\ UNCHANGED <<n, want, dim, id, complete, answer, failed>>

\* Two surfaces and two contexts.  A failure leaves those made before it, and
\* have_context at 0.
CreateKept ==
    /\ \/ pc = "recon" /\ Create("recon", 0, "context")
       \/ pc = "context" /\ Create("context", 0, "nv12")
       \/ pc = "nv12" /\ Create("nv12", 0, "vppContext")
       \/ pc \in Kept /\ Fail({})
    /\ UNCHANGED <<n, want, have, dim, complete>>

\* The last of the four, and the end of vaapi_state_ensure_resolution.
CreateVppContext ==
    /\ pc = "vppContext" /\ Create("vppContext", 0, "import")
    /\ have' = TRUE /\ dim' = want
    /\ UNCHANGED <<n, want, complete>>

\* surfaces[0] from the dma-buf, by the legacy or the PRIME_2 import.
Import ==
    /\ pc = "import"
    /\ Create("input", n, "pipe") \/ Fail({})
    /\ UNCHANGED <<n, want, have, dim, complete>>

\* convert_rgba_to_nv12: the pipeline buffer ...
CreatePipe ==
    /\ pc = "pipe"
    /\ Create("pipe", 0, "convert") \/ Fail({"input"})
    /\ UNCHANGED <<n, want, have, dim, complete>>

\* Fault: encode_one_frame does not look at what convert_rgba_to_nv12 returned.
ConvertUnchecked ==
    /\ pc = "convert"
    /\ \E p \in {0, n, obj[id["nv12"]].pic} :
         obj' = [Without({"pipe"}) EXCEPT ![id["nv12"]].pic = p]
    /\ pc' = "coded"
    /\ UNCHANGED <<n, want, have, dim, id, complete, answer, failed>>

\* ... and the picture on the VPP context.  A failure loses the buffer, and
\* may leave anything in the NV12 surface.
Convert ==
    /\ pc = "convert"
    /\ \/ /\ obj' = [Without({"pipe"}) EXCEPT ![id["nv12"]].pic = obj[id["input"]].pic]
          /\ pc' = "coded"
          /\ UNCHANGED <<answer, failed>>
       \/ /\ \E p \in {0, n, obj[id["nv12"]].pic} :
               obj' = [Without({"input"}) EXCEPT ![id["nv12"]].pic = p]
          /\ pc' = "idle" /\ answer' = -1 /\ failed' = failed + 1
    /\ UNCHANGED <<n, want, have, dim, id, complete>>

\* From here on a failure returns without destroying surfaces[0].
CreateCoded ==
    /\ pc = "coded"
    /\ Create("coded", 0, "params") \/ Fail({})
    /\ UNCHANGED <<n, want, have, dim, complete>>

\* The sequence, picture, slice and packed-header buffers are created without a
\* look at the status (the id of one that failed is not initialised) and never
\* destroyed.
CreateParams ==
    /\ pc = "params"
    /\ \E P \in SUBSET (Ids \ Live) :
         /\ Cardinality(P) <= ParamBufs
         /\ complete' = (Cardinality(P) = ParamBufs)
         /\ obj' = [i \in Ids |-> IF i \in P
                      THEN [kind |-> "buffer", dim |-> want, pic |-> 0] ELSE obj[i]]
    /\ pc' = "encode"
    /\ UNCHANGED <<n, want, have, dim, id, answer, failed>>

\* vaBeginPicture ... vaSyncSurface on the encode context; the status of
\* vaRenderPicture is not looked at, so a picture that lacks a parameter buffer
\* may come out as anything.
Encode ==
    /\ pc = "encode"
    /\ \/ /\ \E p \in {obj[id["nv12"]].pic} \cup (IF complete THEN {} ELSE {0}) :
               obj' = [obj EXCEPT ![id["coded"]].pic = p]
          /\ pc' = "map"
          /\ UNCHANGED <<id, answer, failed>>
       \/ Fail({})
    /\ UNCHANGED <<n, want, have, dim, complete>>

\* Fault: the success path does not destroy surfaces[0].
MapKeepsInput ==
    /\ pc = "map"
    /\ answer' = obj[id["coded"]].pic
    /\ obj' = Without({"coded"})
    /\ pc' = "idle"
    /\ UNCHANGED <<n, want, have, dim, id, complete, failed>>

\* Copy the coded segments out and destroy what the request alone used.
Map ==
    /\ pc = "map"
    /\ \/ /\ answer' = obj[id["coded"]].pic
          /\ obj' = Without({"coded", "input"})
          /\ pc' = "idle"
          /\ UNCHANGED <<id, failed>>
       \/ Fail({})
    /\ UNCHANGED <<n, want, have, dim, complete>>

Next ==
    \/ \E s \in Sizes : Request(s)
    \/ Destroy \/ CreateKept \/ CreateVppContext
    \/ Import \/ CreatePipe \/ Convert
    \/ CreateCoded \/ CreateParams \/ Encode \/ Map

Spec == Init /\ [][Next]_vars

------------------------------------------------------------------------------
(* Properties                                                              *)

\* Every variable keeps its type.
TypeOK ==
    /\ pc \in Kept \cup {"idle", "destroy", "import", "pipe", "convert", "coded",
                         "params", "encode", "map"}
    /\ n \in 0 .. MaxReqs /\ want \in Sizes \cup {NoSize}
    /\ have \in BOOLEAN /\ dim \in Sizes \cup {NoSize}
    /\ id \in [Slots -> Ids \cup {NoId}]
    /\ obj \in [Ids -> Objects \cup {Free}] /\ complete \in BOOLEAN
    /\ answer \in -1 .. MaxReqs /\ failed \in Nat

\* Slot s names a live object of the right kind and size.
Holds(s, size) ==
    /\ id[s] \in Ids
    /\ obj[id[s]].kind = KindOf[s] /\ obj[id[s]].dim = size

\* The slots that are filled at each step of a request.
Filled ==
    (IF have THEN Kept ELSE {}) \cup
    (CASE pc = "context" -> {"recon"}
       [] pc = "nv12" -> {"recon", "context"}
       [] pc = "vppContext" -> {"recon", "context", "nv12"}
       [] pc \in {"pipe", "coded"} -> {"input"}
       [] pc = "convert" -> {"input", "pipe"}
       [] pc \in {"params", "encode", "map"} -> {"input", "coded"}
       [] OTHER -> {})

\* What a request reads from vaapi_state_t and what it destroys is there: each
\* slot it uses holds an object of its own, live and of the size of this request.
\* An id that the driver has taken back, or given to something else, is never
\* passed on, whatever failed in the requests before.
NoStaleIds ==
    /\ \A s \in Filled : Holds(s, IF s \in Kept /\ have THEN dim ELSE want)
    /\ \A s, t \in Filled : s # t => id[s] # id[t]
    /\ pc \in Kept => ~have
    /\ pc \notin Kept \cup {"idle", "destroy"} => have /\ dim = want
    /\ pc = "destroy" => have

\* encode_one_frame succeeds only with the picture of this very request, although
\* the NV12 surface it encodes from keeps the pictures of earlier ones.  Only a
\* picture with a parameter buffer missing may be something else, and never the
\* picture of another request.
EncodesOwnFrame == answer # -1 => answer = n \/ (answer = 0 /\ ~complete)

Surfaces == {i \in Live : obj[i].kind = "surface"}

\* Between requests the surfaces beyond the two kept ones are those lost by
\* requests that failed, at most two each: a success releases the dma-buf.
SurfacesLostByFailures ==
    pc = "idle" =>
        Cardinality(Surfaces) <= 2 * failed + IF have THEN 2 ELSE 0

\* README: the context is "reused per request, only recreated if the resolution
\* changes", and it is reused as it is.
RecreatedOnlyForNewSize ==
    [][/\ have /\ ~have' => want # dim
       /\ have /\ have' => dim' = dim /\ \A s \in Kept : id'[s] = id[s]]_vars

------------------------------------------------------------------------------
(* The inductive invariant behind TypeOK, NoStaleIds and EncodesOwnFrame.  *)

\* What is known of the current request at each step, and where its picture is.
PictureInv ==
    /\ pc # "idle" => want \in Sizes /\ answer = -1
    /\ pc = "destroy" => want # dim
    /\ pc \in {"pipe", "convert"} => obj[id["input"]].pic = n
    /\ pc \in {"coded", "params", "encode"} => obj[id["nv12"]].pic = n
    /\ pc = "map" => \/ obj[id["coded"]].pic = n
                     \/ obj[id["coded"]].pic = 0 /\ ~complete

IInv == TypeOK /\ NoStaleIds /\ PictureInv /\ EncodesOwnFrame

\* The surfaces there are in the middle of a request: the two kept ones, or those of
\* them that are made again, the client's, and what failures have lost.
InUse == (IF have THEN 2 ELSE 0) +
         (CASE pc \in {"context", "nv12"} -> 1
            [] pc = "vppContext" -> 2
            [] pc \in {"pipe", "convert", "coded", "params", "encode", "map"} -> 1
            [] OTHER -> 0)
SurfaceInv == IsFiniteSet(Surfaces) /\ Cardinality(Surfaces) <= 2 * failed + InUse
==============================================================================
