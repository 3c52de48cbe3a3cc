---------------------------- MODULE DecodeBackend ----------------------------
(***************************************************************************)
(* The decoder of tier5-vaapi-daemon/decode_h264.c: the part of g_dec that *)
(* lives from one request to the next, g_out_buf, and decode_h264_frame    *)
(* with decode_ensure_resolution and vk_detile, one action per stage.      *)
(*                                                                         *)
(* VA objects are named by ids, which the driver may hand out again after  *)
(* the object is destroyed.  Buffers and Vulkan objects are named by local *)
(* variables only: they are counted.  A picture is named by its request.   *)
(***************************************************************************)
EXTENDS Integers, FiniteSets

CONSTANTS
    Ids,        \* the ids the driver has for surfaces and contexts
    NoId,       \* what g_dec holds before the first vaCreate call
    Sizes,      \* the bytes of the chroma plane, one number per resolution
    OutMax,     \* sizeof(g_out_buf)
    MaxReqs     \* bound: calls of decode_h264_frame

ASSUME DecodeAssumption ==
    /\ NoId \notin Ids
    /\ Sizes \subseteq Nat \ {0}
    /\ OutMax \in Nat /\ MaxReqs \in Nat

VARIABLES
    pc,         \* the next stage of decode_h264_frame, "idle" between calls
    n,          \* the number of the current (or last) request
    want,       \* its width, height (0 before the stream is parsed)
    have, dim,  \* g_dec.have_context; g_dec.width, g_dec.height
    id,         \* the ids in g_dec
    obj,        \* the driver's surfaces and contexts, by id
    out,        \* g_out_buf: the picture each of the two planes is from
    total,      \* bytes copied to g_out_buf for this request
    sure,       \* history: the planes whose copy was recorded and waited for
    pending,    \* g_vk.cmd may still be on the GPU
    fds,        \* descriptors from vaExportSurfaceHandle that are open
    lost,       \* what was allocated and can no longer be freed
    answer,     \* what decode_h264_frame returned last: the picture, or -1
    failed      \* history: how many requests failed

gdec == <<have, dim, id, obj>>
copy == <<out, total, sure, pending, fds>>
vars == <<pc, n, want, gdec, copy, lost, answer, failed>>

Slots  == {"surfaces", "context", "vppOut", "vppContext"}
KindOf == [s \in Slots |-> IF s \in {"surfaces", "vppOut"} THEN "surface" ELSE "context"]

Free == [kind |-> "none", dim |-> 0, pic |-> 0]
Objects == [kind : {"surface", "context"}, dim : Sizes, pic : 0 .. MaxReqs]
Live == {i \in Ids : obj[i] # Free}

\* Layer 0 of the exported surface is luma, layer 1 chroma (NV12).
Planes == {"luma", "chroma"}
PlaneSize(p) == IF p = "luma" THEN 2 * want ELSE want

Nothing == [buffers |-> 0, images |-> 0, memory |-> 0, fds |-> 0]

Init ==
    /\ pc = "idle" /\ n = 0 /\ want = 0
    /\ have = FALSE /\ dim = 0
    /\ id = [s \in Slots |-> NoId] /\ obj = [i \in Ids |-> Free]
    /\ out = [p \in Planes |-> 0] /\ total = 0 /\ fds = 0
    /\ sure = {} /\ pending = FALSE
    /\ lost = Nothing /\ answer = -1 /\ failed = 0

------------------------------------------------------------------------------
(* The stages of one request.                                              *)

\* return -1
Fail ==
    /\ pc' = "idle"
    /\ answer' = -1 /\ failed' = failed + 1

GoOn(next) ==
    /\ pc' = next
    /\ UNCHANGED <<answer, failed>>

\* b more buffers are left behind; none is ever destroyed.
LoseBuffers(b) == lost' = [lost EXCEPT !.buffers = @ + b]

\* No SPS, PPS or IDR slice that this decoder takes in the buffer.
Reject ==
    /\ pc = "idle" /\ n < MaxReqs
    /\ n' = n + 1 /\ want' = 0
    /\ Fail
    /\ UNCHANGED <<gdec, copy, lost>>

\* Fault: the comparison of sizes looks at one of the two dimensions only.
AcceptAnySize(s) ==
    /\ pc = "idle" /\ n < MaxReqs
    /\ n' = n + 1 /\ want' = s
    /\ total' = 0 /\ sure' = {} /\ answer' = -1
    /\ pc' = IF have THEN "decode" ELSE "surfaces"
    /\ UNCHANGED <<gdec, out, pending, fds, lost, failed>>

\* Fault: the context is made anew for every frame.
AcceptAlwaysRecreates(s) ==
    /\ pc = "idle" /\ n < MaxReqs
    /\ n' = n + 1 /\ want' = s
    /\ total' = 0 /\ sure' = {} /\ answer' = -1
    /\ pc' = IF have THEN "destroy" ELSE "surfaces"
    /\ UNCHANGED <<gdec, out, pending, fds, lost, failed>>

\* The headers are parsed and decode_ensure_resolution compares the sizes.
Accept(s) ==
    /\ pc = "idle" /\ n < MaxReqs
    /\ n' = n + 1 /\ want' = s
    /\ total' = 0 /\ sure' = {} /\ answer' = -1
    /\ pc' = IF have /\ dim = s THEN "decode" ELSE IF have THEN "destroy" ELSE "surfaces"
    /\ UNCHANGED <<gdec, out, pending, fds, lost, failed>>

\* The objects of the old size go; g_dec keeps their ids.
Destroy ==
    /\ pc = "destroy" /\ GoOn("surfaces")
    /\ obj' = [i \in Ids |-> IF \E s \in Slots : id[s] = i THEN Free ELSE obj[i]]
    /\ have' = FALSE
    /\ UNCHANGED <<n, want, dim, id, copy, lost>>

\* A vaCreate call that fills the slot the stage is named after.
Create(next) ==
    /\ GoOn(next)
    /\ \E i \in Ids \ Live :
         /\ id' = [id EXCEPT ![pc] = i]
         /\ obj' = [obj EXCEPT ![i] = [kind |-> KindOf[pc], dim |-> want, pic |-> 0]]

\* A failure leaves the objects made before it, and have_context at 0.
CreateKept ==
    /\ \/ pc = "surfaces" /\ Create("context")
       \/ pc = "context" /\ Create("vppOut")
       \/ pc = "vppOut" /\ Create("vppContext")
       \/ pc \in Slots /\ Fail /\ UNCHANGED <<id, obj>>
    /\ UNCHANGED <<n, want, have, dim, copy, lost>>

\* The last of the four, and the end of decode_ensure_resolution.
CreateVppContext ==
    /\ pc = "vppContext" /\ Create("decode")
    /\ have' = TRUE /\ dim' = want
    /\ UNCHANGED <<n, want, copy, lost>>

\* vaBeginPicture ... vaSyncSurface on the decode context.  Each of the four
\* buffers is there once its call succeeds; surfaces[0] may hold anything after
\* a failure.
Decode ==
    /\ pc = "decode"
    /\ \/ /\ GoOn("vpp") /\ LoseBuffers(4)
          /\ obj' = [obj EXCEPT ![id["surfaces"]].pic = n]
       \/ /\ Fail
          /\ \E b \in 0 .. 4 : LoseBuffers(b)
          /\ \E p \in {0, n, obj[id["surfaces"]].pic} :
               obj' = [obj EXCEPT ![id["surfaces"]].pic = p]
    /\ UNCHANGED <<n, want, have, dim, id, copy>>

\* Fault: the status of the blit and of its vaSyncSurface is not looked at.
VppUnchecked ==
    /\ pc = "vpp" /\ GoOn("export") /\ LoseBuffers(1)
    /\ \E p \in {0, n, obj[id["vppOut"]].pic} :
         obj' = [obj EXCEPT ![id["vppOut"]].pic = p]
    /\ UNCHANGED <<n, want, have, dim, id, copy>>

\* The blit from surfaces[0] to vpp_out.
Vpp ==
    /\ pc = "vpp"
    /\ \/ /\ GoOn("export") /\ LoseBuffers(1)
          /\ obj' = [obj EXCEPT ![id["vppOut"]].pic = obj[id["surfaces"]].pic]
       \/ /\ Fail
          /\ \E b \in 0 .. 1 : LoseBuffers(b)
          /\ \E p \in {0, n, obj[id["vppOut"]].pic} :
               obj' = [obj EXCEPT ![id["vppOut"]].pic = p]
    /\ UNCHANGED <<n, want, have, dim, id, copy>>

\* vaExportSurfaceHandle: both layers in one object, or one object each.
Export ==
    /\ pc = "export"
    /\ \/ GoOn("luma") /\ fds' \in {1, 2}
       \/ Fail /\ UNCHANGED fds
    /\ UNCHANGED <<n, want, gdec, out, total, sure, pending, lost>>

\* What vk_detile leaves behind when it fails: nothing before the import; the
\* image and the dup of the descriptor (unless dup failed), which only a successful
\* import takes over; the image and its memory; then the linear image, its memory.
DetileLoses ==
    { Nothing,
      [Nothing EXCEPT !.images = 1], [Nothing EXCEPT !.images = 1, !.fds = 1],
      [Nothing EXCEPT !.images = 1, !.memory = 1],
      [Nothing EXCEPT !.images = 2, !.memory = 1],
      [Nothing EXCEPT !.images = 2, !.memory = 2] }

\* Fault: the copy to g_out_buf is not checked against its size.
DetileUnbounded ==
    /\ pc \in Planes
    /\ out' = [out EXCEPT ![pc] = obj[id["vppOut"]].pic]
    /\ total' = total + PlaneSize(pc)
    /\ GoOn(IF pc = "luma" THEN "chroma" ELSE "close")
    /\ sure' = sure \cup {pc}
    /\ UNCHANGED <<n, want, gdec, pending, fds, lost>>

\* A copy of vk_detile that is read out of the linear image.  The results of
\* vkBeginCommandBuffer, vkEndCommandBuffer and vkQueueWaitIdle are not looked at:
\* if one of them failed, or the last copy was not waited for and g_vk.cmd is
\* recorded again under the GPU's hands, what is read may be anything.
Copied ==
    \E recorded, waited \in BOOLEAN :
      LET done == recorded /\ waited /\ ~pending
      IN  /\ \/ out' = [out EXCEPT ![pc] = obj[id["vppOut"]].pic]
             \/ ~done /\ out' = [out EXCEPT ![pc] = 0]
          /\ sure' = IF done THEN sure \cup {pc} ELSE sure
          /\ pending' = ~waited

\* vk_detile of one layer and the copy to g_out_buf.  A failure that is seen ends
\* the loop over the layers, not the request: the descriptors are closed first.
\* Only the failures after vkQueueSubmit, and a frame that is too large, come when
\* a copy was submitted, and those can leave it pending or have waited for it.
Detile ==
    /\ pc \in Planes
    /\ \/ /\ total + PlaneSize(pc) <= OutMax
          /\ Copied
          /\ total' = total + PlaneSize(pc)
          /\ GoOn(IF pc = "luma" THEN "chroma" ELSE "close")
          /\ UNCHANGED lost
       \/ /\ total + PlaneSize(pc) > OutMax
          /\ GoOn("closeFailed")
          /\ pending' \in BOOLEAN
          /\ UNCHANGED <<out, total, sure, lost>>
       \/ /\ GoOn("closeFailed")
          /\ \E l \in DetileLoses :
               /\ lost' = [k \in DOMAIN lost |-> lost[k] + l[k]]
               /\ IF l.memory = 2 THEN pending' \in BOOLEAN ELSE UNCHANGED pending
          /\ UNCHANGED <<out, total, sure>>
    /\ UNCHANGED <<n, want, gdec, fds>>

\* Fault: if (failed) return -1 comes before the loop that closes.
CloseAfterReturn ==
    /\ \/ /\ pc = "close" /\ pc' = "idle" /\ fds' = 0
          /\ answer' = n /\ UNCHANGED failed
       \/ pc = "closeFailed" /\ Fail /\ UNCHANGED fds
    /\ UNCHANGED <<n, want, gdec, out, total, sure, pending, lost>>

\* Close what was exported, and return.
Close ==
    /\ fds' = 0
    /\ \/ pc = "close" /\ pc' = "idle" /\ answer' = n /\ UNCHANGED failed
       \/ pc = "closeFailed" /\ Fail
    /\ UNCHANGED <<n, want, gdec, out, total, sure, pending, lost>>

Next ==
    \/ Reject \/ \E s \in Sizes : Accept(s)
    \/ Destroy \/ CreateKept \/ CreateVppContext
    \/ Decode \/ Vpp \/ Export \/ Detile \/ Close

Spec == Init /\ [][Next]_vars

------------------------------------------------------------------------------
(* Properties                                                              *)

\* Every variable keeps its type.
TypeOK ==
    /\ pc \in Slots \cup Planes \cup {"idle", "destroy", "decode", "vpp", "export",
                                      "close", "closeFailed"}
    /\ n \in 0 .. MaxReqs /\ want \in Sizes \cup {0}
    /\ have \in BOOLEAN /\ dim \in Sizes \cup {0}
    /\ id \in [Slots -> Ids \cup {NoId}] /\ obj \in [Ids -> Objects \cup {Free}]
    /\ out \in [Planes -> 0 .. MaxReqs] /\ total \in 0 .. OutMax
    /\ sure \subseteq Planes /\ pending \in BOOLEAN /\ fds \in 0 .. 2
    /\ lost \in [DOMAIN Nothing -> Nat]
    /\ answer \in -1 .. MaxReqs /\ failed \in Nat

\* Slot s names a live object of the right kind and size.
Holds(s, size) ==
    /\ id[s] \in Ids
    /\ obj[id[s]].kind = KindOf[s] /\ obj[id[s]].dim = size

\* The slots that are filled at each stage.
Filled ==
    IF have THEN Slots
    ELSE CASE pc = "context" -> {"surfaces"}
           [] pc = "vppOut" -> {"surfaces", "context"}
           [] pc = "vppContext" -> {"surfaces", "context", "vppOut"}
           [] OTHER -> {}

\* What a request decodes with, exports and destroys is there, live, its own and
\* of the size of its stream, whatever failed in the requests before.
NoStaleIds ==
    /\ \A s \in Filled : Holds(s, IF have THEN dim ELSE want)
    /\ \A s, t \in Filled : s # t => id[s] # id[t]
    /\ pc \in Slots => ~have
    /\ pc = "destroy" => have
    /\ pc \notin Slots \cup {"idle", "destroy"} => have /\ dim = want

\* Plane p is the current request's, or what its copy left is undefined.
OwnOrUnsure(p) == out[p] = n \/ (out[p] = 0 /\ p \notin sure)

\* A frame that is returned is the whole frame of this very request: each plane in
\* the static g_out_buf, which held the planes of earlier requests, is from it, and
\* nothing was cut off.  A plane is undefined only if its own copy was not sure: a
\* failure of vkBeginCommandBuffer, vkEndCommandBuffer or vkQueueWaitIdle went
\* unseen, for it or (the wait) for the copy before it.
ReturnsOwnFrame ==
    answer # -1 =>
        /\ answer = n /\ total = 3 * want
        /\ \A p \in Planes : OwnOrUnsure(p)

\* Vulkan images, memory and descriptors are lost by requests that fail only, at
\* most one detiling's worth each; buffers, by every one that reached the GPU.  The
\* descriptors of the exported surface are closed on every path, and none is
\* exported before the last ones are closed.
LostByFailures ==
    /\ pc \notin Planes \cup {"close", "closeFailed"} => fds = 0
    /\ LET most == failed + IF pc = "closeFailed" THEN 1 ELSE 0
       IN  /\ lost.images <= 2 * most
           /\ lost.memory <= 2 * most
           /\ lost.fds <= most
    /\ lost.buffers <= 5 * n

\* "Persistent" state: the context is made again for a new size only, and reused as
\* it is for the same size.
RecreatedOnlyForNewSize ==
    [][/\ have /\ ~have' => want # dim
       /\ have /\ have' => dim' = dim /\ id' = id]_vars

------------------------------------------------------------------------------
(* The inductive invariant behind the properties above.                    *)

\* Where the picture of the current request is.
PictureInv ==
    /\ pc # "idle" => want \in Sizes /\ answer = -1
    /\ pc = "destroy" => want # dim
    /\ pc = "vpp" => obj[id["surfaces"]].pic = n
    /\ pc \in Planes \cup {"export"} => obj[id["vppOut"]].pic = n
    /\ pc \in {"chroma", "close"} => OwnOrUnsure("luma")
    /\ pc = "close" => OwnOrUnsure("chroma")
    /\ pc \notin {"idle", "chroma", "close", "closeFailed"} => total = 0 /\ sure = {}
    /\ pc = "chroma" => "chroma" \notin sure
    /\ pc = "chroma" => total = 2 * want
    /\ pc = "close" => total = 3 * want

\* Buffers left behind: four by the decode stage and one by the blit.
BufferInv ==
    CASE pc \in Slots \cup {"destroy", "decode"} -> lost.buffers <= 5 * (n - 1)
      [] pc = "vpp" -> lost.buffers <= 5 * (n - 1) + 4
      [] OTHER -> lost.buffers <= 5 * n

IInv ==
    /\ TypeOK /\ NoStaleIds /\ PictureInv /\ ReturnsOwnFrame
    /\ LostByFailures /\ BufferInv
==============================================================================
