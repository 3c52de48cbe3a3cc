--------------------------- MODULE Codec2Component ---------------------------
(***************************************************************************)
(* A Codec2 component: VaapiEncComponent or VaapiDecComponent of           *)
(* tier5-vaapi-daemon/codec2-component, with its interface parameters.     *)
(*                                                                         *)
(* SimpleC2Component (AOSP, external) queues works and calls process() for *)
(* one after the other on a thread of its own; it returns a work when      *)
(* process() has set workletsProcessed, and keeps it otherwise.  A client  *)
(* may change the picture size at any moment, and may flush.  The daemon   *)
(* (VaapiDaemon) answers with the frame of the request or fails.           *)
(***************************************************************************)
EXTENDS Integers, Sequences, FiniteSets

CONSTANTS
    Kinds,      \* the components: "encoder", "decoder"
    Dims,       \* widths and heights in the supported range (2 .. 2560, even)
    BadDims,    \* widths and heights a client may ask for that are not
    MaxWorks,   \* bound: works queued
    MaxConfigs  \* bound: changes of the picture size

ASSUME ComponentAssumption ==
    /\ Kinds \subseteq {"encoder", "decoder"}
    /\ Dims # {} /\ Dims \cap BadDims = {}
    /\ MaxWorks \in Nat /\ MaxConfigs \in Nat

VARIABLES
    kind,       \* which of the two components this is
    size,       \* mSize: the picture size parameter
    configs,    \* how many times it was set
    n,          \* works queued so far
    queue,      \* SimpleC2Component: works waiting
    kept,       \* SimpleC2Component: works process() did not finish
    pc,         \* the next step of process()
    work,       \* the work in process()
    rect,       \* width and height in process()
    frame,      \* the size of the frame that is in it
    returned,   \* history: how often each work was returned
    last        \* the work returned last

vars == <<kind, size, configs, n, queue, kept, pc, work, rect, frame, returned, last>>
base == <<n, queue, kept, returned, last>>

SizesOf(D) == [w : D, h : D]

\* What a work may hold: nothing (end of stream only), an empty block, a buffer
\* that process() cannot use, a frame.
Inputs == [encoder |-> {"none", "bad", "frame"}, decoder |-> {"none", "empty", "bad", "frame"}]

NoWork == [n |-> 0, in |-> "none", eos |-> FALSE]
Works == [n : 1 .. MaxWorks, in : {"none", "empty", "bad", "frame"}, eos : BOOLEAN]

\* A work as process() leaves it: what it was, its result, its output buffers (the
\* numbers and sizes of their frames) and the end-of-stream flag of its output.
NoBuffers == {}
NoLast == [work |-> NoWork, result |-> "OK", buffers |-> NoBuffers, eos |-> FALSE]

Init ==
    /\ kind \in Kinds
    /\ \E d \in Dims : size = [w |-> d, h |-> d]
    /\ configs = 0
    /\ n = 0 /\ queue = <<>> /\ kept = {}
    /\ pc = "idle" /\ work = NoWork
    /\ rect = size /\ frame = size
    /\ returned = [i \in 1 .. MaxWorks |-> 0] /\ last = NoLast

------------------------------------------------------------------------------
(* The client and the base class.                                          *)

Queue(in, eos) ==
    /\ n < MaxWorks
    /\ n' = n + 1
    /\ queue' = Append(queue, [n |-> n + 1, in |-> in, eos |-> eos])
    /\ UNCHANGED <<kind, size, configs, kept, pc, work, rect, frame, returned, last>>

\* Fault: a bad value is reported but stays.
SizeSetterReportsOnly(new) == new

\* A dimension that is not supported keeps its old value, each for itself.
SizeSetter(new) ==
    [w |-> IF new.w \in Dims THEN new.w ELSE size.w,
     h |-> IF new.h \in Dims THEN new.h ELSE size.h]

Configure(new) ==
    /\ configs < MaxConfigs
    /\ configs' = configs + 1
    /\ size' = SizeSetter(new)
    /\ UNCHANGED <<kind, base, pc, work, rect, frame>>

\* The base class takes back what waits and what it keeps; onFlush_sm does nothing.
Flush ==
    /\ queue # <<>> \/ kept # {}
    /\ returned' = [i \in 1 .. MaxWorks |->
                      IF \E v \in kept \cup {queue[k] : k \in DOMAIN queue} : v.n = i
                      THEN returned[i] + 1 ELSE returned[i]]
    /\ queue' = <<>> /\ kept' = {}
    /\ UNCHANGED <<kind, size, configs, n, pc, work, rect, frame, last>>

------------------------------------------------------------------------------
(* process().                                                              *)

\* process() returns with workletsProcessed = 1: the base class returns the work.
Finish(v, result, buffers, eos) ==
    /\ pc' = "idle" /\ work' = NoWork
    /\ returned' = [returned EXCEPT ![v.n] = @ + 1]
    /\ last' = [work |-> v, result |-> result, buffers |-> buffers, eos |-> eos]
    /\ UNCHANGED kept

\* process() returns with workletsProcessed = 0: the base class keeps the work.
Keep(v) ==
    /\ pc' = "idle" /\ work' = NoWork
    /\ kept' = kept \cup {v}
    /\ UNCHANGED <<returned, last>>

\* Fault: workletsProcessed stays 0 when there is nothing in the input block.
TakeForgetsEmpty ==
    /\ pc = "idle" /\ queue # <<>>
    /\ queue' = Tail(queue)
    /\ LET v == Head(queue) IN
         \/ v.in = "none" /\ Finish(v, "OK", NoBuffers, v.eos)
         \/ v.in = "empty" /\ Keep(v)
         \/ v.in = "bad" /\ Finish(v, "ERROR", NoBuffers, v.eos)
         \/ /\ v.in = "frame" /\ work' = v
            /\ pc' = IF kind = "decoder" THEN "width" ELSE "call"
            /\ UNCHANGED <<kept, returned, last>>
    /\ UNCHANGED <<kind, size, configs, n, rect, frame>>

\* The base class calls process(), which looks at the input first.
Take ==
    /\ pc = "idle" /\ queue # <<>>
    /\ queue' = Tail(queue)
    /\ LET v == Head(queue) IN
         \/ v.in \in {"none", "empty"} /\ Finish(v, "OK", NoBuffers, v.eos)
         \/ v.in = "bad" /\ Finish(v, "ERROR", NoBuffers, v.eos)
         \/ /\ v.in = "frame" /\ work' = v
            /\ pc' = IF kind = "decoder" THEN "width" ELSE "call"
            /\ UNCHANGED <<kept, returned, last>>
    /\ UNCHANGED <<kind, size, configs, n, rect, frame>>

\* The decoder reads the two halves of its picture size, without a lock.
ReadSize ==
    /\ \/ pc = "width" /\ pc' = "height" /\ rect' = [rect EXCEPT !.w = size.w]
       \/ pc = "height" /\ pc' = "call" /\ rect' = [rect EXCEPT !.h = size.h]
    /\ UNCHANGED <<kind, size, configs, base, work, frame>>

\* encodeViaDaemon, decodeViaDaemon.  The frame has the size its stream (or the input's
\* handle) says.  decodeViaDaemon leaves *outWidth and *outHeight as they are.
Call ==
    /\ pc = "call"
    /\ \/ /\ pc' = "fetch"
          /\ \E s \in SizesOf(Dims) : frame' = s
          /\ UNCHANGED <<work, kept, returned, last>>
       \/ Finish(work, "ERROR", NoBuffers, work.eos) /\ UNCHANGED frame
    /\ UNCHANGED <<kind, size, configs, n, queue, rect>>

\* fetchLinearBlock, fetchGraphicBlock.
Fetch ==
    /\ pc = "fetch"
    /\ \/ pc' = "map" /\ UNCHANGED <<work, kept, returned, last>>
       \/ Finish(work, "ERROR", NoBuffers, work.eos)
    /\ UNCHANGED <<kind, size, configs, n, queue, rect, frame>>

\* The output buffer: the encoder's has the length the daemon gave, the
\* decoder's has the size process() read from the interface, whether or not the
\* frame has that many bytes.
Buffer == [n |-> work.n, size |-> IF kind = "decoder" THEN rect ELSE frame]

\* Fault: a block that cannot be mapped is not reported.
DeliverMapUnreported ==
    /\ pc = "map"
    /\ \/ Finish(work, "OK", {Buffer}, FALSE)
       \/ Finish(work, "OK", NoBuffers, work.eos)
    /\ UNCHANGED <<kind, size, configs, n, queue, rect, frame>>

\* Map the block, copy the frame into it and put it into the work, whose output
\* flags are cleared.
Deliver ==
    /\ pc = "map"
    /\ \/ Finish(work, "OK", {Buffer}, FALSE)
       \/ Finish(work, "ERROR", NoBuffers, work.eos)
    /\ UNCHANGED <<kind, size, configs, n, queue, rect, frame>>

Process == Take \/ ReadSize \/ Call \/ Fetch \/ Deliver

Next ==
    \/ \E in \in Inputs[kind], eos \in BOOLEAN : Queue(in, eos)
    \/ \E new \in SizesOf(Dims \cup BadDims) : Configure(new)
    \/ Flush
    \/ Process

\* The component's thread runs, and every call to the daemon returns
\* (VaapiDaemon!EveryCallReturns).
Spec == Init /\ [][Next]_vars /\ WF_vars(Process)

------------------------------------------------------------------------------
(* Properties                                                              *)

\* Every variable keeps its type.
TypeOK ==
    /\ kind \in Kinds /\ configs \in 0 .. MaxConfigs /\ n \in 0 .. MaxWorks
    /\ size \in SizesOf(Dims) /\ rect \in SizesOf(Dims) /\ frame \in SizesOf(Dims)
    /\ pc \in {"idle", "width", "height", "call", "fetch", "map"}
    /\ work \in Works \cup {NoWork}
    /\ kept \subseteq Works /\ Len(queue) <= MaxWorks
    /\ returned \in [1 .. MaxWorks -> 0 .. MaxWorks]

\* No work is returned twice, and none is lost: what is not waiting or in process()
\* has been returned, by process() or by a flush, which therefore need not ask the
\* component (onFlush_sm has nothing to give back).
ReturnedExactlyOnce ==
    \A i \in 1 .. n :
        LET with == \/ \E k \in DOMAIN queue : queue[k].n = i
                    \/ work.n = i
        IN  returned[i] = IF with THEN 0 ELSE 1

\* What a client sees of a returned work: a success for a frame carries exactly one
\* buffer, its own; nothing else carries a buffer, and keeps the input's flags.
ResultMatchesOutput ==
    /\ last.buffers # NoBuffers <=> last.result = "OK" /\ last.work.in = "frame"
    /\ \A b \in last.buffers : b.n = last.work.n
    /\ Cardinality(last.buffers) <= 1
    /\ last.buffers = NoBuffers => last.eos = last.work.eos

\* Every work that is queued is returned: CCodec waits for each.
EveryWorkReturns == \A i \in 1 .. MaxWorks : n >= i ~> returned[i] > 0

\* VaapiDecComponent.h: "the component itself just reports whatever width/height
\* decode_h264_frame() hands back", whatever the interface's size is.
ReportsStreamSize == \A b \in last.buffers : pc = "idle" => b.size = frame

------------------------------------------------------------------------------
(* The inductive invariant behind the safety properties.                   *)

\* Works wait in the order in which they were numbered: those up to Past have left
\* the queue.
Past == n - Len(queue)
QueueInv ==
    /\ queue \in Seq(Works) /\ Len(queue) <= n
    /\ \A k \in 1 .. Len(queue) : queue[k].n = Past + k

\* process() has a work exactly while it runs, one that is past and holds a frame.
WorkInv ==
    /\ pc = "idle" <=> work = NoWork
    /\ work # NoWork => work.in = "frame"
    /\ work.n <= Past

\* What is past has been returned, once, unless process() still has it; process()
\* never leaves a work to the base class to keep.
ReturnedInv ==
    /\ \A i \in 1 .. MaxWorks :
          returned[i] = IF i <= Past /\ i # work.n THEN 1 ELSE 0
    /\ kept = {}

IInv == TypeOK /\ QueueInv /\ WorkInv /\ ReturnedInv /\ ResultMatchesOutput

------------------------------------------------------------------------------
(* What is left to do until a work is returned.  Each step of process()    *)
(* lowers it for every work that has not been, and there is a step to      *)
(* take; nothing a client does raises it.  That is why every work returns. *)

\* process() has something to do.
ProcessGoesOn == pc # "idle" \/ queue # <<>>

\* The steps process() takes at most for the work it has.
StepsLeft ==
    CASE pc = "width" -> 5 [] pc = "height" -> 4 [] pc = "call" -> 3
      [] pc = "fetch" -> 2 [] pc = "map"    -> 1 [] OTHER       -> 0

\* For work i: those, and six for each that waits up to it.
WorkTodo(i) ==
    IF i > Past THEN StepsLeft + 6 * (i - Past)
    ELSE IF i = work.n THEN StepsLeft ELSE 0

WorkProgress ==
    \A i \in 1 .. n :
        /\ WorkTodo(i)' <= WorkTodo(i)
        /\ Process /\ WorkTodo(i) > 0 => WorkTodo(i)' < WorkTodo(i)

WorkTodoIsFinite ==
    \A i \in 1 .. n :
        /\ WorkTodo(i) \in Nat
        /\ returned[i] = 0 <=> WorkTodo(i) > 0
        /\ WorkTodo(i) > 0 => ProcessGoesOn
==============================================================================
