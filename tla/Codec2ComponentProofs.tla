------------------------ MODULE Codec2ComponentProofs ------------------------
(***************************************************************************)
(* The safety properties of Codec2Component, for any supported sizes and   *)
(* any number of works and size changes, from the inductive invariant      *)
(* IInv; and that every step of process() is progress.                     *)
(***************************************************************************)
EXTENDS Codec2Component, FiniteSetTheorems, TLAPS

------------------------------------------------------------------------------
(* Facts about works, sizes and the queue.                                 *)

\* A work has a number from 1 on; the one that stands for no work has 0.
LEMMA WorkFacts ==
  /\ NoWork \notin Works /\ NoWork.n = 0 /\ NoWork.in # "frame"
  /\ \A v \in Works : v.n \in 1 .. MaxWorks /\ v # NoWork
  BY ComponentAssumption DEF NoWork, Works

\* The bounds are numbers, and so are the places in the queue.
LEMMA CountTypes ==
  ASSUME TypeOK, QueueInv
  PROVE  /\ MaxWorks \in Nat /\ MaxConfigs \in Nat /\ n \in Nat /\ n <= MaxWorks
         /\ Len(queue) \in Nat /\ Past \in Nat /\ Past <= n
         /\ work.n \in Nat
  <1>1. MaxWorks \in Nat /\ MaxConfigs \in Nat BY ComponentAssumption
  <1>2. n \in Nat /\ n <= MaxWorks BY <1>1 DEF TypeOK
  <1>3. Len(queue) \in Nat /\ Len(queue) <= n BY DEF QueueInv
  <1>4. work.n \in Nat BY <1>1, WorkFacts DEF TypeOK
  <1> QED BY <1>1, <1>2, <1>3, <1>4 DEF Past

\* The work at the head is the first that is not past; behind it the others move up.
LEMMA HeadOfQueue ==
  ASSUME TypeOK, QueueInv, queue # <<>>
  PROVE  /\ Head(queue) \in Works /\ Head(queue).n = Past + 1
         /\ Past + 1 <= n
         /\ Tail(queue) \in Seq(Works) /\ Len(Tail(queue)) = Len(queue) - 1
         /\ \A k \in 1 .. Len(Tail(queue)) : Tail(queue)[k].n = Past + 1 + k
  <1>1. queue \in Seq(Works) /\ Len(queue) \in Nat /\ Len(queue) >= 1 /\ Past \in Nat
    BY CountTypes DEF QueueInv
  <1>2. Head(queue) = queue[1] /\ Head(queue) \in Works BY <1>1
  <1>3. Head(queue).n = Past + 1 BY <1>1, <1>2 DEF QueueInv
  <1>4. Past + 1 <= n BY <1>1, CountTypes DEF Past
  <1>5. Tail(queue) \in Seq(Works) /\ Len(Tail(queue)) = Len(queue) - 1 BY <1>1
  <1>6. ASSUME NEW k \in 1 .. Len(Tail(queue)) PROVE Tail(queue)[k].n = Past + 1 + k
    <2>1. k + 1 \in 1 .. Len(queue) /\ Tail(queue)[k] = queue[k + 1] BY <1>1, <1>5
    <2> QED BY <1>1, <2>1 DEF QueueInv
  <1> QED BY <1>2, <1>3, <1>4, <1>5, <1>6

\* The queue without its head.
LEMMA QueueMovesUp ==
  ASSUME TypeOK, QueueInv, queue # <<>>, queue' = Tail(queue), n' = n
  PROVE  QueueInv' /\ Past' = Past + 1 /\ Len(queue') <= MaxWorks
  <1>1. /\ Past + 1 <= n
        /\ queue' \in Seq(Works) /\ Len(queue') = Len(queue) - 1
        /\ \A k \in 1 .. Len(queue') : queue'[k].n = Past + 1 + k
    BY HeadOfQueue
  <1>2. /\ MaxWorks \in Nat /\ n \in Nat /\ n <= MaxWorks /\ Len(queue) \in Nat
        /\ Past \in Nat
    BY CountTypes
  <1>3. Past' = Past + 1 BY <1>1, <1>2 DEF Past
  <1>4. Len(queue') <= n /\ Len(queue') <= MaxWorks BY <1>1, <1>2 DEF Past
  <1>5. \A k \in 1 .. Len(queue') : queue'[k].n = Past' + k BY <1>1, <1>3
  <1> QED BY <1>1, <1>3, <1>4, <1>5 DEF QueueInv

\* A work that is returned with an error, or for which there was nothing to do,
\* carries no buffer.
LEMMA NothingDelivered ==
  ASSUME NEW v \in Works, NEW result,
         result = "OK" => v.in # "frame",
         last' = [work |-> v, result |-> result, buffers |-> NoBuffers, eos |-> v.eos]
  PROVE  ResultMatchesOutput'
  BY FS_EmptySet DEF ResultMatchesOutput, NoBuffers

------------------------------------------------------------------------------
(* The client and the base class.                                          *)

\* A work that is queued gets the next number, at the end of the queue.
LEMMA QueueStep ==
  ASSUME IInv, NEW in \in Inputs[kind], NEW eos \in BOOLEAN, Queue(in, eos)
  PROVE  IInv'
  <1>1. TypeOK /\ QueueInv /\ WorkInv /\ ReturnedInv /\ ResultMatchesOutput BY DEF IInv
  <1> DEFINE v == [n |-> n + 1, in |-> in, eos |-> eos]
  <1>2. /\ n < MaxWorks /\ n' = n + 1 /\ queue' = Append(queue, v)
        /\ UNCHANGED <<kind, size, configs, kept, pc, work, rect, frame, returned, last>>
    BY DEF Queue
  <1>3. /\ MaxWorks \in Nat /\ n \in Nat /\ Len(queue) \in Nat /\ Past \in Nat
        /\ Len(queue) <= n
    BY <1>1, CountTypes DEF QueueInv
  <1>4. v \in Works
    <2>1. in \in {"none", "empty", "bad", "frame"}
      BY <1>1, ComponentAssumption DEF TypeOK, Inputs
    <2> QED BY <1>2, <1>3, <2>1 DEF Works
  <1>5. queue' \in Seq(Works) /\ Len(queue') = Len(queue) + 1
    BY <1>1, <1>2, <1>4 DEF QueueInv
  <1>6. Past' = Past BY <1>2, <1>3, <1>5 DEF Past
  <1>7. QueueInv'
    <2> SUFFICES ASSUME NEW k \in 1 .. Len(queue') PROVE queue'[k].n = Past + k
      BY <1>2, <1>3, <1>5, <1>6 DEF QueueInv
    <2>1. CASE k \in 1 .. Len(queue)
      <3>1. queue'[k] = queue[k] BY <1>1, <1>2, <2>1 DEF QueueInv
      <3> QED BY <1>1, <2>1, <3>1 DEF QueueInv
    <2>2. CASE k = Len(queue) + 1
      <3>1. queue'[k] = v BY <1>1, <1>2, <2>2 DEF QueueInv
      <3> QED BY <1>3, <2>2, <3>1 DEF Past
    <2> QED BY <1>3, <1>5, <2>1, <2>2
  <1>8. TypeOK'
    <2>1. n' \in 0 .. MaxWorks /\ Len(queue') <= MaxWorks BY <1>2, <1>3, <1>5
    <2> QED BY <1>1, <1>2, <2>1 DEF TypeOK
  <1>9. WorkInv' /\ ReturnedInv' BY <1>1, <1>2, <1>6 DEF WorkInv, ReturnedInv
  <1>10. ResultMatchesOutput' BY <1>1, <1>2 DEF ResultMatchesOutput
  <1> QED BY <1>7, <1>8, <1>9, <1>10 DEF IInv

\* Whatever a client asks for, the size that is kept is a supported one.
LEMMA ConfigureStep ==
  ASSUME IInv, NEW new \in SizesOf(Dims \cup BadDims), Configure(new)
  PROVE  IInv'
  <1>1. TypeOK /\ QueueInv /\ WorkInv /\ ReturnedInv /\ ResultMatchesOutput BY DEF IInv
  <1>2. /\ configs < MaxConfigs /\ configs' = configs + 1 /\ size' = SizeSetter(new)
        /\ UNCHANGED <<kind, n, queue, kept, returned, last, pc, work, rect, frame>>
    BY DEF Configure, base
  <1>3. size' \in SizesOf(Dims) BY <1>1, <1>2 DEF SizeSetter, SizesOf, TypeOK
  <1>4. configs' \in 0 .. MaxConfigs BY <1>1, <1>2, ComponentAssumption DEF TypeOK
  <1>5. TypeOK' BY <1>1, <1>2, <1>3, <1>4 DEF TypeOK
  <1>6. Past' = Past BY <1>2 DEF Past
  <1>7. QueueInv' /\ WorkInv' /\ ReturnedInv'
    BY <1>1, <1>2, <1>6 DEF QueueInv, WorkInv, ReturnedInv
  <1>8. ResultMatchesOutput' BY <1>1, <1>2 DEF ResultMatchesOutput
  <1> QED BY <1>5, <1>7, <1>8 DEF IInv

\* A flush returns what waits, each once, and not what process() is busy with.
LEMMA FlushStep == ASSUME IInv, Flush PROVE IInv'
  <1>1. TypeOK /\ QueueInv /\ WorkInv /\ ReturnedInv /\ ResultMatchesOutput BY DEF IInv
  <1> DEFINE waits(i) == \E v \in kept \cup {queue[k] : k \in DOMAIN queue} : v.n = i
  <1>2. /\ returned' = [i \in 1 .. MaxWorks |->
                          IF waits(i) THEN returned[i] + 1 ELSE returned[i]]
        /\ queue' = <<>> /\ kept' = {}
        /\ UNCHANGED <<kind, size, configs, n, pc, work, rect, frame, last>>
    BY DEF Flush
  <1>3. /\ MaxWorks \in Nat /\ n \in Nat /\ n <= MaxWorks /\ Len(queue) \in Nat
        /\ Past \in Nat /\ Past <= n /\ work.n \in Nat /\ work.n <= Past
    BY <1>1, CountTypes DEF WorkInv
  <1>4. ASSUME NEW i \in 1 .. MaxWorks PROVE waits(i) <=> Past < i /\ i <= n
    <2>1. kept = {} /\ DOMAIN queue = 1 .. Len(queue)
      BY <1>1 DEF ReturnedInv, QueueInv
    <2>2. waits(i) <=> \E k \in 1 .. Len(queue) : queue[k].n = i BY <2>1
    <2>3. waits(i) <=> \E k \in 1 .. Len(queue) : Past + k = i BY <1>1, <2>2 DEF QueueInv
    <2>4. Past < i /\ i <= n => i - Past \in 1 .. Len(queue) /\ Past + (i - Past) = i
      BY <1>3 DEF Past
    <2>5. \A k \in 1 .. Len(queue) : Past + k = i => Past < i /\ i <= n
      BY <1>3 DEF Past
    <2> HIDE DEF waits
    <2> QED BY <2>3, <2>4, <2>5
  <1>5. Past' = n BY <1>2, <1>3 DEF Past
  <1>6. ASSUME NEW i \in 1 .. MaxWorks
        PROVE  returned'[i] = IF i <= n /\ i # work.n THEN 1 ELSE 0
    <2>1. returned[i] = IF i <= Past /\ i # work.n THEN 1 ELSE 0
      BY <1>1 DEF ReturnedInv
    <2>2. returned'[i] = IF Past < i /\ i <= n THEN returned[i] + 1 ELSE returned[i]
      BY <1>2, <1>4
    <2> QED BY <1>3, <2>1, <2>2
  <1>7. ReturnedInv' BY <1>2, <1>5, <1>6 DEF ReturnedInv
  <1>8. TypeOK'
    <2>1. returned' \in [1 .. MaxWorks -> 0 .. MaxWorks]
      <3>1. \A i \in 1 .. MaxWorks : returned'[i] \in 0 .. MaxWorks BY <1>3, <1>6
      <3> HIDE DEF waits
      <3> QED BY <1>2, <3>1
    <2>2. Len(queue') <= MaxWorks BY <1>2, <1>3
    <2> QED BY <1>1, <1>2, <2>1, <2>2 DEF TypeOK
  <1>9. QueueInv' BY <1>2, <1>3 DEF QueueInv
  <1>10. WorkInv' BY <1>1, <1>2, <1>3, <1>5 DEF WorkInv
  <1>11. ResultMatchesOutput' BY <1>1, <1>2 DEF ResultMatchesOutput
  <1> QED BY <1>7, <1>8, <1>9, <1>10, <1>11 DEF IInv

------------------------------------------------------------------------------
(* process().                                                              *)

\* Returning a work that was not returned before: the one at the head of the queue
\* as it is taken, or the one that process() has.
LEMMA FinishStep ==
  ASSUME IInv, NEW v \in Works, NEW result, NEW buffers, NEW eos,
         Finish(v, result, buffers, eos), ResultMatchesOutput',
         UNCHANGED <<kind, size, configs, n>>, rect' \in SizesOf(Dims), frame' \in SizesOf(Dims),
         \/ v = work /\ queue' = queue
         \/ /\ work = NoWork /\ queue # <<>>
            /\ v = Head(queue) /\ queue' = Tail(queue)
  PROVE  IInv'
  <1>1. TypeOK /\ QueueInv /\ WorkInv /\ ReturnedInv BY DEF IInv
  <1>2. /\ pc' = "idle" /\ work' = NoWork /\ kept' = kept
        /\ returned' = [returned EXCEPT ![v.n] = @ + 1]
    BY DEF Finish
  <1>3. /\ MaxWorks \in Nat /\ n \in Nat /\ n <= MaxWorks /\ Len(queue) \in Nat
        /\ Past \in Nat /\ Past <= n /\ work.n \in Nat /\ work.n <= Past
    BY <1>1, CountTypes DEF WorkInv
  <1>4. v.n \in 1 .. MaxWorks BY WorkFacts
  <1>5. /\ QueueInv' /\ Len(queue') <= MaxWorks /\ Past' \in Nat
        /\ \A i \in 1 .. MaxWorks :
              (i <= Past' /\ i # 0) <=> (i = v.n \/ (i <= Past /\ i # work.n))
        /\ v.n = work.n \/ v.n > Past
    <2>1. CASE v = work /\ queue' = queue
      <3>1. Past' = Past BY <2>1 DEF Past
      <3>2. QueueInv' BY <1>1, <2>1, <3>1 DEF QueueInv
      <3>3. work.n \in 1 .. MaxWorks /\ work.n <= Past BY <1>3, <1>4, <2>1
      <3>4. Len(queue') <= MaxWorks BY <1>1, <2>1 DEF TypeOK
      <3>5. \A i \in 1 .. MaxWorks :
               (i <= Past /\ i # 0) <=> (i = work.n \/ (i <= Past /\ i # work.n))
        BY <1>3, <3>3
      <3> QED BY <1>3, <2>1, <3>1, <3>2, <3>4, <3>5
    <2>2. CASE work = NoWork /\ queue # <<>> /\ v = Head(queue) /\ queue' = Tail(queue)
      <3>1. v.n = Past + 1 /\ Past + 1 <= n BY <1>1, <2>2, HeadOfQueue
      <3>2. QueueInv' /\ Past' = Past + 1 /\ Len(queue') <= MaxWorks
        BY <1>1, <2>2, QueueMovesUp
      <3>3. work.n = 0 BY <2>2, WorkFacts
      <3>4. \A i \in 1 .. MaxWorks :
               (i <= Past + 1 /\ i # 0) <=> (i = Past + 1 \/ (i <= Past /\ i # 0))
        BY <1>3
      <3> QED BY <1>3, <3>1, <3>2, <3>3, <3>4
    <2> QED BY <2>1, <2>2
  <1>6. returned \in [1 .. MaxWorks -> 0 .. MaxWorks] BY <1>1 DEF TypeOK
  <1>7. ASSUME NEW i \in 1 .. MaxWorks
        PROVE  returned'[i] = IF i <= Past' /\ i # work'.n THEN 1 ELSE 0
    <2>1. returned[i] = IF i <= Past /\ i # work.n THEN 1 ELSE 0 BY <1>1 DEF ReturnedInv
    <2>2. returned'[i] = IF i = v.n THEN returned[i] + 1 ELSE returned[i]
      BY <1>2, <1>4, <1>6
    <2>3. work'.n = 0 BY <1>2, WorkFacts
    <2>4. i = v.n => returned[i] = 0 BY <1>3, <1>4, <1>5, <2>1
    <2> QED BY <1>5, <2>1, <2>2, <2>3, <2>4
  <1>8. ReturnedInv'
    <2>1. kept' = {} BY <1>1, <1>2 DEF ReturnedInv
    <2> QED BY <1>7, <2>1 DEF ReturnedInv
  <1>9. WorkInv' BY <1>2, <1>5, WorkFacts DEF WorkInv
  <1>10. TypeOK'
    <2>1. returned' \in [1 .. MaxWorks -> 0 .. MaxWorks]
      <3>1. \A i \in 1 .. MaxWorks : returned'[i] \in 0 .. MaxWorks BY <1>3, <1>7
      <3> QED BY <1>2, <1>6, <3>1
    <2> QED BY <1>1, <1>2, <1>5, <2>1 DEF TypeOK
  <1> QED BY <1>5, <1>8, <1>9, <1>10 DEF IInv

\* process() goes on with its work.
LEMMA GoOnStep ==
  ASSUME IInv, pc # "idle", pc' \in {"width", "height", "call", "fetch", "map"},
         UNCHANGED <<kind, size, configs, n, queue, kept, returned, last, work>>,
         rect' \in SizesOf(Dims), frame' \in SizesOf(Dims)
  PROVE  IInv'
  <1>1. TypeOK /\ QueueInv /\ WorkInv /\ ReturnedInv /\ ResultMatchesOutput BY DEF IInv
  <1>2. Past' = Past BY DEF Past
  <1>3. TypeOK' BY <1>1 DEF TypeOK
  <1>4. QueueInv' /\ WorkInv' /\ ReturnedInv'
    BY <1>1, <1>2 DEF QueueInv, WorkInv, ReturnedInv
  <1>5. ResultMatchesOutput' BY <1>1 DEF ResultMatchesOutput
  <1> QED BY <1>3, <1>4, <1>5 DEF IInv

\* In process(), work is a work with a frame.
LEMMA InProcess ==
  ASSUME IInv, pc # "idle"
  PROVE  work \in Works /\ work.in = "frame" /\ rect \in SizesOf(Dims) /\ frame \in SizesOf(Dims)
  BY DEF IInv, WorkInv, TypeOK

\* process() gives up on a frame: the work comes back with an error and no buffer.
LEMMA GiveUpStep ==
  ASSUME IInv, pc # "idle", Finish(work, "ERROR", NoBuffers, work.eos),
         UNCHANGED <<kind, size, configs, n, queue, rect, frame>>
  PROVE  IInv'
  <1>1. work \in Works /\ rect \in SizesOf(Dims) /\ frame \in SizesOf(Dims) BY InProcess
  <1>2. ResultMatchesOutput' BY <1>1, NothingDelivered DEF Finish
  <1> QED BY <1>1, <1>2, FinishStep

\* process() takes a work and looks at what is in it.
LEMMA TakeStep == ASSUME IInv, Take PROVE IInv'
  <1>1. TypeOK /\ QueueInv /\ WorkInv /\ ReturnedInv /\ ResultMatchesOutput BY DEF IInv
  <1> DEFINE v == Head(queue)
  <1>2. /\ pc = "idle" /\ queue # <<>> /\ queue' = Tail(queue)
        /\ UNCHANGED <<kind, size, configs, n, rect, frame>>
    BY DEF Take
  <1>3. work = NoWork BY <1>1, <1>2 DEF WorkInv
  <1>4. v \in Works /\ v.n = Past + 1 /\ Past + 1 <= n BY <1>1, <1>2, HeadOfQueue
  <1>5. ASSUME NEW result \in {"OK", "ERROR"}, result = "OK" => v.in # "frame",
               Finish(v, result, NoBuffers, v.eos)
        PROVE  IInv'
    <2>1. ResultMatchesOutput' BY <1>4, <1>5, NothingDelivered DEF Finish
    <2>2. rect' \in SizesOf(Dims) /\ frame' \in SizesOf(Dims) BY <1>1, <1>2 DEF TypeOK
    <2> QED BY <1>2, <1>3, <1>4, <1>5, <2>1, <2>2, FinishStep
  <1>6. CASE /\ v.in = "frame" /\ work' = v /\ pc' \in {"width", "call"}
             /\ UNCHANGED <<kept, returned, last>>
    <2>1. /\ MaxWorks \in Nat /\ n \in Nat /\ n <= MaxWorks /\ Len(queue) \in Nat
          /\ Past \in Nat
      BY <1>1, CountTypes
    <2>2. QueueInv' /\ Past' = Past + 1 /\ Len(queue') <= MaxWorks
      BY <1>1, <1>2, QueueMovesUp
    <2>4. WorkInv' BY <1>4, <1>6, <2>1, <2>2, WorkFacts DEF WorkInv
    <2>5. ReturnedInv'
      <3>1. work.n = 0 BY <1>3, WorkFacts
      <3>2. \A i \in 1 .. MaxWorks :
               (i <= Past' /\ i # work'.n) <=> (i <= Past /\ i # work.n)
        BY <1>4, <1>6, <2>1, <2>2, <3>1
      <3> QED BY <1>1, <1>6, <3>2 DEF ReturnedInv
    <2>6. TypeOK' BY <1>1, <1>2, <1>4, <1>6, <2>2 DEF TypeOK
    <2>7. ResultMatchesOutput' BY <1>1, <1>6 DEF ResultMatchesOutput
    <2> QED BY <2>2, <2>4, <2>5, <2>6, <2>7 DEF IInv
  <1>7. \/ v.in \in {"none", "empty"} /\ Finish(v, "OK", NoBuffers, v.eos)
        \/ Finish(v, "ERROR", NoBuffers, v.eos)
        \/ /\ v.in = "frame" /\ work' = v /\ pc' \in {"width", "call"}
           /\ UNCHANGED <<kept, returned, last>>
    BY DEF Take
  <1> QED BY <1>5, <1>6, <1>7

\* The decoder reads a half of its picture size.
LEMMA ReadSizeStep == ASSUME IInv, ReadSize PROVE IInv'
  <1>1. pc \in {"width", "height"} /\ pc' \in {"height", "call"} BY DEF ReadSize
  <1>2. UNCHANGED <<kind, size, configs, n, queue, kept, returned, last, work, frame>>
    BY DEF ReadSize, base
  <1>3. rect \in SizesOf(Dims) /\ size \in SizesOf(Dims) /\ frame \in SizesOf(Dims)
    BY DEF IInv, TypeOK
  <1>4. rect' = [rect EXCEPT !.w = size.w] \/ rect' = [rect EXCEPT !.h = size.h]
    BY DEF ReadSize
  <1>5. rect' \in SizesOf(Dims) BY <1>3, <1>4 DEF SizesOf
  <1> QED BY <1>1, <1>2, <1>3, <1>5, GoOnStep

\* The daemon answers with a frame or the call fails.
LEMMA CallStep == ASSUME IInv, Call PROVE IInv'
  <1>1. pc = "call" /\ UNCHANGED <<kind, size, configs, n, queue, rect>> BY DEF Call
  <1>2. rect \in SizesOf(Dims) BY <1>1, InProcess
  <1>3. CASE /\ pc' = "fetch" /\ frame' \in SizesOf(Dims)
             /\ UNCHANGED <<work, kept, returned, last>>
    BY <1>1, <1>2, <1>3, GoOnStep
  <1>4. CASE Finish(work, "ERROR", NoBuffers, work.eos) /\ frame' = frame
    BY <1>1, <1>4, GiveUpStep
  <1> QED BY <1>3, <1>4 DEF Call

\* An output block is there or not.
LEMMA FetchStep == ASSUME IInv, Fetch PROVE IInv'
  <1>1. pc = "fetch" /\ UNCHANGED <<kind, size, configs, n, queue, rect, frame>> BY DEF Fetch
  <1>2. rect \in SizesOf(Dims) /\ frame \in SizesOf(Dims) BY <1>1, InProcess
  <1>3. CASE pc' = "map" /\ UNCHANGED <<work, kept, returned, last>>
    BY <1>1, <1>2, <1>3, GoOnStep
  <1>4. CASE Finish(work, "ERROR", NoBuffers, work.eos) BY <1>1, <1>4, GiveUpStep
  <1> QED BY <1>3, <1>4 DEF Fetch

\* The frame is delivered in one buffer of its own, or the block cannot be mapped.
LEMMA DeliverStep == ASSUME IInv, Deliver PROVE IInv'
  <1>1. pc = "map" /\ UNCHANGED <<kind, size, configs, n, queue, rect, frame>> BY DEF Deliver
  <1>2. /\ work \in Works /\ work.in = "frame"
        /\ rect \in SizesOf(Dims) /\ frame \in SizesOf(Dims)
    BY <1>1, InProcess
  <1>3. CASE Finish(work, "OK", {Buffer}, FALSE)
    <2>1. last' = [work |-> work, result |-> "OK", buffers |-> {Buffer}, eos |-> FALSE]
      BY <1>3 DEF Finish
    <2>2. Cardinality({Buffer}) = 1 BY FS_Singleton
    <2>4. Buffer.n = work.n BY DEF Buffer
    <2>5. /\ last'.buffers = {Buffer} /\ last'.work = work /\ last'.result = "OK"
          /\ Cardinality(last'.buffers) = 1
      BY <2>1, <2>2
    <2>6. last'.buffers # {} BY <2>5
    <2>3. ResultMatchesOutput' BY <1>2, <2>4, <2>5, <2>6 DEF ResultMatchesOutput, NoBuffers
    <2> QED BY <1>1, <1>2, <1>3, <2>3, FinishStep
  <1>4. CASE Finish(work, "ERROR", NoBuffers, work.eos) BY <1>1, <1>4, GiveUpStep
  <1> QED BY <1>3, <1>4 DEF Deliver

------------------------------------------------------------------------------
(* The theorems.                                                           *)

\* A component that was just created satisfies IInv.
LEMMA InitIInv == ASSUME Init PROVE IInv
  <1>1. MaxWorks \in Nat /\ MaxConfigs \in Nat BY ComponentAssumption
  <1>2. size \in SizesOf(Dims) BY DEF Init, SizesOf
  <1>3. TypeOK BY <1>1, <1>2 DEF Init, TypeOK
  <1>4. Past = 0 /\ work.n = 0
    <2>1. n = 0 /\ Len(queue) = 0 /\ work = NoWork BY DEF Init
    <2> QED BY <2>1, WorkFacts DEF Past
  <1>5. QueueInv BY DEF Init, QueueInv
  <1>6. WorkInv BY <1>4 DEF Init, WorkInv
  <1>7. ReturnedInv BY <1>1, <1>4 DEF Init, ReturnedInv
  <1>8. ResultMatchesOutput
    <2>1. last = NoLast /\ Cardinality({}) = 0 BY FS_EmptySet DEF Init
    <2>2. last.buffers = {} /\ last.work.in # "frame" /\ last.eos = last.work.eos
      BY <2>1 DEF NoLast, NoWork, NoBuffers
    <2>3. Cardinality(last.buffers) = 0 BY <2>1, <2>2
    <2> QED BY <2>2, <2>3 DEF ResultMatchesOutput, NoBuffers
  <1> QED BY <1>3, <1>5, <1>6, <1>7, <1>8 DEF IInv

\* Every step of the client, the base class and process() preserves IInv.
LEMMA StepIInv == ASSUME IInv, [Next]_vars PROVE IInv'
  <1>1. CASE UNCHANGED vars
    BY <1>1 DEF vars, IInv, TypeOK, QueueInv, WorkInv, ReturnedInv, Past, ResultMatchesOutput
  <1>2. CASE Process
    BY <1>2, TakeStep, ReadSizeStep, CallStep, FetchStep, DeliverStep DEF Process
  <1>3. CASE \E in \in Inputs[kind], eos \in BOOLEAN : Queue(in, eos) BY <1>3, QueueStep
  <1>4. CASE \E new \in SizesOf(Dims \cup BadDims) : Configure(new) BY <1>4, ConfigureStep
  <1>5. CASE Flush BY <1>5, FlushStep
  <1> QED BY <1>1, <1>2, <1>3, <1>4, <1>5 DEF Next

\* IInv holds in every reachable state of a component.
THEOREM Invariance == Spec => []IInv
  <1>1. Init => IInv BY InitIInv
  <1>2. IInv /\ [Next]_vars => IInv' BY StepIInv
  <1> QED BY <1>1, <1>2, PTL DEF Spec

\* Every variable of process(), its interface and the base class keeps its type; in
\* particular the picture size is always one that is supported.
THEOREM TypeCorrect == Spec => []TypeOK
  <1>1. IInv => TypeOK BY DEF IInv
  <1> QED BY <1>1, Invariance, PTL

\* The ledger of returned works and the queue agree: a work has been returned just
\* when it has left the queue and is not the one in hand.
LEMMA PastIsReturned == IInv => ReturnedExactlyOnce
  <1> SUFFICES ASSUME IInv, NEW i \in 1 .. n
               PROVE  returned[i] = IF (\E k \in DOMAIN queue : queue[k].n = i) \/ work.n = i
                                    THEN 0 ELSE 1
    BY DEF ReturnedExactlyOnce
  <1>1. TypeOK /\ QueueInv /\ WorkInv /\ ReturnedInv BY DEF IInv
  <1>2. /\ MaxWorks \in Nat /\ n \in Nat /\ n <= MaxWorks /\ Len(queue) \in Nat
        /\ Past \in Nat /\ Past <= n
    BY <1>1, CountTypes
  <1>3. DOMAIN queue = 1 .. Len(queue) BY <1>1 DEF QueueInv
  <1>4. (\E k \in DOMAIN queue : queue[k].n = i) <=> i > Past
    <2>1. i > Past => i - Past \in 1 .. Len(queue) /\ Past + (i - Past) = i
      BY <1>2 DEF Past
    <2>2. \A k \in 1 .. Len(queue) : Past + k = i => i > Past BY <1>2
    <2> QED BY <1>1, <1>3, <2>1, <2>2 DEF QueueInv
  <1>5. returned[i] = IF i <= Past /\ i # work.n THEN 1 ELSE 0
    BY <1>1, <1>2 DEF ReturnedInv
  <1> QED BY <1>2, <1>4, <1>5

\* Every work that was queued waits, is in process() or was returned exactly once,
\* however flushes fall between the steps of process().
THEOREM NoWorkLostOrDoubled == Spec => []ReturnedExactlyOnce
  <1> QED BY PastIsReturned, Invariance, PTL

\* A returned work says what happened to it: its own one buffer if it succeeded with
\* a frame, and otherwise none.
THEOREM ResultsAreHonest == Spec => []ResultMatchesOutput
  <1>1. IInv => ResultMatchesOutput BY DEF IInv
  <1> QED BY <1>1, Invariance, PTL

------------------------------------------------------------------------------
(* Why every work returns.                                                 *)

\* The steps left are counted as long as process() has a work, and only then.
LEMMA StepsLeftType ==
  ASSUME IInv PROVE StepsLeft \in 0 .. 5 /\ (StepsLeft > 0 <=> pc # "idle")
  BY DEF IInv, TypeOK, StepsLeft

\* What a work is waiting for in terms of numbers.
LEMMA TodoFacts ==
  ASSUME IInv
  PROVE  /\ n \in Nat /\ Past \in Nat /\ Past <= n /\ work.n \in Nat /\ work.n <= Past
         /\ pc = "idle" <=> work.n = 0
         /\ queue # <<>> <=> Past < n
  <1>1. TypeOK /\ QueueInv /\ WorkInv BY DEF IInv
  <1>2. n \in Nat /\ Past \in Nat /\ Past <= n /\ work.n \in Nat /\ Len(queue) \in Nat
    BY <1>1, CountTypes
  <1>3. work.n <= Past BY <1>1 DEF WorkInv
  <1>4. pc = "idle" <=> work.n = 0
    <2>1. MaxWorks \in Nat BY ComponentAssumption
    <2>2. work \in Works \cup {NoWork} BY <1>1 DEF TypeOK
    <2>3. work = NoWork <=> work.n = 0 BY <2>1, <2>2, WorkFacts
    <2> QED BY <1>1, <2>3 DEF WorkInv
  <1>5. queue # <<>> <=> Len(queue) > 0 BY <1>1 DEF QueueInv
  <1> QED BY <1>2, <1>3, <1>4, <1>5 DEF Past

\* The number is finite, zero just for what was returned, and otherwise process() can
\* go on.
LEMMA TodoIsFinite == ASSUME IInv PROVE WorkTodoIsFinite
  <1> SUFFICES ASSUME NEW i \in 1 .. n
               PROVE  /\ WorkTodo(i) \in Nat
                      /\ returned[i] = 0 <=> WorkTodo(i) > 0
                      /\ WorkTodo(i) > 0 => ProcessGoesOn
    BY DEF WorkTodoIsFinite
  <1>1. StepsLeft \in 0 .. 5 /\ (StepsLeft > 0 <=> pc # "idle") BY StepsLeftType
  <1>2. /\ n \in Nat /\ Past \in Nat /\ Past <= n /\ work.n \in Nat /\ work.n <= Past
        /\ pc = "idle" <=> work.n = 0
        /\ queue # <<>> <=> Past < n
    BY TodoFacts
  <1>3. returned[i] = IF i <= Past /\ i # work.n THEN 1 ELSE 0
    <2>1. i \in 1 .. MaxWorks BY <1>2, ComponentAssumption DEF IInv, TypeOK
    <2> QED BY <2>1 DEF IInv, ReturnedInv
  <1>4. CASE i > Past
    <2>1. WorkTodo(i) = StepsLeft + 6 * (i - Past) BY <1>4 DEF WorkTodo
    <2>2. WorkTodo(i) \in Nat /\ WorkTodo(i) > 0 BY <1>1, <1>2, <1>4, <2>1
    <2> QED BY <1>2, <1>3, <1>4, <2>2 DEF ProcessGoesOn
  <1>5. CASE i <= Past /\ i = work.n
    <2>1. WorkTodo(i) = StepsLeft BY <1>2, <1>5 DEF WorkTodo
    <2> QED BY <1>1, <1>2, <1>3, <1>5, <2>1 DEF ProcessGoesOn
  <1>6. CASE i <= Past /\ i # work.n
    <2>1. WorkTodo(i) = 0 BY <1>2, <1>6 DEF WorkTodo
    <2> QED BY <1>3, <1>6, <2>1
  <1> QED BY <1>2, <1>4, <1>5, <1>6

\* A step of process() gets on with every work that has not been returned: it takes one
\* of the steps it has left, or takes up the next work.
LEMMA ProcessProgress == ASSUME IInv, IInv', Process PROVE WorkProgress
  <1>1. /\ StepsLeft \in 0 .. 5 /\ (StepsLeft > 0 <=> pc # "idle")
        /\ StepsLeft' \in 0 .. 5
    <2>1. StepsLeft' \in 0 .. 5 BY DEF IInv, TypeOK, StepsLeft
    <2> QED BY <2>1, StepsLeftType
  <1>2. /\ n \in Nat /\ Past \in Nat /\ Past <= n /\ work.n \in Nat /\ work.n <= Past
        /\ pc = "idle" <=> work.n = 0
    BY TodoFacts
  <1>3. /\ n' = n
        /\ \/ Past' = Past + 1 /\ StepsLeft = 0 /\ work'.n \in {0, Past + 1}
           \/ /\ Past' = Past /\ StepsLeft' < StepsLeft
              /\ work'.n = work.n \/ (work'.n = 0 /\ StepsLeft' = 0)
    <2>2. CASE Take
      <3>1. pc = "idle" /\ queue # <<>> /\ queue' = Tail(queue) /\ n' = n BY <2>2 DEF Take
      <3>2. TypeOK /\ QueueInv BY DEF IInv
      <3>3. Past' = Past + 1 BY <3>1, <3>2, QueueMovesUp
      <3>4. Head(queue).n = Past + 1 BY <3>1, <3>2, HeadOfQueue
      <3>5. work' \in {NoWork, Head(queue)} BY <2>2 DEF Take, Finish
      <3>6. work'.n \in {0, Past + 1} BY <3>4, <3>5, WorkFacts
      <3>7. StepsLeft = 0 BY <1>1, <3>1
      <3> QED BY <3>1, <3>3, <3>6, <3>7
    <2>3. CASE ReadSize \/ Call \/ Fetch \/ Deliver
      <3>1. n' = n /\ queue' = queue
        BY <2>3 DEF ReadSize, Call, Fetch, Deliver, base
      <3>2. Past' = Past BY <3>1 DEF Past
      <3>3. /\ pc # "idle"
            /\ \/ pc' = "idle" /\ work' = NoWork
               \/ /\ work' = work
                  /\ <<pc, pc'>> \in {<<"width", "height">>, <<"height", "call">>,
                                      <<"call", "fetch">>, <<"fetch", "map">>}
        BY <2>3 DEF ReadSize, Call, Fetch, Deliver, Finish
      <3>4. CASE pc' = "idle" /\ work' = NoWork
        <4>1. StepsLeft' = 0 BY <3>4 DEF StepsLeft
        <4>2. work'.n = 0 BY <3>4, WorkFacts
        <4> QED BY <1>1, <3>1, <3>2, <3>3, <4>1, <4>2
      <3>5. CASE /\ work' = work
                 /\ <<pc, pc'>> \in {<<"width", "height">>, <<"height", "call">>,
                                     <<"call", "fetch">>, <<"fetch", "map">>}
        <4>1. StepsLeft' < StepsLeft
          <5>1. CASE pc = "width" /\ pc' = "height"
            <6>1. StepsLeft = 5 /\ StepsLeft' = 4 BY <5>1 DEF StepsLeft
            <6> QED BY <6>1
          <5>2. CASE pc = "height" /\ pc' = "call"
            <6>1. StepsLeft = 4 /\ StepsLeft' = 3 BY <5>2 DEF StepsLeft
            <6> QED BY <6>1
          <5>3. CASE pc = "call" /\ pc' = "fetch"
            <6>1. StepsLeft = 3 /\ StepsLeft' = 2 BY <5>3 DEF StepsLeft
            <6> QED BY <6>1
          <5>4. CASE pc = "fetch" /\ pc' = "map"
            <6>1. StepsLeft = 2 /\ StepsLeft' = 1 BY <5>4 DEF StepsLeft
            <6> QED BY <6>1
          <5> QED BY <3>5, <5>1, <5>2, <5>3, <5>4
        <4> QED BY <3>1, <3>2, <3>5, <4>1
      <3> QED BY <3>3, <3>4, <3>5
    <2> QED BY <2>2, <2>3 DEF Process
  <1> SUFFICES ASSUME NEW i \in 1 .. n
               PROVE  /\ WorkTodo(i)' <= WorkTodo(i)
                      /\ WorkTodo(i) > 0 => WorkTodo(i)' < WorkTodo(i)
    BY DEF WorkProgress
  <1>4. WorkTodo(i) = IF i > Past THEN StepsLeft + 6 * (i - Past)
                      ELSE IF i = work.n THEN StepsLeft ELSE 0
    BY DEF WorkTodo
  <1>5. WorkTodo(i)' = IF i > Past' THEN StepsLeft' + 6 * (i - Past')
                       ELSE IF i = work'.n THEN StepsLeft' ELSE 0
    BY DEF WorkTodo
  <1>6. CASE Past' = Past + 1 /\ StepsLeft = 0 /\ work'.n \in {0, Past + 1}
    <2>1. CASE i <= Past
      <3>1. WorkTodo(i) = 0 BY <1>2, <1>4, <1>6, <2>1
      <3>2. WorkTodo(i)' = 0 BY <1>2, <1>5, <1>6, <2>1
      <3> QED BY <3>1, <3>2
    <2>2. CASE i = Past + 1
      <3>1. WorkTodo(i) = 6 BY <1>2, <1>4, <1>6, <2>2
      <3>2. WorkTodo(i)' \in {0, StepsLeft'} BY <1>2, <1>5, <1>6, <2>2
      <3> QED BY <1>1, <3>1, <3>2
    <2>3. CASE i > Past + 1
      <3>1. WorkTodo(i) = 6 * (i - Past) BY <1>2, <1>4, <1>6, <2>3
      <3>2. WorkTodo(i)' = StepsLeft' + 6 * (i - (Past + 1)) BY <1>2, <1>5, <1>6, <2>3
      <3>3. PICK s \in 0 .. 5, d \in Int : s = StepsLeft' /\ d = i - Past BY <1>1, <1>2
      <3>4. WorkTodo(i)' = s + 6 * (d - 1) /\ WorkTodo(i) = 6 * d
        BY <1>2, <3>1, <3>2, <3>3
      <3> QED BY <3>3, <3>4
    <2> QED BY <1>2, <2>1, <2>2, <2>3
  <1>7. CASE /\ Past' = Past /\ StepsLeft' < StepsLeft
             /\ work'.n = work.n \/ (work'.n = 0 /\ StepsLeft' = 0)
    <2>1. CASE i > Past
      <3>1. WorkTodo(i)' = StepsLeft' + 6 * (i - Past) BY <1>5, <1>7, <2>1
      <3>2. WorkTodo(i) = StepsLeft + 6 * (i - Past) BY <1>4, <2>1
      <3>3. PICK s \in 0 .. 5, t \in 0 .. 5, d \in Int :
               s = StepsLeft' /\ t = StepsLeft /\ d = 6 * (i - Past)
        BY <1>1, <1>2
      <3>4. WorkTodo(i)' = s + d /\ WorkTodo(i) = t + d /\ s < t BY <1>7, <3>1, <3>2, <3>3
      <3> QED BY <3>3, <3>4
    <2>2. CASE i <= Past /\ i = work.n
      <3>1. WorkTodo(i) = StepsLeft BY <1>2, <1>4, <2>2
      <3>2. WorkTodo(i)' = StepsLeft' BY <1>2, <1>5, <1>7, <2>2
      <3> QED BY <1>1, <1>7, <3>1, <3>2
    <2>3. CASE i <= Past /\ i # work.n
      <3>1. WorkTodo(i) = 0 BY <1>2, <1>4, <2>3
      <3>2. WorkTodo(i)' = 0 BY <1>2, <1>5, <1>7, <2>3
      <3> QED BY <3>1, <3>2
    <2> QED BY <1>2, <2>1, <2>2, <2>3
  <1> QED BY <1>3, <1>6, <1>7

\* What a client does, a new work, a new size or a flush, takes no work back.
LEMMA ClientProgress ==
  ASSUME IInv, ~Process,
         \/ \E in \in Inputs[kind], eos \in BOOLEAN : Queue(in, eos)
         \/ \E new \in SizesOf(Dims \cup BadDims) : Configure(new)
         \/ Flush
  PROVE  WorkProgress
  <1>1. StepsLeft \in 0 .. 5 BY StepsLeftType
  <1>2. n \in Nat /\ Past \in Nat /\ Past <= n /\ work.n \in Nat /\ work.n <= Past
    BY TodoFacts
  <1>3. pc' = pc /\ work' = work /\ Past' \in Nat /\ Past' >= Past
    <2>1. pc' = pc /\ work' = work BY DEF Queue, Configure, Flush
    <2>2. CASE \E in \in Inputs[kind], eos \in BOOLEAN : Queue(in, eos)
      <3>1. PICK in \in Inputs[kind], eos \in BOOLEAN : Queue(in, eos) BY <2>2
      <3>2. PICK v : n' = n + 1 /\ queue' = Append(queue, v) BY <3>1 DEF Queue
      <3>3. Len(queue') = Len(queue) + 1 /\ Len(queue) \in Nat
        BY <3>2 DEF IInv, QueueInv
      <3>4. Past' = Past BY <1>2, <3>2, <3>3 DEF Past
      <3> QED BY <1>2, <2>1, <3>4
    <2>3. CASE \E new \in SizesOf(Dims \cup BadDims) : Configure(new)
      <3>1. Past' = Past BY <2>3 DEF Configure, base, Past
      <3> QED BY <1>2, <2>1, <3>1
    <2>4. CASE Flush
      <3>1. n' = n /\ Len(queue') = 0 BY <2>4 DEF Flush
      <3>2. Past' = n BY <1>2, <3>1 DEF Past
      <3> QED BY <1>2, <2>1, <3>2
    <2> QED BY <2>2, <2>3, <2>4
  <1>4. StepsLeft' = StepsLeft BY <1>3 DEF StepsLeft
  <1> SUFFICES ASSUME NEW i \in 1 .. n PROVE WorkTodo(i)' <= WorkTodo(i)
    BY DEF WorkProgress
  <1>5. WorkTodo(i) = IF i > Past THEN StepsLeft + 6 * (i - Past)
                      ELSE IF i = work.n THEN StepsLeft ELSE 0
    BY DEF WorkTodo
  <1>6. WorkTodo(i)' = IF i > Past' THEN StepsLeft + 6 * (i - Past')
                       ELSE IF i = work.n THEN StepsLeft ELSE 0
    BY <1>3, <1>4 DEF WorkTodo
  <1>7. CASE i > Past'
    <2>1. /\ WorkTodo(i) = StepsLeft + 6 * (i - Past)
          /\ WorkTodo(i)' = StepsLeft + 6 * (i - Past')
      BY <1>2, <1>3, <1>5, <1>6, <1>7
    <2>2. PICK s \in 0 .. 5, d \in Int, e \in Int :
             s = StepsLeft /\ d = i - Past /\ e = i - Past' /\ e <= d
      BY <1>1, <1>2, <1>3
    <2>3. WorkTodo(i) = s + 6 * d /\ WorkTodo(i)' = s + 6 * e BY <2>1, <2>2
    <2> QED BY <2>2, <2>3
  <1>8. CASE i <= Past' /\ i > Past
    <2>1. WorkTodo(i) = StepsLeft + 6 * (i - Past) /\ WorkTodo(i)' = 0
      BY <1>2, <1>3, <1>5, <1>6, <1>8
    <2> QED BY <1>1, <1>2, <1>8, <2>1
  <1>9. CASE i <= Past
    <2>1. WorkTodo(i)' = WorkTodo(i) BY <1>2, <1>3, <1>5, <1>6, <1>9
    <2>2. WorkTodo(i) \in Nat BY <1>1, <1>2, <1>5, <1>9
    <2> QED BY <2>1, <2>2
  <1> QED BY <1>2, <1>3, <1>7, <1>8, <1>9

\* Each step of process() brings every work that has not been returned nearer to it, by
\* a number of steps that is known from the start, and process() has a step to take as
\* long as there is one.  No flush, change of size or later work puts it off.
THEOREM EveryStepIsWorkProgress == Spec => [][WorkProgress]_vars /\ []WorkTodoIsFinite
  <1>1. IInv /\ IInv' /\ [Next]_vars => [WorkProgress]_vars
    BY ProcessProgress, ClientProgress DEF Next
  <1>2. IInv => WorkTodoIsFinite BY TodoIsFinite
  <1> QED BY <1>1, <1>2, Invariance, PTL DEF Spec
==============================================================================
