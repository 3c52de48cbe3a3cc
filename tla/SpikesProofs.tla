---------------------------- MODULE SpikesProofs ----------------------------
(***************************************************************************)
(* The properties of the spikes and the test clients.  That a table is in  *)
(* order is about one run of it, in which no call fails, and TLC evaluates *)
(* it (PlanAssumption, TablesInOrder).  That all runs go by the plan,      *)
(* whichever calls fail, noticed or not, and whatever an import shows, is  *)
(* proved here, for any tables that are in order.                          *)
(***************************************************************************)
EXTENDS Spikes, TLAPS

------------------------------------------------------------------------------
(* One step of the plan.                                                   *)

\* What a step finds, and what its plan says comes after it.
LEMMA PlanStep ==
  ASSUME TypeOK, at <= Len(Script[prog]), Advance, prog' = prog
  PROVE  /\ at \in DOMAIN Script[prog] /\ StepOK(Now)
         /\ at' \in 1 .. Len(Script[prog]) + 1
         /\ Here \in Plans /\ Here' \in Plans
         /\ Here'.alive = AliveAfter(Here, Now) /\ Here'.busy = BusyAfter(Here, Now)
         /\ Here'.can = CanAfter(Here, Now) /\ Here'.like = LikeAfter(Here, Now)
         /\ Here'.file = FileAfter(Here, Now)
  <1>1. /\ Len(Script[prog]) \in Nat /\ DOMAIN Script[prog] = 1 .. Len(Script[prog])
        /\ \A k \in DOMAIN Script[prog] : StepOK(Script[prog][k])
        /\ \A k \in 1 .. Len(Script[prog]) + 1 : Plan[prog][k] \in Plans
        /\ \A k \in DOMAIN Script[prog] : Plan[prog][k + 1] = After(Plan[prog][k], Script[prog][k])
    BY PlanAssumption DEF TypeOK
  <1>2. at \in 1 .. Len(Script[prog]) /\ at' = at + 1 BY <1>1 DEF TypeOK, Advance
  <1>3. at' \in 1 .. Len(Script[prog]) + 1 BY <1>1, <1>2
  <1>4. Here' = Plan[prog][at + 1] BY <1>2 DEF Here
  <1>5. Here' = After(Here, Now) BY <1>1, <1>2, <1>4 DEF Here, Now
  <1>6. Here \in Plans /\ Here' \in Plans BY <1>1, <1>2, <1>3, <1>4 DEF Here
  <1> QED BY <1>1, <1>2, <1>3, <1>5, <1>6 DEF After, Now

\* What the plan knows of its pictures and of its file.
LEMMA PlanTypes ==
  ASSUME NEW s \in Plans
  PROVE  /\ s.alive \subseteq Objects /\ s.can \in [Objects -> SUBSET Pictures]
         /\ s.like \subseteq Objects
         /\ s.file \in Seq([part : Sections, can : SUBSET Pictures, like : BOOLEAN])
  BY DEF Plans

\* A step that moves no picture leaves the memory as planned.
LEMMA MemoryFrame ==
  ASSUME MemoryFits, mem' = mem, verdict' = verdict,
         Here'.can = Here.can, Here'.like = Here.like
  PROVE  MemoryFits'
  BY DEF MemoryFits, Fits

\* Nor does one that puts a picture the plan allows into one object.
LEMMA MemoryMoves ==
  ASSUME TypeOK, MemoryFits, verdict' = verdict, Here \in Plans,
         NEW o \in Objects, NEW picture, NEW can,
         mem' = [mem EXCEPT ![o] = picture], Here'.can = [Here.can EXCEPT ![o] = can],
         \A p \in Objects \ {o} : p \in Here'.like <=> p \in Here.like,
         Fits(picture, can, o \in Here'.like, verdict)
  PROVE  MemoryFits'
  <1>1. \A p \in Objects : /\ mem'[p] = IF p = o THEN picture ELSE mem[p]
                           /\ Here'.can[p] = IF p = o THEN can ELSE Here.can[p]
    BY PlanTypes DEF TypeOK
  <1>2. ASSUME NEW p \in Objects
        PROVE  Fits(mem'[p], Here'.can[p], p \in Here'.like, verdict)
    <2>1. CASE p = o BY <1>1, <2>1
    <2>2. CASE p # o BY <1>1, <2>2 DEF MemoryFits, Fits
    <2> QED BY <2>1, <2>2
  <1> QED BY <1>2 DEF MemoryFits, Fits

\* A step that leaves the file alone, and the plan of it.
LEMMA FileFrame ==
  ASSUME file' = file, verdict' = verdict, Here'.file = Here.file,
         Len(file) = Len(Here.file), \A k \in 1 .. Len(file) : file[k].part = Here.file[k].part
  PROVE  /\ Len(file') = Len(Here'.file)
         /\ \A k \in 1 .. Len(file') : file'[k].part = Here'.file[k].part
         /\ FileFits => FileFits'
  BY DEF FileFits, Fits

------------------------------------------------------------------------------
(* The steps of a program.                                                 *)

\* A step that makes or drops things: no picture moves.
LEMMA ObjectStep ==
  ASSUME TypeOK, AsPlanned, DoMake \/ DoDrop PROVE TypeOK' /\ AsPlanned'
  <1>1. /\ Now.do \in {"make", "drop"} /\ at <= Len(Script[prog]) /\ Advance /\ status = "running"
        /\ UNCHANGED <<prog, mem, busy, file, verdict, unnoticed, status>>
    BY DEF DoMake, DoDrop, Doing
  <1>2. /\ at' \in 1 .. Len(Script[prog]) + 1 /\ Here' \in Plans
        /\ Here'.alive = AliveAfter(Here, Now) /\ Here'.busy = BusyAfter(Here, Now)
        /\ Here'.can = CanAfter(Here, Now) /\ Here'.like = LikeAfter(Here, Now)
        /\ Here'.file = FileAfter(Here, Now)
    BY <1>1, PlanStep
  <1>3. /\ Here'.busy = Here.busy /\ Here'.can = Here.can /\ Here'.like = Here.like
        /\ Here'.file = Here.file
    BY <1>1, <1>2 DEF BusyAfter, CanAfter, LikeAfter, FileAfter, Fills
  <1>4. alive' = Here'.alive
    <2>1. alive = Here.alive BY <1>1 DEF AsPlanned
    <2> QED BY <1>2, <2>1 DEF DoMake, DoDrop, Doing, AliveAfter
  <1>5. TypeOK'
    <2>1. alive' \subseteq Objects BY <1>2, <1>4, PlanTypes
    <2> QED BY <1>1, <1>2, <2>1 DEF TypeOK
  <1>6. ~unnoticed => busy' = Here'.busy /\ MemoryFits' /\ FileFits'
    BY <1>1, <1>3, MemoryFrame, FileFrame DEF AsPlanned
  <1>7. /\ Len(file') = Len(Here'.file)
        /\ \A k \in 1 .. Len(file') : file'[k].part = Here'.file[k].part
    BY <1>1, <1>3, FileFrame DEF AsPlanned
  <1> QED BY <1>1, <1>4, <1>5, <1>6, <1>7 DEF AsPlanned

\* A step that puts a picture into one object, and moves nothing else.
LEMMA PictureStep ==
  ASSUME TypeOK, AsPlanned, status = "running", at <= Len(Script[prog]), Advance,
         UNCHANGED <<prog, file, verdict, status>>, NEW o \in Objects, NEW picture \in Pictures,
         alive' = Here'.alive, unnoticed' = unnoticed,
         ~unnoticed => busy' = Here'.busy,
         mem' = [mem EXCEPT ![o] = picture], Here'.file = Here.file,
         NEW can, Here'.can = [Here.can EXCEPT ![o] = can],
         \A p \in Objects \ {o} : p \in Here'.like <=> p \in Here.like,
         ~unnoticed => Fits(picture, can, o \in Here'.like, verdict)
  PROVE  TypeOK' /\ AsPlanned'
  <1>1. at' \in 1 .. Len(Script[prog]) + 1 /\ Here \in Plans /\ Here' \in Plans BY PlanStep
  <1>2. TypeOK'
    <2>1. alive' \subseteq Objects BY <1>1, PlanTypes
    <2>2. mem' \in [Objects -> Pictures] BY DEF TypeOK
    <2> QED BY <1>1, <2>1, <2>2 DEF TypeOK
  <1>3. ~unnoticed => busy' = Here'.busy /\ MemoryFits' /\ FileFits'
    BY <1>1, MemoryMoves, FileFrame DEF AsPlanned
  <1>4. /\ Len(file') = Len(Here'.file)
        /\ \A k \in 1 .. Len(file') : file'[k].part = Here'.file[k].part
    BY FileFrame DEF AsPlanned
  <1> QED BY <1>2, <1>3, <1>4 DEF AsPlanned

\* The program's own picture, which is what it claims.
LEMMA StoreStep ==
  ASSUME TypeOK, AsPlanned, DoStore PROVE TypeOK' /\ AsPlanned'
  <1>1. /\ Now.do = "store" /\ at <= Len(Script[prog]) /\ Advance /\ status = "running"
        /\ mem' = [mem EXCEPT ![Now.obj] = "own"]
        /\ UNCHANGED <<prog, alive, busy, file, verdict, unnoticed, status>>
    BY DEF DoStore, Doing
  <1>2. /\ StepOK(Now) /\ Here \in Plans
        /\ Here'.alive = AliveAfter(Here, Now) /\ Here'.busy = BusyAfter(Here, Now)
        /\ Here'.can = CanAfter(Here, Now) /\ Here'.like = LikeAfter(Here, Now)
        /\ Here'.file = FileAfter(Here, Now)
    BY <1>1, PlanStep
  <1>3. Now.obj \in Objects BY <1>1, <1>2 DEF StepOK, Fills
  <1>4. /\ Here'.alive = Here.alive /\ Here'.busy = Here.busy /\ Here'.file = Here.file
        /\ Here'.can = [Here.can EXCEPT ![Now.obj] = {"own"}]
        /\ Here'.like = Here.like \ {Now.obj}
    BY <1>1, <1>2 DEF AliveAfter, BusyAfter, CanAfter, LikeAfter, FileAfter, Fills
  <1>5. Fits("own", {"own"}, FALSE, verdict) BY DEF Fits
  <1> QED
    <2>1. PICK o \in Objects : o = Now.obj BY <1>3
    <2>2. "own" \in Pictures BY DEF Pictures
    <2>3. o \notin Here'.like BY <1>4, <2>1
    <2>4. Fits("own", {"own"}, o \in Here'.like, verdict) BY <2>3 DEF Fits
    <2> QED BY <1>1, <1>4, <2>1, <2>2, <2>4, PictureStep DEF AsPlanned

\* An import shows what the plan allows for.
LEMMA ImportStep ==
  ASSUME TypeOK, AsPlanned, DoImport PROVE TypeOK' /\ AsPlanned'
  <1>1. /\ Now.do = "import" /\ at <= Len(Script[prog]) /\ Advance /\ status = "running"
        /\ alive' = alive \cup {Now.to}
        /\ UNCHANGED <<prog, busy, file, verdict, unnoticed, status>>
    BY DEF DoImport, Doing
  <1>2. PICK picture : /\ picture \in {mem[Now.from], "luma", "other"}
                       /\ mem' = [mem EXCEPT ![Now.to] = picture]
    BY DEF DoImport
  <1>3. /\ StepOK(Now) /\ Here \in Plans
        /\ Here'.alive = AliveAfter(Here, Now) /\ Here'.busy = BusyAfter(Here, Now)
        /\ Here'.can = CanAfter(Here, Now) /\ Here'.like = LikeAfter(Here, Now)
        /\ Here'.file = FileAfter(Here, Now)
    BY <1>1, PlanStep
  <1>4. PICK o \in Objects, from \in Objects : o = Now.to /\ from = Now.from
    BY <1>1, <1>3 DEF StepOK, Fills
  <1> DEFINE can == Here.can[from] \cup {"luma", "other"}
  <1>5. /\ Here'.alive = Here.alive \cup {o} /\ Here'.busy = Here.busy /\ Here'.file = Here.file
        /\ Here'.can = [Here.can EXCEPT ![o] = can]
        /\ Here'.like = Here.like \ {o}
    BY <1>1, <1>3, <1>4 DEF AliveAfter, BusyAfter, CanAfter, LikeAfter, FileAfter, Fills
  <1>6. picture \in Pictures BY <1>2, <1>4 DEF TypeOK, Pictures
  <1>7. ~unnoticed => Fits(picture, can, o \in Here'.like, verdict)
    <2>1. ~unnoticed => mem[from] \in Here.can[from] BY DEF AsPlanned, MemoryFits, Fits
    <2>2. o \notin Here'.like BY <1>5
    <2> QED BY <1>2, <1>4, <2>1, <2>2 DEF Fits
  <1>8. alive' = Here'.alive BY <1>1, <1>4, <1>5 DEF AsPlanned
  <1>9. ~unnoticed => busy' = Here'.busy BY <1>1, <1>5 DEF AsPlanned
  <1>10. mem' = [mem EXCEPT ![o] = picture] BY <1>2, <1>4
  <1>11. \A p \in Objects \ {o} : p \in Here'.like <=> p \in Here.like BY <1>5
  <1> HIDE DEF can
  <1> QED BY <1>1, <1>5, <1>6, <1>7, <1>8, <1>9, <1>10, <1>11, PictureStep

\* A job leaves what it will write undefined.
LEMMA JobStep ==
  ASSUME TypeOK, AsPlanned, DoJob PROVE TypeOK' /\ AsPlanned'
  <1>1. /\ Now.do = "job" /\ at <= Len(Script[prog]) /\ Advance /\ status = "running"
        /\ busy' = busy \cup {Now.from, Now.to}
        /\ mem' = [mem EXCEPT ![Now.to] = "undefined"]
        /\ UNCHANGED <<prog, alive, file, verdict, unnoticed, status>>
    BY DEF DoJob, Doing
  <1>2. /\ StepOK(Now) /\ Here \in Plans
        /\ Here'.alive = AliveAfter(Here, Now) /\ Here'.busy = BusyAfter(Here, Now)
        /\ Here'.can = CanAfter(Here, Now) /\ Here'.like = LikeAfter(Here, Now)
        /\ Here'.file = FileAfter(Here, Now)
    BY <1>1, PlanStep
  <1>3. PICK o \in Objects : o = Now.to BY <1>1, <1>2 DEF StepOK, Fills
  <1>4. /\ Here'.alive = Here.alive /\ Here'.busy = Here.busy \cup {Now.from, Now.to}
        /\ Here'.file = Here.file
        /\ Here'.can = [Here.can EXCEPT ![o] = {"undefined"}]
        /\ Here'.like = Here.like \ {o}
    BY <1>1, <1>2, <1>3 DEF AliveAfter, BusyAfter, CanAfter, LikeAfter, FileAfter, Fills
  <1>5. o \notin Here'.like BY <1>4
  <1>6. Fits("undefined", {"undefined"}, o \in Here'.like, verdict) BY <1>5 DEF Fits
  <1>7. "undefined" \in Pictures BY DEF Pictures
  <1>8. ~unnoticed => busy' = Here'.busy BY <1>1, <1>4 DEF AsPlanned
  <1> QED BY <1>1, <1>3, <1>4, <1>6, <1>7, <1>8, PictureStep DEF AsPlanned

\* A picture that is moved on takes with it what is known of it.
LEMMA FillStep ==
  ASSUME TypeOK, AsPlanned, Now.do \in Fills, status = "running", at <= Len(Script[prog]), Advance,
         mem' = [mem EXCEPT ![Now.to] = mem[Now.from]],
         busy' = IF Now.do \in {"sync", "wait"} THEN busy \ {Now.from, Now.to} ELSE busy,
         UNCHANGED <<prog, alive, file, verdict, unnoticed, status>>
  PROVE  TypeOK' /\ AsPlanned'
  <1>1. /\ StepOK(Now) /\ Here \in Plans
        /\ Here'.alive = AliveAfter(Here, Now) /\ Here'.busy = BusyAfter(Here, Now)
        /\ Here'.can = CanAfter(Here, Now) /\ Here'.like = LikeAfter(Here, Now)
        /\ Here'.file = FileAfter(Here, Now)
    BY PlanStep
  <1>2. PICK o \in Objects, from \in Objects : o = Now.to /\ from = Now.from
    BY <1>1 DEF StepOK, Fills
  <1>3. PICK picture \in Pictures : picture = mem[from] BY DEF TypeOK
  <1>4. PICK can : can = Here.can[from] OBVIOUS
  <1>5. /\ Here'.alive = Here.alive /\ Here'.file = Here.file
        /\ Here'.busy =
              IF Now.do \in {"sync", "wait"} THEN Here.busy \ {Now.from, Now.to} ELSE Here.busy
        /\ Here'.can = [Here.can EXCEPT ![o] = can]
        /\ Here'.like = IF from \in Here.like THEN Here.like \cup {o} ELSE Here.like \ {o}
    BY <1>1, <1>2, <1>4 DEF AliveAfter, BusyAfter, CanAfter, LikeAfter, FileAfter, Fills
  <1>6. ~unnoticed => Fits(picture, can, o \in Here'.like, verdict)
    <2>1. o \in Here'.like <=> from \in Here.like BY <1>5
    <2> QED BY <1>3, <1>4, <2>1 DEF AsPlanned, MemoryFits, Fits
  <1>7. ~unnoticed => busy' = Here'.busy BY <1>5 DEF AsPlanned
  <1>8. \A p \in Objects \ {o} : p \in Here'.like <=> p \in Here.like BY <1>5
  <1>9. mem' = [mem EXCEPT ![o] = picture] BY <1>2, <1>3
  <1>10. alive' = Here'.alive BY <1>5 DEF AsPlanned
  <1>11. unnoticed' = unnoticed /\ Here'.file = Here.file BY <1>5
  <1>12. Here'.can = [Here.can EXCEPT ![o] = can] BY <1>5
  <1> QED BY <1>6, <1>7, <1>8, <1>9, <1>10, <1>11, <1>12, PictureStep

\* After a call that failed unnoticed no picture is vouched for any more.
LEMMA UnnoticedStep ==
  ASSUME TypeOK, AsPlanned, Now.do \in {"record", "wait", "ask"}, status = "running",
         at <= Len(Script[prog]), Advance, mem' \in [Objects -> Pictures], unnoticed',
         UNCHANGED <<prog, alive, file, verdict, status>>,
         unnoticed' \in BOOLEAN
  PROVE  TypeOK' /\ AsPlanned'
  <1>1. /\ at' \in 1 .. Len(Script[prog]) + 1 /\ Here' \in Plans
        /\ Here'.alive = AliveAfter(Here, Now) /\ Here'.file = FileAfter(Here, Now)
    BY PlanStep
  <1>2. Here'.alive = Here.alive /\ Here'.file = Here.file
    BY <1>1 DEF AliveAfter, FileAfter
  <1>3. /\ Len(file') = Len(Here'.file)
        /\ \A k \in 1 .. Len(file') : file'[k].part = Here'.file[k].part
    BY <1>2, FileFrame DEF AsPlanned
  <1>4. TypeOK' BY <1>1 DEF TypeOK
  <1> QED BY <1>2, <1>3, <1>4 DEF AsPlanned

\* vaSyncSurface, and a mapping that is read.
LEMMA SyncStep ==
  ASSUME TypeOK, AsPlanned, DoSync \/ DoCopy PROVE TypeOK' /\ AsPlanned'
  <1>1. /\ Now.do \in {"sync", "copy"} /\ at <= Len(Script[prog]) /\ Advance /\ status = "running"
        /\ mem' = [mem EXCEPT ![Now.to] = mem[Now.from]]
        /\ UNCHANGED <<prog, alive, file, verdict, unnoticed, status>>
    BY DEF DoSync, DoCopy, Doing
  <1>2. busy' = IF Now.do \in {"sync", "wait"} THEN busy \ {Now.from, Now.to} ELSE busy
    BY DEF DoSync, DoCopy, Doing
  <1>3. Now.do \in Fills BY <1>1 DEF Fills
  <1> QED BY <1>1, <1>2, <1>3, FillStep

\* The recording of a copy, and its failure.
LEMMA RecordStep ==
  ASSUME TypeOK, AsPlanned, DoRecord PROVE TypeOK' /\ AsPlanned'
  <1>1. /\ Now.do = "record" /\ at <= Len(Script[prog]) /\ Advance /\ status = "running"
        /\ UNCHANGED <<prog, alive, mem, busy, file, verdict, status>>
    BY DEF DoRecord, Doing
  <1>2. /\ unnoticed' \in BOOLEAN /\ mem' \in [Objects -> Pictures]
        /\ unnoticed' = unnoticed \/ unnoticed'
    BY <1>1 DEF DoRecord, TypeOK
  <1>3. CASE unnoticed' BY <1>1, <1>2, <1>3, UnnoticedStep
  <1>4. CASE unnoticed' = unnoticed
    <2>1. /\ at' \in 1 .. Len(Script[prog]) + 1
          /\ Here'.alive = AliveAfter(Here, Now) /\ Here'.busy = BusyAfter(Here, Now)
          /\ Here'.can = CanAfter(Here, Now) /\ Here'.like = LikeAfter(Here, Now)
          /\ Here'.file = FileAfter(Here, Now)
      BY <1>1, PlanStep
    <2>2. /\ Here'.alive = Here.alive /\ Here'.busy = Here.busy /\ Here'.can = Here.can
          /\ Here'.like = Here.like /\ Here'.file = Here.file
      BY <1>1, <2>1 DEF AliveAfter, BusyAfter, CanAfter, LikeAfter, FileAfter, Fills
    <2>3. TypeOK' BY <1>1, <1>2, <2>1 DEF TypeOK
    <2>4. ~unnoticed => busy' = Here'.busy /\ MemoryFits' /\ FileFits'
      BY <1>1, <2>2, MemoryFrame, FileFrame DEF AsPlanned
    <2>5. /\ Len(file') = Len(Here'.file)
          /\ \A k \in 1 .. Len(file') : file'[k].part = Here'.file[k].part
      BY <1>1, <2>2, FileFrame DEF AsPlanned
    <2> QED BY <1>1, <1>4, <2>2, <2>3, <2>4, <2>5 DEF AsPlanned
  <1> QED BY <1>2, <1>3, <1>4

\* The wait for the Vulkan queue, and its failure.
LEMMA WaitStep ==
  ASSUME TypeOK, AsPlanned, DoWait PROVE TypeOK' /\ AsPlanned'
  <1>1. /\ Now.do = "wait" /\ at <= Len(Script[prog]) /\ Advance /\ status = "running"
        /\ UNCHANGED <<prog, alive, file, verdict, status>>
    BY DEF DoWait, Doing
  <1>2. CASE /\ busy' = busy \ {Now.from, Now.to}
             /\ mem' = [mem EXCEPT ![Now.to] = mem[Now.from]]
             /\ UNCHANGED unnoticed
    <2>1. Now.do \in Fills BY <1>1 DEF Fills
    <2> QED BY <1>1, <1>2, <2>1, FillStep
  <1>3. CASE unnoticed' = TRUE /\ UNCHANGED <<mem, busy>>
    <2>1. mem' \in [Objects -> Pictures] BY <1>3 DEF TypeOK
    <2> QED BY <1>1, <1>3, <2>1, UnnoticedStep
  <1>4. CASE unnoticed /\ UNCHANGED <<mem, unnoticed>>
    <2>1. mem' \in [Objects -> Pictures] /\ unnoticed' /\ unnoticed' \in BOOLEAN
      BY <1>4 DEF TypeOK
    <2> QED BY <1>1, <2>1, UnnoticedStep
  <1> QED BY <1>2, <1>3, <1>4 DEF DoWait

\* The daemon's answer.
LEMMA AskStep ==
  ASSUME TypeOK, AsPlanned, DoAsk PROVE TypeOK' /\ AsPlanned'
  <1>1. /\ Now.do = "ask" /\ at <= Len(Script[prog]) /\ Advance /\ status = "running"
        /\ UNCHANGED <<prog, alive, busy, file, verdict, status>>
    BY DEF DoAsk, Doing
  <1>2. CASE mem' = [mem EXCEPT ![Now.to] = mem[Now.from]] /\ UNCHANGED unnoticed
    <2>1. Now.do \in Fills BY <1>1 DEF Fills
    <2> QED BY <1>1, <1>2, <2>1, FillStep
  <1>3. CASE mem' = [mem EXCEPT ![Now.to] = "undefined"] /\ unnoticed' = TRUE
    <2>1. mem' \in [Objects -> Pictures] BY <1>3 DEF TypeOK, Pictures
    <2> QED BY <1>1, <1>3, <2>1, UnnoticedStep
  <1> QED BY <1>2, <1>3 DEF DoAsk

\* Only the picture that was looked at is what the verdict says, from now on.
LEMMA LookStep ==
  ASSUME TypeOK, AsPlanned, DoLook PROVE TypeOK' /\ AsPlanned'
  <1>1. /\ Now.do = "look" /\ at <= Len(Script[prog]) /\ Advance /\ status = "running"
        /\ UNCHANGED <<prog, alive, mem, busy, file, unnoticed, status>>
    BY DEF DoLook, Doing
  <1>2. /\ StepOK(Now) /\ Here \in Plans /\ at' \in 1 .. Len(Script[prog]) + 1
        /\ Here'.alive = AliveAfter(Here, Now) /\ Here'.busy = BusyAfter(Here, Now)
        /\ Here'.can = CanAfter(Here, Now) /\ Here'.like = LikeAfter(Here, Now)
        /\ Here'.file = FileAfter(Here, Now)
    BY <1>1, PlanStep
  <1>3. PICK o \in Objects : o = Now.obj BY <1>1, <1>2 DEF StepOK, Fills
  <1>4. /\ Here'.alive = Here.alive /\ Here'.busy = Here.busy /\ Here'.can = Here.can
        /\ Here'.like = {o}
    BY <1>1, <1>2, <1>3 DEF AliveAfter, BusyAfter, CanAfter, LikeAfter, Fills
  <1>5. Here'.file = [k \in DOMAIN Here.file |-> [Here.file[k] EXCEPT !.like = FALSE]]
    BY <1>1, <1>2 DEF FileAfter
  <1>6. Here.file \in Seq([part : Sections, can : SUBSET Pictures, like : BOOLEAN])
    BY <1>2, PlanTypes
  <1>7. /\ Len(Here'.file) = Len(Here.file)
        /\ \A k \in 1 .. Len(Here.file) : /\ Here'.file[k].part = Here.file[k].part
                                          /\ Here'.file[k].can = Here.file[k].can
                                          /\ Here'.file[k].like = FALSE
    <2> DEFINE R == [part : Sections, can : SUBSET Pictures, like : BOOLEAN]
    <2>1. PICK f : f = Here.file OBVIOUS
    <2>2. PICK g : g = Here'.file OBVIOUS
    <2>3. f \in Seq(R) BY <1>6, <2>1
    <2>4. g = [k \in DOMAIN f |-> [f[k] EXCEPT !.like = FALSE]] BY <1>5, <2>1, <2>2
    <2>5. ASSUME NEW r \in R
          PROVE  /\ [r EXCEPT !.like = FALSE] \in R /\ [r EXCEPT !.like = FALSE].part = r.part
                 /\ [r EXCEPT !.like = FALSE].can = r.can
                 /\ [r EXCEPT !.like = FALSE].like = FALSE
      OBVIOUS
    <2>6. \A k \in 1 .. Len(f) : f[k] \in R
      <3> HIDE DEF R
      <3> QED BY <2>3
    <2>7. DOMAIN f = 1 .. Len(f) /\ Len(f) \in Nat
      <3> HIDE DEF R
      <3> QED BY <2>3
    <2>8. \A k \in 1 .. Len(f) : g[k] = [f[k] EXCEPT !.like = FALSE]
      <3> HIDE DEF R
      <3> QED BY <2>4, <2>7
    <2>9. DOMAIN g = 1 .. Len(f) BY <2>4, <2>7
    <2>10. \A k \in 1 .. Len(f) : /\ g[k] \in R /\ g[k].part = f[k].part /\ g[k].can = f[k].can
                                  /\ g[k].like = FALSE
      <3>1. TAKE k \in 1 .. Len(f)
      <3>2. PICK r \in R : r = f[k] BY <2>6
      <3>3. g[k] = [r EXCEPT !.like = FALSE] BY <2>8, <3>2
      <3> HIDE DEF R
      <3> QED BY <2>5, <3>2, <3>3
    <2>11. Len(g) = Len(f)
      <3> HIDE DEF R
      <3>1. g = [k \in 1 .. Len(f) |-> g[k]] BY <2>4, <2>7, <2>9
      <3>2. g \in Seq(R) BY <2>7, <2>10, <3>1
      <3> QED BY <2>7, <2>9, <3>2
    <2> QED BY <2>1, <2>2, <2>10, <2>11
  <1>8. verdict' \in {"skipped", IF mem[o] \in Shows THEN "pass" ELSE "fail"}
    BY <1>3 DEF DoLook, Shows
  <1>9. TypeOK' BY <1>1, <1>2, <1>8 DEF TypeOK
  <1>10. MemoryFits => MemoryFits'
    <2>1. SUFFICES ASSUME MemoryFits, NEW p \in Objects
                   PROVE  Fits(mem[p], Here.can[p], p = o, verdict')
      BY <1>1, <1>4 DEF MemoryFits
    <2>2. mem[p] \in Here.can[p] BY <2>1 DEF MemoryFits, Fits
    <2> QED BY <1>8, <2>2 DEF Fits
  <1>11. FileFits => FileFits'
    BY <1>1, <1>7 DEF FileFits, Fits, AsPlanned
  <1>12. /\ Len(file') = Len(Here'.file)
         /\ \A k \in 1 .. Len(file') : file'[k].part = Here'.file[k].part
    BY <1>1, <1>7 DEF AsPlanned
  <1> QED BY <1>1, <1>4, <1>9, <1>10, <1>11, <1>12 DEF AsPlanned

\* The file of the run before is emptied.
LEMMA OpenStep ==
  ASSUME TypeOK, AsPlanned, DoOpen PROVE TypeOK' /\ AsPlanned'
  <1>1. /\ Now.do = "open" /\ at <= Len(Script[prog]) /\ Advance /\ status = "running"
        /\ file' = << >>
        /\ UNCHANGED <<prog, alive, mem, busy, verdict, unnoticed, status>>
    BY DEF DoOpen, Doing
  <1>2. /\ at' \in 1 .. Len(Script[prog]) + 1 /\ Here' \in Plans
        /\ Here'.alive = AliveAfter(Here, Now) /\ Here'.busy = BusyAfter(Here, Now)
        /\ Here'.can = CanAfter(Here, Now) /\ Here'.like = LikeAfter(Here, Now)
        /\ Here'.file = FileAfter(Here, Now)
    BY <1>1, PlanStep
  <1>3. /\ Here'.alive = Here.alive /\ Here'.busy = Here.busy /\ Here'.can = Here.can
        /\ Here'.like = Here.like /\ Here'.file = << >>
    BY <1>1, <1>2 DEF AliveAfter, BusyAfter, CanAfter, LikeAfter, FileAfter, Fills
  <1>4. TypeOK' BY <1>1, <1>2 DEF TypeOK
  <1>5. FileFits' /\ Len(file') = Len(Here'.file) /\ 1 .. Len(file') = {}
    BY <1>1, <1>3 DEF FileFits
  <1>6. MemoryFits => MemoryFits' BY <1>1, <1>3, MemoryFrame
  <1> QED BY <1>1, <1>3, <1>4, <1>5, <1>6 DEF AsPlanned

\* What is written, whole or cut short, comes after what was.
LEMMA WriteStep ==
  ASSUME TypeOK, AsPlanned, DoWrite PROVE TypeOK' /\ AsPlanned'
  <1>1. /\ Now.do = "write" /\ at <= Len(Script[prog]) /\ Advance /\ status = "running"
        /\ UNCHANGED <<prog, alive, mem, busy, verdict, status>>
    BY DEF DoWrite, Doing
  <1>2. /\ StepOK(Now) /\ Here \in Plans /\ at' \in 1 .. Len(Script[prog]) + 1
        /\ Here'.alive = AliveAfter(Here, Now) /\ Here'.busy = BusyAfter(Here, Now)
        /\ Here'.can = CanAfter(Here, Now) /\ Here'.like = LikeAfter(Here, Now)
        /\ Here'.file = FileAfter(Here, Now)
    BY <1>1, PlanStep
  <1>3. PICK o \in Objects, name \in Sections : o = Now.obj /\ name = Now.part
    BY <1>1, <1>2 DEF StepOK, Fills
  <1>4. PICK picture \in Pictures :
          /\ file' = Append(file, Part(name, picture)) /\ unnoticed' \in BOOLEAN
          /\ ~unnoticed' => ~unnoticed /\ picture = mem[o]
    <2>1. CASE file' = Append(file, Part(name, mem[o])) /\ UNCHANGED unnoticed
      <3>1. mem[o] \in Pictures /\ unnoticed' \in BOOLEAN BY <2>1 DEF TypeOK
      <3> QED BY <2>1, <3>1
    <2>2. CASE file' = Append(file, Part(name, "short")) /\ unnoticed' = TRUE
      <3>1. "short" \in Pictures BY DEF Pictures
      <3> QED BY <2>2, <3>1
    <2> QED BY <1>3, <2>1, <2>2 DEF DoWrite
  <1>5. PICK new : new = [part |-> name, can |-> Here.can[o], like |-> o \in Here.like] OBVIOUS
  <1>6. /\ Here'.alive = Here.alive /\ Here'.busy = Here.busy /\ Here'.can = Here.can
        /\ Here'.like = Here.like /\ Here'.file = Append(Here.file, new)
    BY <1>1, <1>2, <1>3, <1>5 DEF AliveAfter, BusyAfter, CanAfter, LikeAfter, FileAfter, Fills
  <1>7. PICK part : part = Part(name, picture) OBVIOUS
  <1>8. /\ part \in [part : Sections, of : Pictures] /\ part.part = name /\ part.of = picture
        /\ new \in [part : Sections, can : SUBSET Pictures, like : BOOLEAN]
        /\ new.part = name /\ new.can = Here.can[o] /\ new.like = (o \in Here.like)
    BY <1>2, <1>5, <1>7, PlanTypes DEF Part
  <1>9. /\ file \in Seq([part : Sections, of : Pictures]) /\ file' = Append(file, part)
        /\ Here.file \in Seq([part : Sections, can : SUBSET Pictures, like : BOOLEAN])
    BY <1>2, <1>4, <1>7, PlanTypes DEF TypeOK
  <1>10. PICK f, g : f = file /\ g = Here.file OBVIOUS
  <1>11. /\ Len(f) \in Nat /\ Len(g) = Len(f)
         /\ \A k \in 1 .. Len(f) : f[k].part = g[k].part
    BY <1>9, <1>10 DEF AsPlanned
  <1>12. /\ file' \in Seq([part : Sections, of : Pictures]) /\ Len(file') = Len(f) + 1
         /\ \A k \in 1 .. Len(f) + 1 : file'[k] = IF k = Len(f) + 1 THEN part ELSE f[k]
    BY <1>8, <1>9, <1>10
  <1>13. /\ Len(Here'.file) = Len(f) + 1
         /\ \A k \in 1 .. Len(f) + 1 : Here'.file[k] = IF k = Len(f) + 1 THEN new ELSE g[k]
    BY <1>6, <1>8, <1>9, <1>10, <1>11
  <1>14. TypeOK' BY <1>1, <1>2, <1>4, <1>12 DEF TypeOK
  <1>15. /\ Len(file') = Len(Here'.file)
         /\ \A k \in 1 .. Len(file') : file'[k].part = Here'.file[k].part
    BY <1>8, <1>11, <1>12, <1>13
  <1>16. ~unnoticed' => busy' = Here'.busy /\ MemoryFits'
    BY <1>1, <1>4, <1>6, MemoryFrame DEF AsPlanned
  <1>17. ~unnoticed' => FileFits'
    <2>1. SUFFICES ASSUME ~unnoticed', NEW k \in 1 .. Len(f) + 1
                   PROVE  Fits(file'[k].of, Here'.file[k].can, Here'.file[k].like, verdict)
      BY <1>1, <1>12 DEF FileFits
    <2>2. CASE k = Len(f) + 1
      <3>1. Fits(picture, Here.can[o], o \in Here.like, verdict)
        BY <1>4, <2>1 DEF AsPlanned, MemoryFits
      <3> QED BY <1>8, <1>12, <1>13, <2>2, <3>1 DEF Fits
    <2>3. CASE k # Len(f) + 1
      <3>1. Fits(f[k].of, g[k].can, g[k].like, verdict)
        BY <1>4, <1>10, <1>11, <2>1, <2>3 DEF AsPlanned, FileFits
      <3> QED BY <1>11, <1>12, <1>13, <2>3, <3>1
    <2> QED BY <2>2, <2>3
  <1> QED BY <1>1, <1>6, <1>14, <1>15, <1>16, <1>17 DEF AsPlanned

\* A program that ends, at a call that failed or at the end of its table.
LEMMA EndStep ==
  ASSUME TypeOK, AsPlanned, Fail \/ Return PROVE TypeOK' /\ AsPlanned'
  <1>1. UNCHANGED <<prog, at, mem, busy, file, verdict, unnoticed>> BY DEF Fail, Return
  <1>2. /\ status' \in {"success", "failure"} /\ alive' \subseteq Objects
        /\ status' # "failure" =>
              status = "running" /\ alive' = alive /\ at > Len(Script[prog])
    BY DEF Fail, Return, TypeOK
  <1>3. Here' = Here BY <1>1 DEF Here
  <1>4. TypeOK' BY <1>1, <1>2 DEF TypeOK
  <1>5. (MemoryFits => MemoryFits') /\ (FileFits => FileFits')
    BY <1>1, <1>3 DEF MemoryFits, FileFits, Fits
  <1>6. status' = "success" => at' = Len(Script[prog]') + 1
    <2>1. Len(Script[prog]) \in Nat BY PlanAssumption DEF TypeOK
    <2> QED BY <1>1, <1>2, <2>1 DEF TypeOK
  <1> QED BY <1>1, <1>2, <1>3, <1>4, <1>5, <1>6 DEF AsPlanned

------------------------------------------------------------------------------
(* All runs.                                                               *)

Inv == TypeOK /\ AsPlanned /\ NeverAnswered

\* A program starts with nothing but the file of an earlier run.
LEMMA InitInv == ASSUME Init PROVE Inv
  <1>1. /\ prog \in DOMAIN Script /\ Len(Script[prog]) \in Nat /\ Plan[prog][1] = Start
        /\ DOMAIN Script[prog] = 1 .. Len(Script[prog])
    BY PlanAssumption DEF Init
  <1>2. Here = Start BY <1>1 DEF Here, Init
  <1>3. /\ Here.alive = {} /\ Here.busy = {} /\ Here.like = {}
        /\ Here.can = [o \in Objects |-> {"undefined"}]
        /\ Here.file = <<[part |-> "old", can |-> {"other"}, like |-> FALSE]>>
    BY <1>2 DEF Start
  <1>4. TypeOK
    <2>1. "other" \in Pictures /\ "undefined" \in Pictures BY DEF Pictures
    <2>2. Part("old", "other") \in [part : Sections, of : Pictures]
      <3>1. "old" \in Sections BY DEF Sections
      <3> QED BY <2>1, <3>1 DEF Part
    <2>3. file \in Seq([part : Sections, of : Pictures]) BY <2>2 DEF Init
    <2>4. mem \in [Objects -> Pictures] BY <2>1 DEF Init
    <2>5. at \in 1 .. Len(Script[prog]) + 1 /\ prog \in DOMAIN Script BY <1>1 DEF Init
    <2>6. alive \subseteq Objects /\ verdict = "none" /\ unnoticed = FALSE /\ status = "running"
      BY DEF Init
    <2> QED BY <2>3, <2>4, <2>5, <2>6 DEF TypeOK
  <1>5. MemoryFits BY <1>3 DEF MemoryFits, Fits, Init
  <1>6. /\ Len(file) = 1 /\ file[1].part = "old" /\ file[1].of = "other"
        /\ Len(Here.file) = 1 /\ Here.file[1].part = "old" /\ Here.file[1].can = {"other"}
        /\ Here.file[1].like = FALSE
    BY <1>3 DEF Init, Part
  <1>7. FileFits BY <1>6 DEF FileFits, Fits
  <1>8. AsPlanned BY <1>3, <1>5, <1>6, <1>7 DEF AsPlanned, Init
  <1>9. NeverAnswered BY <1>1 DEF NeverAnswered, Init
  <1> QED BY <1>4, <1>8, <1>9 DEF Inv

\* Nobody gets past a request without a tag.
LEMMA AnswerStep == ASSUME TypeOK, NeverAnswered, [Next]_vars PROVE NeverAnswered'
  <1>1. /\ DOMAIN Script[prog] = 1 .. Len(Script[prog]) /\ Len(Script[prog]) \in Nat
        /\ at \in Nat
    BY PlanAssumption DEF TypeOK
  <1>2. prog' = prog /\ (at' = at \/ (at' = at + 1 /\ ~AsksUntagged(Now)))
    <2>1. CASE UNCHANGED vars
      <3>1. prog' = prog /\ at' = at BY <2>1 DEF vars
      <3> QED BY <3>1
    <2>2. CASE DoMake \/ DoDrop \/ DoStore \/ DoImport \/ DoLook \/ DoJob
      <3>1. prog' = prog /\ at' = at + 1
        BY <2>2 DEF DoMake, DoDrop, DoStore, DoImport, DoLook, DoJob, Advance
      <3>2. Now.do # "ask"
        BY <2>2 DEF DoMake, DoDrop, DoStore, DoImport, DoLook, DoJob, Doing
      <3> QED BY <3>1, <3>2 DEF AsksUntagged
    <2>3. CASE DoSync \/ DoRecord \/ DoWait \/ DoCopy \/ DoOpen \/ DoWrite
      <3>1. prog' = prog /\ at' = at + 1
        BY <2>3 DEF DoSync, DoRecord, DoWait, DoCopy, DoOpen, DoWrite, Advance
      <3>2. Now.do # "ask"
        BY <2>3 DEF DoSync, DoRecord, DoWait, DoCopy, DoOpen, DoWrite, Doing
      <3> QED BY <3>1, <3>2 DEF AsksUntagged
    <2>4. CASE DoAsk BY <2>4 DEF DoAsk, Advance, AsksUntagged
    <2>5. CASE Fail \/ Return
      <3>1. prog' = prog /\ at' = at BY <2>5 DEF Fail, Return
      <3> QED BY <3>1
    <2> QED BY <2>1, <2>2, <2>3, <2>4, <2>5 DEF Next
  <1> SUFFICES ASSUME NEW k \in DOMAIN Script[prog], AsksUntagged(Script[prog][k])
               PROVE  at' <= k
    BY <1>2 DEF NeverAnswered
  <1>3. at <= k BY DEF NeverAnswered
  <1>4. at = k => at' = at BY <1>2 DEF Now
  <1> QED BY <1>1, <1>2, <1>3, <1>4

\* Every step goes by the plan.
LEMMA NextInv == ASSUME Inv, [Next]_vars PROVE Inv'
  <1> USE DEF Inv
  <1>1. CASE UNCHANGED vars
    <2>1. Here' = Here BY <1>1 DEF vars, Here
    <2>2. (MemoryFits => MemoryFits') /\ (FileFits => FileFits')
      BY <1>1, <2>1 DEF vars, MemoryFits, FileFits, Fits
    <2>3. AsPlanned' BY <1>1, <2>1, <2>2 DEF vars, AsPlanned
    <2>4. TypeOK' BY <1>1 DEF vars, TypeOK
    <2> QED BY <2>3, <2>4, AnswerStep
  <1>2. CASE DoMake \/ DoDrop BY <1>2, ObjectStep, AnswerStep
  <1>3. CASE DoStore BY <1>3, StoreStep, AnswerStep
  <1>4. CASE DoImport BY <1>4, ImportStep, AnswerStep
  <1>5. CASE DoLook BY <1>5, LookStep, AnswerStep
  <1>6. CASE DoJob BY <1>6, JobStep, AnswerStep
  <1>7. CASE DoSync \/ DoCopy BY <1>7, SyncStep, AnswerStep
  <1>8. CASE DoRecord \/ DoWait BY <1>8, RecordStep, WaitStep, AnswerStep
  <1>9. CASE DoAsk BY <1>9, AskStep, AnswerStep
  <1>10. CASE DoOpen BY <1>10, OpenStep, AnswerStep
  <1>11. CASE DoWrite BY <1>11, WriteStep, AnswerStep
  <1>12. CASE Fail \/ Return BY <1>12, EndStep, AnswerStep
  <1> QED BY <1>1, <1>2, <1>3, <1>4, <1>5, <1>6, <1>7, <1>8, <1>9, <1>10, <1>11, <1>12 DEF Next

\* Whatever fails, a program goes by its plan as far as it gets, and one that sends its
\* request without a tag gets no further than that.
THEOREM SpikesInvariance == Spec => [](TypeOK /\ AsPlanned /\ NeverAnswered)
  <1>1. Init => Inv BY InitInv
  <1>2. Inv /\ [Next]_vars => Inv' BY NextInv
  <1>3. Inv => TypeOK /\ AsPlanned /\ NeverAnswered BY DEF Inv
  <1> QED BY <1>1, <1>2, <1>3, PTL DEF Spec

------------------------------------------------------------------------------
(* What it comes to.                                                       *)

\* The file has the parts the plan says.
LEMMA PartsAsPlanned ==
  ASSUME TypeOK, AsPlanned
  PROVE  /\ Parts = PartNames(Here.file) /\ DOMAIN file = 1 .. Len(file)
         /\ DOMAIN Here.file = 1 .. Len(file)
  <1>1. Here \in Plans BY PlanAssumption DEF TypeOK, Here
  <1>2. Here.file \in Seq([part : Sections, can : SUBSET Pictures, like : BOOLEAN])
    BY <1>1, PlanTypes
  <1>3. DOMAIN Here.file = 1 .. Len(Here.file) BY <1>2
  <1>4. DOMAIN file = 1 .. Len(file) BY DEF TypeOK
  <1>5. /\ DOMAIN Here.file = DOMAIN file
        /\ \A k \in DOMAIN file : file[k].part = Here.file[k].part
    BY <1>3, <1>4 DEF AsPlanned
  <1>6. Parts = [k \in DOMAIN file |-> Here.file[k].part] BY <1>5 DEF Parts, PartNames
  <1>7. PartNames(Here.file) = [k \in DOMAIN file |-> Here.file[k].part]
    BY <1>5 DEF PartNames
  <1> QED BY <1>4, <1>5, <1>6, <1>7

\* What is saved is what the plan has there, unless a call failed unnoticed.
LEMMA SavedAsPlanned ==
  ASSUME TypeOK, AsPlanned, ~unnoticed
  PROVE  \A k \in DOMAIN file : /\ file[k].of \in Pictures
                                /\ Fits(file[k].of, Here.file[k].can, Here.file[k].like, verdict)
  <1>1. FileFits BY DEF AsPlanned
  <1>2. \A k \in 1 .. Len(file) : file[k].of \in Pictures
    <2>1. PICK R : R = [part : Sections, of : Pictures] OBVIOUS
    <2>2. file \in Seq(R) BY <2>1 DEF TypeOK
    <2>3. \A k \in 1 .. Len(file) : file[k] \in R BY <2>2
    <2> QED BY <2>1, <2>3
  <1> QED BY <1>1, <1>2, PartsAsPlanned DEF FileFits

\* Where the plan stands, and what is right about it.
LEMMA PlanInOrder ==
  ASSUME TypeOK
  PROVE  /\ Len(Script[prog]) \in Nat /\ DOMAIN Script[prog] = 1 .. Len(Script[prog])
         /\ at = Len(Script[prog]) + 1 => EndsAsClaimed(prog, Here)
         /\ IsBeginning(PartNames(Here.file), prog)
         /\ \A k \in DOMAIN Here.file : "undefined" \notin Here.file[k].can
         /\ \A k \in DOMAIN Script[prog] :
               AsksUntagged(Script[prog][k]) /\ at <= k => PartNames(Here.file) = <<"old">>
  <1>1. Len(Script[prog]) \in Nat /\ DOMAIN Script[prog] = 1 .. Len(Script[prog])
    BY PlanAssumption DEF TypeOK
  <1>2. at = Len(Script[prog]) + 1 => EndsAsClaimed(prog, Here)
    BY TablesInOrder DEF TypeOK, Here
  <1>3. /\ IsBeginning(PartNames(Here.file), prog)
        /\ \A k \in DOMAIN Here.file : "undefined" \notin Here.file[k].can
    BY TablesInOrder DEF TypeOK, Here
  <1>4. ASSUME NEW k \in DOMAIN Script[prog], AsksUntagged(Script[prog][k]), at <= k
        PROVE  PartNames(Here.file) = <<"old">>
    <2>1. at \in 1 .. k BY <1>1, <1>4 DEF TypeOK
    <2> QED BY <1>4, <2>1, TablesInOrder DEF TypeOK, Here
  <1> QED BY <1>1, <1>2, <1>3, <1>4

\* What a person at the terminal concludes from exit status and verdict is so, in every
\* run of every program, whichever of its calls fail.
THEOREM OutputIsAsClaimed == Spec => []OutputIsWhatItClaims
  <1>1. ASSUME Inv PROVE OutputIsWhatItClaims
    <2> USE DEF Inv
    <2>1. Parts = PartNames(Here.file) /\ DOMAIN Here.file = DOMAIN file
      BY <1>1, PartsAsPlanned
    <2>2. ASSUME status = "success"
          PROVE  /\ Parts = PartsOf(prog)
                 /\ ~unnoticed /\ prog \notin {"import", "gralloc"} => Saved({"own"})
                 /\ ~unnoticed /\ prog = "import" =>
                      /\ verdict = "pass" => Saved({"own", "luma"})
                      /\ verdict = "fail" => Saved({"other"})
      <3>1. EndsAsClaimed(prog, Here) BY <1>1, <2>2, PlanInOrder DEF AsPlanned
      <3>2. Parts = PartsOf(prog) BY <2>1, <3>1 DEF EndsAsClaimed
      <3>3. ~unnoticed /\ prog \notin {"import", "gralloc"} => Saved({"own"})
        BY <1>1, <2>1, <3>1, SavedAsPlanned DEF EndsAsClaimed, Saved, Fits
      <3>4. ASSUME ~unnoticed, prog = "import"
            PROVE  /\ verdict = "pass" => Saved({"own", "luma"})
                   /\ verdict = "fail" => Saved({"other"})
        <4>1. \A k \in DOMAIN file :
                 /\ file[k].of \in {"own", "luma", "other"}
                 /\ verdict = "pass" => file[k].of \in Shows
                 /\ verdict = "fail" => file[k].of \notin Shows
          BY <1>1, <2>1, <3>1, <3>4, SavedAsPlanned DEF EndsAsClaimed, Fits
        <4> QED BY <4>1 DEF Saved, Shows
      <3> QED BY <3>2, <3>3, <3>4
    <2>3. IsBeginning(Parts, prog) BY <1>1, <2>1, PlanInOrder
    <2>4. ~unnoticed => Saved(Pictures \ {"undefined"})
      BY <1>1, <2>1, PlanInOrder, SavedAsPlanned DEF Saved, Fits
    <2>5. ASSUME prog \in Untagged PROVE Parts = <<"old">> /\ status # "success"
      <3>1. PICK k \in DOMAIN Script[prog] : AsksUntagged(Script[prog][k])
        BY <2>5 DEF Untagged
      <3>2. at <= k BY <1>1, <3>1 DEF NeverAnswered
      <3>3. Parts = <<"old">> BY <1>1, <2>1, <3>1, <3>2, PlanInOrder
      <3>4. at # Len(Script[prog]) + 1 BY <1>1, <3>1, <3>2, PlanInOrder
      <3> QED BY <1>1, <3>3, <3>4 DEF AsPlanned
    <2> QED BY <2>2, <2>3, <2>4, <2>5 DEF OutputIsWhatItClaims
  <1>2. [](TypeOK /\ AsPlanned /\ NeverAnswered) => []Inv BY PTL DEF Inv
  <1>3. Inv => OutputIsWhatItClaims BY <1>1
  <1> QED BY <1>2, <1>3, SpikesInvariance, PTL

\* What a program has is taken down once, top first, when the GPU is done with it, and
\* nothing of it is left to the kernel that may not be.
THEOREM EverythingTornDownInOrder == Spec => TornDownInOrder
  <1>1. ASSUME Inv, Inv', Next, Doing("drop"), status' = "running"
        PROVE  /\ Now.obj \in alive
               /\ \A o \in alive \ alive' :
                     /\ o \in busy => unnoticed
                     /\ \A p \in alive' : o \notin Under[p]
    <2> USE DEF Inv
    <2>1. /\ Len(Script[prog]) \in Nat /\ DOMAIN Script[prog] = 1 .. Len(Script[prog])
          /\ at \in 1 .. Len(Script[prog])
      BY <1>1, PlanInOrder DEF TypeOK, Doing
    <2>2. Advance /\ prog' = prog
      BY <1>1 DEF Next, DoMake, DoDrop, DoStore, DoImport, DoLook, DoJob, DoSync, DoRecord, DoWait,
                  DoCopy, DoAsk, DoOpen, DoWrite, Fail, Return
    <2>3. GoesInOrder(Now.obj, Here, Here')
      <3>1. Here' = Plan[prog][at + 1] BY <2>2 DEF Here, Advance
      <3>2. GoesInOrder(Script[prog][at].obj, Plan[prog][at], Plan[prog][at + 1])
        BY <1>1, <2>1, TablesInOrder DEF TypeOK, Doing, Now
      <3> QED BY <3>1, <3>2 DEF Here, Now
    <2>4. alive = Here.alive /\ alive' = Here'.alive BY <1>1 DEF AsPlanned, Doing
    <2>5. ~unnoticed => busy = Here.busy BY <1>1 DEF AsPlanned
    <2> QED BY <2>3, <2>4, <2>5 DEF GoesInOrder
  <1>2. ASSUME Inv, Next, status' = "success" PROVE Released(prog, alive)
    <2> USE DEF Inv
    <2>1. status # "failure" /\ (status = "success" \/ Return)
      BY <1>2 DEF Next, DoMake, DoDrop, DoStore, DoImport, DoLook, DoJob, DoSync, DoRecord, DoWait,
                  DoCopy, DoAsk, DoOpen, DoWrite, Fail, Return, Doing
    <2>2. Len(Script[prog]) \in Nat BY <1>2, PlanInOrder
    <2>3. at = Len(Script[prog]) + 1
      BY <1>2, <2>1, <2>2 DEF AsPlanned, Return, TypeOK
    <2>4. EndsAsClaimed(prog, Here) BY <1>2, <2>3, PlanInOrder
    <2> QED BY <1>2, <2>1, <2>4 DEF EndsAsClaimed, AsPlanned
  <1>3. [](TypeOK /\ AsPlanned /\ NeverAnswered) => []Inv BY PTL DEF Inv
  <1>4. ASSUME Inv, Inv', [Next]_vars
        PROVE  [/\ Doing("drop") /\ status' = "running" =>
                      /\ Now.obj \in alive
                      /\ \A o \in alive \ alive' :
                            /\ o \in busy => unnoticed
                            /\ \A p \in alive' : o \notin Under[p]
                /\ status' = "success" => Released(prog, alive)]_vars
    BY <1>1, <1>2, <1>4
  <1> QED BY <1>3, <1>4, SpikesInvariance, PTL DEF Spec, TornDownInOrder

==============================================================================
