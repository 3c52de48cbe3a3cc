------------------------------- MODULE OneShot -------------------------------
(***************************************************************************)
(* A program that runs once: it builds objects on a GPU, has a picture     *)
(* encoded or decoded, by the GPU or by the daemon, writes the result to a *)
(* file, takes down what it built and exits.  Every call that is checked   *)
(* (CHECK_VA, vk_check, an if) ends the process with status 1 when it      *)
(* fails, and the kernel releases the rest.  A few calls are not checked.  *)
(*                                                                         *)
(* What a program does is a table, Script[p]; a step names what it does    *)
(* and to which objects.  The GPU works on its own: from the submission of *)
(* a job until it has been waited for, what it writes is undefined.        *)
(***************************************************************************)
EXTENDS Integers, Sequences

CONSTANTS
    Script,     \* for each program its steps
    Objects,    \* descriptors, memory, surfaces, contexts, images
    Under,      \* what each object is built on and must not outlive
    OwnedBy,    \* for each object, those that are destroyed together with it
    Plan        \* for each program, what each of its steps should find: see below

ASSUME OneShotAssumption ==
    /\ Under \in [Objects -> SUBSET Objects]
    /\ OwnedBy \in [Objects -> SUBSET Objects]

VARIABLES
    prog,       \* the program
    at,         \* its next step
    alive,      \* the objects it has
    mem,        \* whose picture is in each of them
    busy,       \* the objects a job may still write
    file,       \* the parts of the output file, "old" as an earlier run left it
    verdict,    \* what it printed about an import
    unnoticed,  \* a call that is not checked has failed
    status      \* "running", or "success" or "failure" as it exits

vars == <<prog, at, alive, mem, busy, file, verdict, unnoticed, status>>

\* "own": the picture of this run; "luma": its luma with some other chroma;
\* "other": something else; "undefined"; "short": not written to its end.
Pictures == {"own", "luma", "other", "undefined", "short"}

\* What a file may have in it.
Sections == {"old", "stream", "frame", "luma", "chroma"}

Make(objs)       == [do |-> "make", objs |-> objs]
Drop(obj)        == [do |-> "drop", obj |-> obj]
Store(obj)       == [do |-> "store", obj |-> obj]
Import(from, to) == [do |-> "import", from |-> from, to |-> to]
Look(obj)        == [do |-> "look", obj |-> obj]
Job(from, to)    == [do |-> "job", from |-> from, to |-> to]
Sync(from, to)   == [do |-> "sync", from |-> from, to |-> to]
Record           == [do |-> "record"]
Wait(from, to)   == [do |-> "wait", from |-> from, to |-> to]
Copy(from, to)   == [do |-> "copy", from |-> from, to |-> to]
Ask(tagged, from, to) == [do |-> "ask", tagged |-> tagged, from |-> from, to |-> to]
OpenFile         == [do |-> "open"]
Call             == Make({})        \* a checked call, or a run of them
Write(part, obj) == [do |-> "write", part |-> part, obj |-> obj]

Part(name, picture) == [part |-> name, of |-> picture]

Now == Script[prog][at]
Doing(what) == status = "running" /\ at <= Len(Script[prog]) /\ Now.do = what
Advance == at' = at + 1

Init ==
    /\ prog \in DOMAIN Script
    /\ at = 1 /\ alive = {}
    /\ mem = [o \in Objects |-> "undefined"]
    /\ busy = {} /\ file = <<Part("old", "other")>> /\ verdict = "none"
    /\ unnoticed = FALSE /\ status = "running"

\* Fault: the result of a call that creates something is not looked at.
DoMakeUnchecked ==
    /\ Doing("make") /\ Advance
    /\ alive' \in {alive, alive \cup Now.objs}
    /\ UNCHANGED <<prog, mem, busy, file, verdict, unnoticed, status>>

\* Calls that create objects, or use them without changing a picture.
DoMake ==
    /\ Doing("make") /\ Advance
    /\ alive' = alive \cup Now.objs
    /\ UNCHANGED <<prog, mem, busy, file, verdict, unnoticed, status>>

DoDrop ==
    /\ Doing("drop") /\ Advance
    /\ alive' = alive \ ({Now.obj} \cup OwnedBy[Now.obj])
    /\ UNCHANGED <<prog, mem, busy, file, verdict, unnoticed, status>>

\* The program's own picture is written through a mapping, by the CPU.
DoStore ==
    /\ Doing("store") /\ Advance
    /\ mem' = [mem EXCEPT ![Now.obj] = "own"]
    /\ UNCHANGED <<prog, alive, busy, file, verdict, unnoticed, status>>

\* The driver takes foreign memory for a surface and shows what is in it, or takes
\* its second plane from the wrong place, or shows something else altogether.
DoImport ==
    /\ Doing("import") /\ Advance
    /\ alive' = alive \cup {Now.to}
    /\ \E shown \in {mem[Now.from], "other"}
                       \cup IF mem[Now.from] = "own" THEN {"luma"} ELSE {} :
          mem' = [mem EXCEPT ![Now.to] = shown]
    /\ UNCHANGED <<prog, busy, file, verdict, unnoticed, status>>

\* The surface is derived, mapped and looked at; a driver need not be able to.
DoLook ==
    /\ Doing("look") /\ Advance
    /\ verdict' \in {"skipped", IF mem[Now.obj] \in {"own", "luma"} THEN "pass" ELSE "fail"}
    /\ UNCHANGED <<prog, alive, mem, busy, file, unnoticed, status>>

\* vaEndPicture, vkQueueSubmit.
DoJob ==
    /\ Doing("job") /\ Advance
    /\ busy' = busy \cup {Now.from, Now.to}
    /\ mem' = [mem EXCEPT ![Now.to] = "undefined"]
    /\ UNCHANGED <<prog, alive, file, verdict, unnoticed, status>>

\* Fault: CHECK_VA is missing around vaSyncSurface, which fails.
DoSyncUnchecked ==
    /\ Doing("sync") /\ Advance
    /\ \/ /\ busy' = busy \ {Now.from, Now.to}
          /\ mem' = [mem EXCEPT ![Now.to] = mem[Now.from]]
       \/ UNCHANGED <<mem, busy>>
    /\ UNCHANGED <<prog, alive, file, verdict, unnoticed, status>>

\* vaSyncSurface.
DoSync ==
    /\ Doing("sync") /\ Advance
    /\ busy' = busy \ {Now.from, Now.to}
    /\ mem' = [mem EXCEPT ![Now.to] = mem[Now.from]]
    /\ UNCHANGED <<prog, alive, file, verdict, unnoticed, status>>

\* vkBeginCommandBuffer and vkEndCommandBuffer, whose results nobody reads.
DoRecord ==
    /\ Doing("record") /\ Advance
    /\ unnoticed' \in {unnoticed, TRUE}
    /\ UNCHANGED <<prog, alive, mem, busy, file, verdict, status>>

\* vkQueueWaitIdle, whose result nobody reads.  What is not there in spite of it, when
\* the commands were not recorded as they should be, or were still being executed as
\* they were recorded again, is undefined; which call failed is not kept.
DoWait ==
    /\ Doing("wait") /\ Advance
    /\ \/ /\ busy' = busy \ {Now.from, Now.to}
          /\ mem' = [mem EXCEPT ![Now.to] = mem[Now.from]]
          /\ UNCHANGED unnoticed
       \/ unnoticed' = TRUE /\ UNCHANGED <<mem, busy>>
       \/ unnoticed /\ busy' = busy \ {Now.from, Now.to} /\ UNCHANGED <<mem, unnoticed>>
    /\ UNCHANGED <<prog, alive, file, verdict, status>>

\* A mapping is made and read.
DoCopy ==
    /\ Doing("copy") /\ Advance
    /\ mem' = [mem EXCEPT ![Now.to] = mem[Now.from]]
    /\ UNCHANGED <<prog, alive, busy, file, verdict, unnoticed, status>>

\* The daemon is sent a request and answers it with its own picture (AnswersAreOwn,
\* EncodesOwnFrame, ReturnsOwnFrame), or with an undefined one when a call failed
\* that it does not check.  Who sends no command tag gets no answer at all.
DoAsk ==
    /\ Doing("ask") /\ Now.tagged /\ Advance
    /\ \/ mem' = [mem EXCEPT ![Now.to] = mem[Now.from]] /\ UNCHANGED unnoticed
       \/ mem' = [mem EXCEPT ![Now.to] = "undefined"] /\ unnoticed' = TRUE
    /\ UNCHANGED <<prog, alive, busy, file, verdict, status>>

\* fopen("wb") empties the file of the run before.
DoOpen ==
    /\ Doing("open") /\ Advance
    /\ file' = <<>>
    /\ UNCHANGED <<prog, alive, mem, busy, verdict, unnoticed, status>>

\* fwrite, whose result nobody reads.
DoWrite ==
    /\ Doing("write") /\ Advance
    /\ \/ file' = Append(file, Part(Now.part, mem[Now.obj])) /\ UNCHANGED unnoticed
       \/ file' = Append(file, Part(Now.part, "short")) /\ unnoticed' = TRUE
    /\ UNCHANGED <<prog, alive, mem, busy, verdict, status>>

Checked == {"make", "import", "look", "job", "sync", "copy", "ask", "open"}

\* A call fails.  The test clients do not check fopen; fwrite to NULL ends them.
Fail ==
    /\ \E what \in Checked : Doing(what)
    /\ status' = "failure" /\ alive' = {}
    /\ UNCHANGED <<prog, at, mem, busy, file, verdict, unnoticed>>

Return ==
    /\ status = "running" /\ at > Len(Script[prog])
    /\ status' = "success"
    /\ UNCHANGED <<prog, at, alive, mem, busy, file, verdict, unnoticed>>

Next ==
    \/ DoMake \/ DoDrop \/ DoStore \/ DoImport \/ DoLook \/ DoJob \/ DoSync
    \/ DoRecord \/ DoWait \/ DoCopy \/ DoAsk \/ DoOpen \/ DoWrite \/ Fail \/ Return

Spec == Init /\ [][Next]_vars

------------------------------------------------------------------------------
(* The plan of a program: what a run in which no call fails would find     *)
(* before each step, and in the end.  It does not say which picture is     *)
(* where, which imports leave open, but which ones may be.                 *)

Shows == {"own", "luma"}    \* the pictures a look at them is content with

Plans == [alive : SUBSET Objects, busy : SUBSET Objects,
          can   : [Objects -> SUBSET Pictures],     \* the pictures that may be in each object
          like  : SUBSET Objects,                   \* where the picture is that was looked at
          file  : Seq([part : Sections, can : SUBSET Pictures, like : BOOLEAN])]

Start == [alive |-> {}, busy |-> {}, can |-> [o \in Objects |-> {"undefined"}], like |-> {},
          file |-> <<[part |-> "old", can |-> {"other"}, like |-> FALSE]>>]

Fills == {"sync", "wait", "copy", "ask"}

AliveAfter(s, step) ==
    CASE step.do = "make"   -> s.alive \cup step.objs
      [] step.do = "drop"   -> s.alive \ ({step.obj} \cup OwnedBy[step.obj])
      [] step.do = "import" -> s.alive \cup {step.to}
      [] OTHER              -> s.alive

BusyAfter(s, step) ==
    CASE step.do = "job"              -> s.busy \cup {step.from, step.to}
      [] step.do \in {"sync", "wait"} -> s.busy \ {step.from, step.to}
      [] OTHER                        -> s.busy

CanAfter(s, step) ==
    CASE step.do = "store"  -> [s.can EXCEPT ![step.obj] = {"own"}]
      [] step.do = "import" -> [s.can EXCEPT ![step.to] = s.can[step.from] \cup {"luma", "other"}]
      [] step.do = "job"    -> [s.can EXCEPT ![step.to] = {"undefined"}]
      [] step.do \in Fills  -> [s.can EXCEPT ![step.to] = s.can[step.from]]
      [] OTHER              -> s.can

LikeAfter(s, step) ==
    CASE step.do = "look"            -> {step.obj}
      [] step.do = "store"           -> s.like \ {step.obj}
      [] step.do \in {"import", "job"} -> s.like \ {step.to}
      [] step.do \in Fills           ->
            IF step.from \in s.like THEN s.like \cup {step.to} ELSE s.like \ {step.to}
      [] OTHER                       -> s.like

FileAfter(s, step) ==
    CASE step.do = "open"  -> <<>>
      [] step.do = "write" -> Append(s.file, [part |-> step.part, can |-> s.can[step.obj],
                                              like |-> step.obj \in s.like])
      [] step.do = "look"  -> [k \in DOMAIN s.file |-> [s.file[k] EXCEPT !.like = FALSE]]
      [] OTHER             -> s.file

After(s, step) ==
    [alive |-> AliveAfter(s, step), busy |-> BusyAfter(s, step), can |-> CanAfter(s, step),
     like |-> LikeAfter(s, step), file |-> FileAfter(s, step)]

\* A step names what its kind of step needs.
StepOK(step) ==
    \/ step.do = "make" /\ step.objs \subseteq Objects
    \/ step.do \in {"drop", "store", "look"} /\ step.obj \in Objects
    \/ step.do = "write" /\ step.obj \in Objects /\ step.part \in Sections
    \/ step.do \in {"import", "job", "ask"} \cup Fills /\ {step.from, step.to} \subseteq Objects
    \/ step.do \in {"open", "record"}

ASSUME PlanAssumption ==
    \A p \in DOMAIN Script :
        LET steps == Script[p]
        IN  /\ Len(steps) \in Nat /\ DOMAIN steps = 1 .. Len(steps)
            /\ \A k \in DOMAIN steps : StepOK(steps[k])
            /\ \A k \in 1 .. Len(steps) + 1 : Plan[p][k] \in Plans
            /\ Plan[p][1] = Start
            /\ \A k \in DOMAIN steps : Plan[p][k + 1] = After(Plan[p][k], steps[k])

------------------------------------------------------------------------------
(* A run goes by the plan.                                                 *)

TypeOK ==
    /\ prog \in DOMAIN Script /\ at \in 1 .. Len(Script[prog]) + 1
    /\ alive \subseteq Objects /\ mem \in [Objects -> Pictures]
    /\ file \in Seq([part : Sections, of : Pictures])
    /\ verdict \in {"none", "skipped", "pass", "fail"} /\ unnoticed \in BOOLEAN
    /\ status \in {"running", "success", "failure"}

Here == Plan[prog][at]

\* A picture is one of those it may be; if it is the one that was looked at, it is what
\* was said of it.
Fits(picture, can, like, said) ==
    /\ picture \in can
    /\ like /\ said = "pass" => picture \in Shows
    /\ like /\ said = "fail" => picture \notin Shows

MemoryFits == \A o \in Objects : Fits(mem[o], Here.can[o], o \in Here.like, verdict)

FileFits ==
    \A k \in 1 .. Len(file) : Fits(file[k].of, Here.file[k].can, Here.file[k].like, verdict)

\* Whatever has failed, a program that runs has what it should have; the pictures are
\* where they should be unless a call failed unnoticed.
AsPlanned ==
    /\ status # "failure" => alive = Here.alive
    /\ status = "success" => at = Len(Script[prog]) + 1
    /\ Len(file) = Len(Here.file) /\ \A k \in 1 .. Len(file) : file[k].part = Here.file[k].part
    /\ ~unnoticed => busy = Here.busy /\ MemoryFits /\ FileFits
==============================================================================
