-------------------------------- MODULE Spikes --------------------------------
(***************************************************************************)
(* The spikes of tiers 2, 3 and 6 and the daemon's test clients as tables  *)
(* for OneShot:                                                            *)
(*   "encode"   tier2-vaapi-encode/main.c: encode a grey picture           *)
(*   "import"   tier3-dmabuf-import/main.c: encode from a dumb buffer      *)
(*   "gralloc"  tier3-dmabuf-import/real-gralloc-import.c: import a screen *)
(*   "decode"   tier6-vaapi-decode/main.c: decode, blit, detile a picture  *)
(*   "test", "bionic", "rgba", "render", "ahb", "decodeTest"               *)
(*              tier5-vaapi-daemon: test-client.c, test_client.c for the   *)
(*              container, rgba-test-client.c, gbm-render-test-client.c,   *)
(*              real_gralloc_client.c, decode-test-client.c                *)
(* Their bit writer and parser are the daemon's (H264Writer, H264Parser).  *)
(* Runs of calls that fail alike and create things that are destroyed      *)
(* alike are one step.                                                     *)
(***************************************************************************)
EXTENDS OneShot, TLC

\* What VA-API makes belongs to the display; parameter buffers have no other end.
VaObjects == {"config", "input", "recon", "context", "image", "params", "coded", "target",
              "vppConfig", "vppOut", "vppContext"}
VkImages == {"probe", "imported", "linear"}
VkMemory == {"importedMem", "linearMem"}

SpikeObjects ==
    {"drm", "primary", "dumb", "dmabuf", "pidfd", "screen", "dpy", "prime", "vulkan", "plane",
     "gbm", "bo", "ahb", "socket", "bitstream", "answer"}
        \cup VaObjects \cup VkImages \cup VkMemory

\* What libva, libdrm and Vulkan require: a surface goes after the contexts that use it,
\* everything before its display or device.  An imported surface, an exported
\* descriptor and memory an image is bound to keep what they need by themselves.
SpikeUnder == [o \in SpikeObjects |->
    CASE o = "dumb"       -> {"primary"}
      [] o = "dpy"        -> {"drm"}
      [] o = "bo"         -> {"gbm"}
      [] o = "gbm"        -> {"drm"}
      [] o = "image"      -> {"dpy", "input"}
      [] o = "context"    -> {"dpy", "config", "input", "recon", "target"}
      [] o = "vppContext" -> {"dpy", "vppConfig", "vppOut"}
      [] o \in VaObjects  -> {"dpy"}
      [] o \in VkImages \cup VkMemory -> {"vulkan"}
      [] OTHER            -> {}]

SpikeOwnedBy == [o \in SpikeObjects |-> IF o = "dpy" THEN VaObjects ELSE {}]

------------------------------------------------------------------------------
(* Tier 2.                                                                 *)

EncodeSetup ==
    <<Make({"drm"}), Make({"dpy"}), Call, Make({"config"}), Make({"input", "recon"}),
      Make({"context"})>>

EncodeFill == <<Make({"image"}), Call, Store("input"), Call, Drop("image")>>

EncodeHeaders == <<Make({"coded"}), Make({"params"}), Make({"params"})>>

EncodeSubmit == <<Call, Job("input", "coded"), Sync("input", "coded")>>

EncodeReadBack == <<Call, OpenFile, Write("stream", "coded"), Call>>

EncodeTearDown ==
    <<Drop("context"), Drop("input"), Drop("recon"), Drop("config"), Drop("dpy"), Drop("drm")>>

------------------------------------------------------------------------------
(* Tier 3.                                                                 *)

\* The pattern goes into the dumb buffer through its dma-buf, before VA-API is there.
ImportBuffer ==
    <<Make({"drm"}), Make({"primary"}), Make({"dumb"}), Make({"dmabuf"}), Call, Store("dmabuf")>>

ImportSetup == <<Make({"dpy"}), Call, Make({"config"})>>

ImportSurface == <<Import("dmabuf", "input"), Look("input")>>

ImportHeaders ==
    <<Make({"recon"}), Make({"context"}), Make({"coded"}), Make({"params"}), Make({"params"})>>

ImportEncode == <<Call, Job("input", "coded"), Sync("input", "coded")>>

ImportReadBack == <<Call, OpenFile, Write("stream", "coded"), Call>>

ImportTearDown ==
    <<Drop("context"), Drop("input"), Drop("recon"), Drop("config"), Drop("dpy"),
      Drop("dmabuf"), Drop("dumb"), Drop("primary"), Drop("drm")>>

\* The clone is what the number names in the other process by now, the screen or not.
GrallocClone == <<Make({"pidfd"}), Store("screen"), Import("screen", "dmabuf"), Drop("pidfd")>>

GrallocImport ==
    <<Make({"drm"}), Make({"dpy"}), Import("dmabuf", "input"), Look("input"),
      Drop("input"), Drop("dpy"), Drop("dmabuf"), Drop("drm")>>

------------------------------------------------------------------------------
(* Tier 6.                                                                 *)

\* read_file, the loop over the NAL units and the slice header.
DecodeParse == <<Call, Call>>

DecodeSetup ==
    <<Make({"drm"}), Make({"dpy"}), Call, Make({"config"}), Make({"target"}), Make({"context"})>>

\* The slice's data is in the last parameter buffer.
DecodeSubmit ==
    <<Call, Make({"params"}), Store("params"), Job("params", "target"), Sync("params", "target")>>

DecodeBlit ==
    <<Make({"vppConfig"}), Make({"vppOut"}), Make({"vppContext"}), Call, Job("target", "vppOut"),
      Sync("target", "vppOut"), Make({"prime"})>>

DecodeVkInit == <<Make({"vulkan"})>>

\* vk_detile of one plane, and fwrite.
Detile(part) ==
    <<Make({"probe"}), Drop("probe"), Make({"imported"}), Make({"importedMem"}),
      Make({"linear"}), Make({"linearMem"}), Record, Job("vppOut", "linear"),
      Wait("vppOut", "linear"), Copy("linear", "plane"), Drop("imported"), Drop("linear"),
      Drop("importedMem"), Drop("linearMem"), Write(part, "plane")>>

DecodeWrite == <<OpenFile>> \o Detile("luma") \o Detile("chroma")

\* The blit's config, surface and context are left to vaTerminate, Vulkan to exit.
DecodeTearDown ==
    <<Drop("prime"), Drop("context"), Drop("target"), Drop("config"), Drop("dpy"), Drop("drm")>>

------------------------------------------------------------------------------
(* The test clients.                                                       *)

\* connect, the command tag or none, the request, the answer, and what it is saved as.
AskAndSave(tagged, from, part) ==
    <<Make({"socket"}), Call, Ask(tagged, from, "answer"), OpenFile, Write(part, "answer"),
      Drop("socket")>>

\* From a dumb buffer that is filled through its dma-buf.
FromDumbBuffer(tagged) ==
    <<Make({"primary"}), Make({"dumb"}), Make({"dmabuf"}), Call, Store("dmabuf")>>
        \o AskAndSave(tagged, "dmabuf", "stream") \o <<Drop("dmabuf")>>

TestClient == FromDumbBuffer(TRUE)

\* Written before there was a command tag.
BionicTestClient == FromDumbBuffer(FALSE)
RgbaTestClient   == FromDumbBuffer(FALSE)

\* Its self-check, an EGL import whose outcome is only printed, is left out.
RenderTestClient ==
    <<Make({"drm"}), Make({"gbm"}), Make({"bo"}), Call, Store("bo"), Make({"dmabuf"})>>
        \o AskAndSave(FALSE, "bo", "stream") \o <<Drop("dmabuf")>>

RealGrallocClient ==
    <<Make({"ahb"}), Call, Call, Store("ahb")>> \o AskAndSave(FALSE, "ahb", "stream")
        \o <<Drop("ahb")>>

DecodeTestClient == <<Call, Store("bitstream")>> \o AskAndSave(TRUE, "bitstream", "frame")

TestClients == [
    test       |-> TestClient,       bionic |-> BionicTestClient,  rgba |-> RgbaTestClient,
    render     |-> RenderTestClient, ahb    |-> RealGrallocClient,
    decodeTest |-> DecodeTestClient]

SpikeScript == TestClients @@ [
    encode  |-> EncodeSetup \o EncodeFill \o EncodeHeaders \o EncodeSubmit \o EncodeReadBack
                    \o EncodeTearDown,
    import  |-> ImportBuffer \o ImportSetup \o ImportSurface \o ImportHeaders \o ImportEncode
                    \o ImportReadBack \o ImportTearDown,
    gralloc |-> GrallocClone \o GrallocImport,
    decode  |-> DecodeParse \o DecodeSetup \o DecodeSubmit \o DecodeBlit \o DecodeVkInit
                    \o DecodeWrite \o DecodeTearDown]

\* What a complete output file consists of.
PartsOf(p) ==
    CASE p = "gralloc"    -> <<"old">>
      [] p = "decode"     -> <<"luma", "chroma">>
      [] p = "decodeTest" -> <<"frame">>
      [] OTHER            -> <<"stream">>

AsksUntagged(step) == step.do = "ask" /\ ~step.tagged
Untagged == {p \in DOMAIN Script : \E k \in DOMAIN Script[p] : AsksUntagged(Script[p][k])}

------------------------------------------------------------------------------
(* Properties                                                              *)

PartNames(parts) == [k \in DOMAIN parts |-> parts[k].part]
Parts == PartNames(file)
Saved(pictures) == \A k \in DOMAIN file : file[k].of \in pictures

\* The file of a run of p that was cut short, or of the run before.
IsBeginning(parts, p) ==
    \E whole \in {PartsOf(p), <<"old">>} : \E k \in 0 .. Len(whole) : parts = SubSeq(whole, 1, k)

\* What a person at the terminal concludes is so.  Exit status 0 means that the file
\* is complete, in order, and holds this run's picture, unless one of the calls that
\* are not checked failed; "PASS" that the luma of what was encoded is the pattern,
\* "FAIL" that it is not.  A run that failed leaves the last run's file, or the
\* beginning of its own; never what the GPU had not finished.  And a client that sends
\* no command tag never gets as far as its file.
OutputIsWhatItClaims ==
    /\ status = "success" =>
         /\ Parts = PartsOf(prog)
         /\ ~unnoticed /\ prog \notin {"import", "gralloc"} => Saved({"own"})
         /\ ~unnoticed /\ prog = "import" =>
              /\ verdict = "pass" => Saved({"own", "luma"})
              /\ verdict = "fail" => Saved({"other"})
    /\ status = "failure" => IsBeginning(Parts, prog)
    /\ ~unnoticed => Saved(Pictures \ {"undefined"})
    /\ prog \in Untagged => Parts = <<"old">> /\ status # "success"

\* What program p may leave to the kernel.
Released(p, objs) ==
    IF p \in DOMAIN TestClients THEN objs \cap {"socket", "dmabuf", "ahb"} = {}
    ELSE objs \subseteq {"vulkan"}

\* Nothing is destroyed twice, nor before what is built on it, nor while the GPU works
\* on it, unless the wait for the GPU failed unnoticed.  Who returns 0 has released
\* everything but the Vulkan device, or, if a test client, its socket and its buffer.
TornDownInOrder ==
    [][/\ Doing("drop") /\ status' = "running" =>
            /\ Now.obj \in alive
            /\ \A o \in alive \ alive' :
                  /\ o \in busy => unnoticed
                  /\ \A p \in alive' : o \notin Under[p]
       /\ status' = "success" => Released(prog, alive)]_vars

------------------------------------------------------------------------------
(* The tables are in order: what the properties come to when no call       *)
(* fails.  That they hold whatever fails is proved from it.                *)

SpikePlan == [p \in DOMAIN SpikeScript |->
    LET plan[k \in 1 .. Len(SpikeScript[p]) + 1] ==
            IF k = 1 THEN Start ELSE After(plan[k - 1], SpikeScript[p][k - 1])
    IN  plan]

\* Everything that goes exists, is in nobody's use and is not needed by what stays.
GoesInOrder(obj, before, after) ==
    /\ obj \in before.alive
    /\ \A o \in before.alive \ after.alive :
          o \notin before.busy /\ \A p \in after.alive : o \notin Under[p]

\* What a program that came to its end has written: its own picture, or what it looked
\* at.
EndsAsClaimed(p, end) ==
    /\ PartNames(end.file) = PartsOf(p) /\ Released(p, end.alive)
    /\ \A k \in DOMAIN end.file :
          /\ p \notin {"import", "gralloc"} => end.file[k].can \subseteq {"own"}
          /\ p = "import" => end.file[k].like /\ end.file[k].can \subseteq {"own", "luma", "other"}

ASSUME TablesInOrder ==
    \A p \in DOMAIN Script :
        LET steps == Script[p]
            plan  == Plan[p]
        IN  /\ EndsAsClaimed(p, plan[Len(steps) + 1])
            /\ \A k \in 1 .. Len(steps) + 1 :
                  /\ IsBeginning(PartNames(plan[k].file), p)
                  /\ \A f \in DOMAIN plan[k].file : "undefined" \notin plan[k].file[f].can
            /\ \A k \in DOMAIN steps :
                  /\ steps[k].do = "drop" => GoesInOrder(steps[k].obj, plan[k], plan[k + 1])
                  /\ AsksUntagged(steps[k]) =>
                        \A j \in 1 .. k : PartNames(plan[j].file) = <<"old">>

\* Who forgets the command tag waits for ever for its answer.
NeverAnswered ==
    \A k \in DOMAIN Script[prog] : AsksUntagged(Script[prog][k]) => at <= k
==============================================================================
