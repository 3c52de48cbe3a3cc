# A verification of redroid-hwenc

redroid-hwenc gives Android containers hardware H.264: Codec2 components inside
the container talk over a Unix socket to a daemon on the host, and the daemon
drives the GPU through VA-API (and, for NVIDIA decode, Vulkan).  This directory
holds TLA+ models of that system, the TLC runs that check them and the TLAPS
proofs of the properties that matter most.

## The system

| Part | Source | State it keeps | Operations |
|---|---|---|---|
| wire protocol | `tier5-vaapi-daemon/protocol.h` | none | tag, request, bitstream; response header, body |
| daemon loop and handlers | `daemon.c` 742-975 | listening socket, `conn_fd`, `dmabuf_fd`, which backends came up | accept, dispatch on the tag, read a request, answer it, close |
| encode backend | `daemon.c` 204-259, 442-739 | `vaapi_state_t`: VA surfaces and contexts, current size, `have_context` | `vaapi_state_ensure_resolution`, `convert_rgba_to_nv12`, `encode_one_frame` |
| encode start-up | `daemon.c` 261-440 | modifier, `use_legacy_prime` | `rgba_modifier_init`, `vaapi_state_init` |
| decode backend | `decode_h264.c` 274-831 | `g_dec`, `g_vk`, the static `g_out_buf` | `decode_h264_init`, `decode_ensure_resolution`, `decode_h264_frame`, `vk_detile` |
| H.264 bit writer | `daemon.c` 57-202 | none | SPS, PPS and slice header bits |
| H.264 parser | `decode_h264.c` 57-272 | none | NAL splitting, unescaping, SPS/PPS/slice header |
| Codec2 encoder, decoder | `codec2-component/Vaapi{Enc,Dec}Component.cpp` | picture size parameter | `process`, `encodeViaDaemon`, `decodeViaDaemon` |
| Codec2 store | `tier4-codec2-skeleton/service.cpp` | `mNextId`, what the process is set up with | `main`, `createComponent`, `createInterface` |
| test clients | `*test-client.c`, `android-test-client/` | buffer, socket, output file | one request each, then exit |
| spikes | `tier2`, `tier3`, `tier6` `main.c`, `real-gralloc-import.c` | GPU objects, output file | one frame encoded, imported or decoded, then exit |
| packaging | `.bp`, `.rc`, manifests, seccomp | none | - |

A component call is one connection: connect, write the tag and the request, read
the answer, close.  The daemon is one thread that serves one connection at a
time with blocking calls and no timeouts.  The handlers call the backends, which
keep GPU objects from request to request.  So the hard parts are: what a client
that stalls, dies or sends half a request does to the daemon and to the clients
behind it; descriptors and GPU objects on the error paths; state that survives a
request (`vaapi_state_t`, `g_dec`, `g_out_buf`) and is stale or half built in the
next; and two blocking writers on one bounded socket.

What makes each part correct, in a sentence:

- *daemon*: every call is answered once, with its own whole frame or an error,
  and no call costs the others the daemon, a descriptor or their turn;
- *encode backend*, *decode backend*: nothing that a failed request left behind
  is ever taken for part of a later one: no stale id, no older picture;
- *start-up*: each driver sees its own environment whatever the order, and only
  a backend that has everything is offered;
- *bit writer and parser*: what was written is what is read, wherever escaping,
  alignment and the order of NAL units put it;
- *components*: every work comes back exactly once, with what its result says;
- *store*: no call is served outside the sandbox, and ids are distinct as far as
  an unlocked counter can keep them so;
- *spikes and test clients*: what they print and leave in their file is so, since
  all the tiers above were built on what they showed.

## The modules

| Module | Models | Checked by | Proved in |
|---|---|---|---|
| `FrameService` | what callers may expect: an abstract service | `daemon` (refinement) | `VaapiDaemonProofs` |
| `VaapiDaemon` | server loop, handlers, protocol, clients | `daemon`, `daemon_sigpipe` | `VaapiDaemonProofs` |
| `EncodeBackend` | encoder state across requests | `encode_backend` | `EncodeBackendProofs` |
| `DecodeBackend` | decoder state across requests, detiling | `decode_backend` | `DecodeBackendProofs` |
| `Startup` | both backends' initialisation, modifier choice | `startup` | `StartupProofs` |
| `Codec2Component` | `process()` of both components | `codec2`, `codec2_size`, `codec_system` (refinement) | `Codec2ComponentProofs` |
| `CodecSystem` | a component with the daemon it calls | `codec_system` | `VaapiDaemonProofs` |
| `ComponentStore` | the store service and its threads | `component_store` | the same module |
| `H264Bits`, `H264Writer`, `H264Parser`, `H264Stream` | headers written, split, parsed | `h264`, `h264_cabac` | `H264Proofs` |
| `OneShot` | a program that runs once and exits, and its plan | `spikes` | `SpikesProofs` |
| `Spikes` | the four spikes and six test clients, as tables for it | `spikes` | `SpikesProofs` |

`MC*` modules hold the values TLC needs.  A definition whose comment begins with
`Fault:` is a variant of the one after it with a plausible bug; no specification
uses it, it is there so that every property can be shown to notice one.

How the modules meet: `VaapiDaemon` takes a backend as a choice between failure
and a frame of some length.  `EncodeBackend` and `DecodeBackend` say which of
the two and that the frame is the request's own; `H264Stream` ends where
`DecodeBackend`'s `Accept` or `Reject` begins.  `Startup` ends where
`VaapiDaemon`'s `Start` begins, with `have` the backends that came up.
`Codec2Component` takes a daemon call as a step that returns; `CodecSystem` puts
`VaapiDaemon`'s client in the place of that step and checks that the result still
is `Codec2Component`.  The test clients are clients of `VaapiDaemon` call by call,
and programs of `OneShot` from their first line to their exit.

### VaapiDaemon

One connection is one client call, so both have the name `c`.  `pc` is the
blocking call the daemon is in: `accept`, `tag` (read of the command),
`recvmsg`, `encode`, `dreq`/`dbody` (`read_full` of request and bitstream),
`decode`, `whdr`/`wbody` (the writes of the answer), `close`.  The process ends in
four ways: `failed` to come up, `exited` when `main` returns, `killed` by the
`SIGPIPE` of its own write, `crashed` when somebody or something else kills it.
Streams are counts: `sent - taken`
items are in the buffer towards the daemon, `Len(body) - read` chunks in the
other; `SockBuf` bounds both.  Every blocking call is one action, so a client may
stall, be killed (`Quit`) or get on between any two of them.  Decode answers
come out of `frameOf`, the owner of the static `g_out_buf`.  `fds` is the set of
requests whose dma-buf descriptor the daemon still has; `FdLimit` of them make
`accept` fail.  `Restart` is an operator who starts the daemon again, which
unlinks the socket: queued callers are reset.  `Kill` ends the daemon between any
two of its steps (the out-of-memory killer, an operator, a fault in a driver it
loaded), so also between the header and the body of an answer and in the middle of
the body, while the client is alive and reads: that is the end of file the clients'
read loops must notice (`ReadFails`, `SuccessIsComplete`).  The kernel then closes
all descriptors, and a daemon that is started again has no memory of the first.
Clients that send no command tag,
a request without descriptor or a truncated request are kinds of client.

### EncodeBackend and DecodeBackend

`id` is what `vaapi_state_t` (or `g_dec`) and the locals name, `obj` what the
driver has; an id that was freed may be given out again, so a stale id can name
the wrong object and not only none.  Every VA or Vulkan call may fail, and the
error path is the code's: what it destroys and what it forgets.  The contents of
surfaces are request numbers, so "whose picture is this" is a question about
state.  Four calls may fail without the code's noticing, and the outcome is then an
undefined picture, 0.  The encoder does not look at `vaCreateBuffer` of its
parameters (`complete`).  The decoder's `vk_detile` does not look at
`vkBeginCommandBuffer`, `vkEndCommandBuffer` and `vkQueueWaitIdle` (`Copied`): `sure`
is the set of planes whose copy was recorded and waited for, and `pending` says that
the last copy was not waited for, so that the next one, of the other plane or of a
later request, is recorded in a command buffer that may be in use.  What the
properties promise (`EncodesOwnFrame`, `ReturnsOwnFrame`) excepts such a picture and
confines it: a plane whose copy was sure is the request's own whatever became of the
other, and an encode that has all its buffers is excused nothing.

### Startup

The environment is shared by two drivers: Mesa reads `AMD_DEBUG` when it first
runs in the process, each `vaInitialize` reads `LIBVA_DRIVER_NAME`.  `host` is
what the machine has and is chosen once; both orders of the two initialisations
are checked because the comment in `decode_h264_init` promises both.  `Allocated`
is minigbm's choice of a modifier, `Choose` the daemon's.  They differ, as the code
says itself (`daemon.c` 311-312), on Intel GPUs with 4-tiled (MTL and later), which
minigbm prefers and `rgba_modifier_init` does not look for: such hosts are in the
model, and `ModifierAsAllocated` excepts exactly them (`Handled`).  Two calls fail
unseen: the second query of the modifiers, after which the list is what `malloc`
left there, and the vendor string, without which Intel counts as another GPU.
`told` is how much of this `rgba_modifier_init` was told, and the property promises
the modifier only if it was told what it needs (`Informed`).

### Codec2Component

The base class's work queue, `process()` with one action per call that can fail,
the interface's size that a client sets at any moment, and flushes.  The decoder
reads width and height separately, as the code does, without the lock.

### CodecSystem

`VaapiDaemon` extended by the component's variables.  The call for work i is the
connection `ConnOf[i]`, well formed as `encodeViaDaemon` and `decodeViaDaemon`
make it; the other connections are rivals of any kind.  The component's thread
either does a step of `process()` (`OutsideCall`) or, in the step `call`, what the
client of `VaapiDaemon` does (`InsideCall`), until its connection has come to an
answer or an error (`CallReturns`).  The component's process is not killed here;
rivals and the daemon are.

### ComponentStore

`mNextId++` is a load and a store.  seccomp filters belong to a thread and are
inherited by the threads it starts, so `jailed` is a set of threads.  A store
that comes late takes the counter back to a value given out before: ids are then
shared even by creations that did not overlap, which is why the property speaks
of a lost increment and not of overlapping calls.

### H264Writer, H264Parser, H264Stream

Bit strings as sequences of 0 and 1, bytes as numbers; `H264Stream` writes NAL
units one a step, cuts the request, and runs the splitter, the scan of
`decode_h264_frame` and the slice header parse.  `H264Bits` has the powers of 2 and
the numbers bits stand for.  Fields our writer never writes
(picture order types 0 and 1, slice groups) are written as the standard says.
Left out as the parser leaves them out: `redundant_pic_cnt`, the bottom field's
order count, cropping on the decoder's side.  `1u << 32` in `br_ue` behind the
end of the data is undefined; `pasts` are the values tried for it.

### OneShot and Spikes

The spikes and test clients are straight-line programs, so each is a table of
steps in `Spikes` and `OneShot` is the machine that runs it: `Make`, `Drop`,
`Job`, `Sync` and so on are the rows of the tables, `DoMake`, `DoDrop`, ... their
meaning.  A run of calls that fail alike and whose objects go together is one
row.  `mem` says whose picture is in an object; between the submission of a job
and the wait for it what it writes is undefined and in `busy`.  Every checked
call may fail and ends the program; the kernel takes the objects then.  Some are
not checked and may fail without notice (`unnoticed`): in tier 6
`vkBeginCommandBuffer` and `vkEndCommandBuffer` (`Record`, lines 608 and 632) and
`vkQueueWaitIdle` (`Wait`, line 636), `fwrite`, and in the answer the daemon's own
unchecked calls.  A failed `fopen`
of a test client ends it at the `fwrite`, so it is a failure like the others.
`Under` is what VA-API, libdrm and Vulkan require of the order of destruction.
`Plan` says what each row of a table should find if no call failed: the objects
that exist, those a job may still write, the pictures each may hold, where the
picture is that was looked at, and the file so far.  `After` computes it from the
row before (`SpikePlan`), and `TablesInOrder` is what the two properties come to on
it.
The EGL self-check of `gbm-render-test-client` only prints and is left out.

## The runs

| Run | Question | Instance |
|---|---|---|
| `daemon` | safety, liveness and refinement of the server | 2 clients of 5 kinds, up to 3 chunks in and 2 out, buffer 1, backlog 0, 1 leaked fd, 2 starts, a kill at any step |
| `daemon_sigpipe` | does one client that leaves end the daemon? (yes) | 1 client |
| `encode_backend` | state kept between encodes | 7 ids, 2 sizes, 3 requests |
| `decode_backend` | state kept between decodes | 6 ids, 2 sizes, buffer for one of them, 3 requests |
| `startup` | two drivers, one environment | up to 4 modifiers of 4 tilings, both orders |
| `codec2` | every work returned once, rightly | 3 works, 2 good and 1 bad dimension, 1 change |
| `codec2_size` | is the stream's size reported? (no) | 1 work |
| `component_store` | sandbox and ids | 3 threads, 4 creations |
| `h264` | headers and streams | 12 pictures in any order of 5 units; cuts of 0-40 bytes; 529 sizes; a stream without start codes |
| `h264_cabac` | is the profile the one that is claimed? (no) | one size |
| `codec_system` | does a component with a real daemon do what `Codec2Component` says? | 2 works, a rival that decodes, one item each way, 1 leaked fd, 2 starts, a kill at any step |
| `spikes` | is what the programs claim so, and is it taken down in order? | 10 programs, each call failing or not |

Why the bounds are enough.  Two clients are one that is served and one that
waits, or one that leaves something behind and one that could find it; the
daemon never holds state of three.  Two chunks against a buffer of one make every
writer block; with three chunks of bitstream, one that was read, one in the buffer and
one still with the client, a daemon that answered too early and its client would block
each other; `MaxBits + 1` is the request that is refused for its size.  Three
requests are one that fails, one of another size and one that reuses; seven (six)
ids are those of a complete request and some lost by the ones before, and running
out of ids is one more failure.  `OutMax` of 4 takes the first plane of the larger
size and not its second.  Two dimensions let width and height come from
different configurations.  In the run `MaxNals` is 4 in place of 8 so that a
stream of five units overflows it.  Four creations let a late store reach back
over two others.  In `codec_system` two works are one that leaves something
behind and one that would find it, and the rival is enough to hold the daemon, to
quit in the middle of its bitstream and to be queued behind; with a backlog of 0
the component is refused as well as kept waiting.  The kinds of rival that send no
tag or half a request are in `daemon`.  Two instances start from fewer states than
`Init` has: `daemon` from the requests in one order, since the clients are
interchangeable (`MCVaapiDaemon`), and `codec_system` from a rival whose bitstream
is of legal length and a component of whose two streams only the first may be too
long (`MCCodecSystem`).  Four modifiers are every tiling at once.  `spikes` has no
bound: the tables are finite.  These are instances; what is proved holds without them.

`CHECK_DEADLOCK FALSE` is set since every instance ends: the calls, requests,
works or creations are used up.

Fairness.  `VaapiDaemon`: weak fairness of the daemon's one thread, which is
always in one call that the kernel completes when it can, and of each client,
which is a thread doing the same.  Nothing obliges anyone to kill a client or the
daemon, or to restart it.  `EveryCallReturns` therefore also covers a client whose
server died before its answer or in the middle of it (its connection is reset) but
not one that is stopped for ever by a debugger ahead of others: it would hold them
up, and there is no timeout to help.  `Codec2Component`: weak fairness of the
component's thread.
`CodecSystem`: weak fairness of the daemon's thread, of the component's one
thread, in its call and outside it, and of each rival; the fairness of
`Codec2Component`, that a call returns, is then a consequence and is checked as
part of `ImplementsComponent`.  `OneShot` needs none.

### What the failing runs show

- `daemon_sigpipe`: `send_response` reports a failed write and goes on, but
  `SIGPIPE` is never ignored (the store service does ignore it): a client that
  leaves before its answer ends the daemon for all.
- `codec2_size`: the decoder lays out frames in the interface's size; what the
  stream says never gets there, although `VaapiDecComponent.h` says it does.
- `h264_cabac`: SPS and PPS of `encode_one_frame` say Constrained Baseline and
  CABAC; the daemon's own decoder refuses such a stream.

Other disagreements that were met, and have no failing run of their own:

- Test clients that send no command tag (`rgba-test-client`,
  `gbm-render-test-client` and the two programs in `android-test-client/`) predate
  it and get no answer from this daemon, although the README of tier 5, sections
  5.3 and 5.4, reports two of them working.  Run `spikes` shows that they never get
  to their file (`Untagged`), run `daemon` what the daemon makes of them.
- `protocol.h` 50-53 asks for a NAL unit without its start code; `extract_nals`
  finds nothing in such a stream, which run `h264` shows (`SplitsAsWritten`).
- `rgba_modifier_init` never calls `eglTerminate`, although its comment
  (`daemon.c` 289-295) says that no EGL object may outlive it.
- `decode_h264.h` 27 asks `main` to set `LIBVA_DRIVER_NAME`, which
  `decode_h264_init` does itself.
- tier 3's `main.c` takes a `PASS` to prove that surface and buffer are the same
  memory (279-283, 378-380).  The pattern is written before the import, so a
  driver that copied at the import would pass as well; and only luma is compared,
  which is why `OutputIsWhatItClaims` promises no more than luma.

## What is proved

Of the forty properties of the passing runs thirty-six, every invariant and every
action property among them, are theorems: they hold for every value of the constants.
The other four are liveness, or contain it.

### Assumptions

Only the named `ASSUME`s on constants, which TLC evaluates on every run:

- bounds are natural numbers, and `NoConn` and `NoId` are none of the named things;
  in `ComponentStore` `main`'s thread is not one of the pool's;
- `Startup`: the modifiers of other GPUs are not named like Intel's (4-tiled among
  them), nor "none" or "undefined";
- `Codec2Component`, `CodecSystem`: there is a supported dimension, and none is both
  supported and not; works have connections of their own;
- `OneShot`, `Spikes`: each program's plan follows from its table, row by row
  (`PlanAssumption`), and the plans of the tables are in order (`TablesInOrder`): in
  them everything is dropped when it exists, is idle and not needed, what is released
  and written at the end is what is claimed, and nobody asks without a tag with a file
  of his own.  This is about one run of each program, the one in which nothing fails;
- `H264Stream`: the fields of a header have the width H.264 gives them
  (`ScenariosAssumption`), and a picture that stands for a request of ours has one of
  the sizes `VaapiEncComponent.cpp` 35-36 allows, even and from 2 to 2560, and the
  SPS `encode_one_frame` writes for it (`RequestsAssumption`).

### The state machines

Each proof follows one argument: `Init => IInv`, a lemma per action that it
preserves `IInv`, `IInv => property`.  Few of the properties are inductive alone.

- `VaapiDaemonProofs`: all the safety properties of the run `daemon`, among them
  the action property `OneResponse`.  `AnswersAreOwn` needs that `frameOf` is the
  served connection from the decode to the last chunk (`HandlerInv`), that needs
  that nobody but `cur` is open (`ServingInv`), and `TaggedRequestsAnswered` needs
  how far each client has written (`ClientInv`).  `DaemonImplementsService`: in
  every state `IInv` allows, a step of the daemon or a client is a step of
  `FrameService` or leaves its variables alone.  `ImplementsService` in the run is
  this and the liveness half.
- `NobodyWaitsInACircle`, in the same module, is the absence of deadlock between
  callers, the daemon and the sockets between them: `NoStandstill` says who can go on
  in the terms of the sockets, `ClientGoesOn` and `DaemonGoesOn`, whose conditions are
  those under which the actions are enabled.  It needs `WaitingInv` beside `IInv`:
  a caller that waits is in the queue of a daemon that listens.  That the two
  blocking writers never meet is one case of it.  `EveryStepIsProgress` gives each call
  and the daemon a number, what is left to do: every step lowers one and raises none.
  Together they are `EveryCallReturns` but for its last step: that a fair scheduler,
  given somebody who can always go on and finitely many steps to take, takes them.
- `EncodeBackendProofs` and `DecodeBackendProofs`: all their invariants and action
  properties.  `NoStaleIds` needs where the picture and the objects of the present
  request are at each step (`PictureInv`).  The encoder's losses are a count: at each
  step no more surfaces are alive than `InUse` and two for each failure
  (`SurfaceInv`), with the facts of `FiniteSetTheorems`.
- `StartupProofs`: both invariants, and `ModifierAsAllocated`.  `OrderInv` says
  whose step it is and `EnvironmentInv` what the environment and `saved` are there,
  in either order of the backends.  `ModifierIsMinigbms` compares two choices over
  the same list, the daemon's and minigbm's, for any list the daemon was told and
  any GPU but Intel's with 4-tiled, where they do differ.
- `Codec2ComponentProofs`: `TypeOK`, `ReturnedExactlyOnce`, `ResultMatchesOutput`.
  A work is waiting, in `process()` or returned, and what is known of its result
  depends on how far `process()` has got.  `EveryStepIsWorkProgress` counts the steps
  a work still has to wait, at most five for the one in `process()` and six for each
  in the queue up to it: each step of `process()` lowers the number for every work that
  was not returned, there is such a step as long as one was not, and no client can
  raise it.  `EveryWorkReturns` adds that the component's thread is given its turns.
- `CodecSystem`, also in `VaapiDaemonProofs`: each step of the whole is a step, or a
  stutter, of each part, so both parts keep their invariants (`SystemImplementsComponent`,
  `SystemImplementsDaemon`), and what was proved of them alone holds of them
  together (`SystemLosesNoWork`).  `WorksGetOwnAnswer` needs one
  part more, `CallInv`: a frame that is being copied out or was returned came over the
  connection of its own work, and no other work's connection is active.
  `CallsAreNotStuck` carries `NoStandstill` over to the component's thread.
- `SpikesProofs`: a run goes by its plan whatever fails (`AsPlanned`), one lemma for
  each kind of row: the objects always, the pictures until a call fails unnoticed.
  What an import shows is open, so the plan has sets of pictures, and `Fits` ties the
  one that is there to the verdict that was printed.  `NeverAnswered` adds that a
  request without a tag is not got past.  `OutputIsAsClaimed` and
  `EverythingTornDownInOrder` then follow from `TablesInOrder`, for any tables.
- `ComponentStore`: `CallsAreSandboxed`, `IdsDistinctUnlessLost`.

### H.264

`H264Proofs` has all six invariants of the run `h264`.  TLC checks them for a
dozen pictures; the theorems are for all pictures whose fields have the width
H.264 gives them, any slice data, any order and number of NAL units, and any cut.
The recursive functions of the model (`Ascending`, `Escape`, `Number`, `Pow2`) are
reasoned about by induction over a set of counterexamples, which has a least
element (`NatInd`, `Recursion`), since the library's induction theorems take an
operator.  From the bits up:

1. *Escaping.*  What is unescaped is what was escaped, and an escaped payload
   contains no start code (`EscapeIsUndone`).  `escaped_bit_offset` is the position
   behind as many bits as it was asked for (`OffsetIsExact`).
2. *Codes.*  What `bs_put_ue` and `bs_put_se` write is what `br_ue` and `br_se` read,
   for every number of the range and wherever in the bytes it begins (`UeReadBack`,
   `SeReadBack`).
3. *Headers.*  The three header parsers read the fields of their writers and stop
   where those did (`MirrorImage`).  Each is shown one syntax element after the other,
   with the position behind it; what the parser refuses it refuses for a field it says
   it does not support.
4. *Splitting.*  Behind any stream, a start code and a clean NAL unit are one NAL unit
   more and leave the others as they were (`OneNalMore`).  By induction over the
   writing, what is found is what was written (`StreamInv`), of the right type
   (`TypeInv`): `StreamInvariance`, `TypeCorrect`, `SplitsBack`.
5. *Cutting.*  What is found in a stream that was cut off is a beginning of what was
   written.  A beginning of an SPS reads as the SPS or is refused: the last flag the
   parser insists on is missing from any shorter one.
6. *Scanning.*  `HeadersInvariance`: an SPS that is held is the one that was written
   (`WrittenInv`); in a whole stream so are the PPS and the slice, and a NAL unit
   that was passed over was taken or had to be refused (`Passed`).  From it
   `TakenIfSupported`, both directions, and `HeadersReadBack`.
7. *Slice data.*  `SliceDataFound` is 1 and 3 together.  That the offset fits its
   `uint16_t` is a bound on the header: it has at most 1000 bits, at most every other
   byte in front of it is an emulation prevention byte.
8. *Cropping.*  `CropsToRequest` is arithmetic over all sizes a client may ask for.

### Only model-checked

- `EveryCallReturns`, `EveryWorkReturns`, and the fairness in `ImplementsService` and
  `ImplementsComponent`: liveness, which rests on `ENABLED` and fairness, is out of the
  prover's reach.  Their safety halves are `DaemonImplementsService` and
  `SystemImplementsComponent`.
- That the plans of `Spikes` are in order, which TLC evaluates: a plan is a recursive
  function of its table.

## What is modelled and promised by no property

- The size `process()` of the decoder reads in two halves may be one the interface
  never had: nothing in the code prevents it.
- The EGL display is never terminated; `OffersOnlyInitialised` is about the GBM device.
- Ids are equal after a lost increment.  `IdsDistinctUnlessLost` excepts that race: it
  says what the race costs, and that nothing else makes ids equal.
- What an encode makes of a parameter buffer that was not created, a plane of a copy
  that failed unseen, and the modifier on Intel GPUs with 4-tiled.

## What is not modelled

- A `malloc` that returns NULL, a `vk_find_mem_type` that finds no memory type
  (its UINT32_MAX goes to `vkAllocateMemory` unchecked), and a component's process
  that is killed while the daemon serves it as part of `CodecSystem` (a client that
  is killed is in `VaapiDaemon`).
- The EGL self-check of `gbm-render-test-client`, which only prints, and
  `real_gralloc_probe.c`, which allocates a buffer and prints what it is made of.
- Pixel formats, plane layouts, fourccs, gralloc handle offsets: data that no
  property tells apart.
- The growth of the bit writer's buffer: no header comes near 256 bytes.
- Build files, manifests and policies.
- The contents of VA-API, Vulkan, Mesa, minigbm and Codec2's base classes, beyond
  what the code relies on; such definitions are marked external.

## Plan

Written in this order, the most shared state first: `VaapiDaemon` with
`FrameService`, `EncodeBackend`, `DecodeBackend`, `Startup`, `Codec2Component`,
`H264*`, `ComponentStore`, then `CodecSystem` and `OneShot` with `Spikes`; then the
proofs, of each part alone, of `CodecSystem` as their composition, of `H264*`, of what
liveness rests on in the daemon and the components, and of `OneShot` with `Spikes`.
What is left is `VaapiDaemon` with the two backends in place of its choices, and its
safety as a consequence of theirs.
