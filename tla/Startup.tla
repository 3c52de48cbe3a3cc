------------------------------- MODULE Startup -------------------------------
(***************************************************************************)
(* How the daemon starts: main of tier5-vaapi-daemon/daemon.c up to its    *)
(* loop, vaapi_state_init with rgba_modifier_init, and decode_h264_init    *)
(* with vk_init.  Two drivers are initialised in one process, and both     *)
(* read the environment, which is shared.                                  *)
(*                                                                         *)
(* Any call that can fail may fail.  What the host has is chosen once.     *)
(***************************************************************************)
EXTENDS Integers, Sequences, FiniteSets

CONSTANTS
    Names,      \* values LIBVA_DRIVER_NAME may have when the process starts
    Debugs,     \* the same of AMD_DEBUG
    Others,     \* format modifiers of GPUs that are not Intel's
    MaxMods,    \* bound: modifiers a GPU reports
    Orders      \* in which order the backends are initialised

Unset == "unset"
Backends == {"encode", "decode"}

ASSUME StartupAssumption ==
    /\ Unset \in Names /\ Unset \in Debugs
    /\ Orders \subseteq {<<"encode", "decode">>, <<"decode", "encode">>}
    /\ Others \cap {"LINEAR", "X_TILED", "Y_TILED", "4_TILED", "undefined", "none"} = {}
    /\ MaxMods \in Nat

VARIABLES
    pc,         \* the next step
    todo,       \* the backends main has yet to initialise
    host,       \* the GPU and the environment the process was started with
    env,        \* the environment
    saved,      \* prev_driver_name_copy
    read,       \* history: LIBVA_DRIVER_NAME as each vaInitialize found it
    debugRead,  \* history: AMD_DEBUG as Mesa found it when it first ran
    st,         \* vaapi_state_t: what vaapi_state_init fills in
    dec,        \* g_dec, g_vk_ready and g_dec_ready
    told,       \* history: how much of what it goes by rgba_modifier_init was told
    mesa,       \* rgba_modifier_init's GBM and EGL objects that are alive
    have        \* have_encode, have_decode

vars == <<pc, todo, host, env, saved, read, debugRead, st, dec, told, mesa, have>>

------------------------------------------------------------------------------
(* The modifier of a GPU-rendered RGBA buffer.                             *)

\* Modifier lists: no modifier twice.
ModLists(S) ==
    {m \in UNION {[1 .. k -> S] : k \in 0 .. MaxMods} :
        \A i, j \in DOMAIN m : i # j => m[i] # m[j]}

AmdHosts   == {[intel |-> FALSE, mods |-> m] : m \in ModLists(Others \cup {"LINEAR"})}
Tilings    == {"LINEAR", "X_TILED", "Y_TILED", "4_TILED"}
IntelHosts == {[intel |-> TRUE, mods |-> m] : m \in ModLists(Tilings)}

\* minigbm, which allocates the buffer: the combination of the highest priority,
\* and of those the one registered first.  Intel's backend ranks tilings, and where
\* there is 4-tiled (MTL and later) it prefers that; AMD's gives all modifiers the
\* same priority.
Priority(h, m) ==
    IF ~h.intel THEN 1
    ELSE CASE m = "4_TILED" -> 4 [] m = "Y_TILED" -> 3 [] m = "X_TILED" -> 2 [] OTHER -> 1
Allocated(h) ==
    LET best == {i \in DOMAIN h.mods : \A j \in DOMAIN h.mods :
                    \/ Priority(h, h.mods[i]) > Priority(h, h.mods[j])
                    \/ Priority(h, h.mods[i]) = Priority(h, h.mods[j]) /\ i <= j}
    IN  h.mods[CHOOSE i \in best : TRUE]

\* The numbers that may stand in rgba_modifier: modifiers a format can have, another
\* number, and none while it is not known.
Modifiers == Others \cup Tilings \cup {"undefined", "none"}

Reports(h, m) == \E i \in DOMAIN h.mods : h.mods[i] = m

\* Fault: X-tiled is looked for before Y-tiled.
ChooseXFirst(h) ==
    IF h.intel /\ Reports(h, "X_TILED") THEN "X_TILED"
    ELSE IF h.intel /\ Reports(h, "Y_TILED") THEN "Y_TILED"
    ELSE h.mods[1]

\* What rgba_modifier_init takes for the buffer's modifier.  It does not look for
\* 4-tiled.
Choose(h) ==
    IF h.intel /\ Reports(h, "Y_TILED") THEN "Y_TILED"
    ELSE IF h.intel /\ Reports(h, "X_TILED") THEN "X_TILED"
    ELSE h.mods[1]

------------------------------------------------------------------------------
Init ==
    /\ pc = "main" /\ todo \in Orders
    /\ \E gpu \in AmdHosts \cup IntelHosts, name \in Names, debug \in Debugs :
         /\ host = [gpu |-> gpu, name |-> name]
         /\ env = [name |-> name, debug |-> debug]
    /\ saved = Unset
    /\ read = [b \in Backends |-> "never"] /\ debugRead = "never"
    /\ st = [dpy |-> FALSE, modifier |-> "none", legacy |-> FALSE,
             entrypoint |-> FALSE, config |-> FALSE, vpp |-> FALSE]
    /\ dec = [dpy |-> FALSE, config |-> FALSE, vpp |-> FALSE, vulkan |-> FALSE,
              vkReady |-> FALSE, ready |-> FALSE]
    /\ told = "nothing" /\ mesa = {} /\ have = [b \in Backends |-> FALSE]

\* The step at which a backend starts, or the end of both.
First(rest) == IF rest = <<>> THEN "listen" ELSE Head(rest)

\* Fault: main leaves AMD_DEBUG to those who start it.
MainWithoutDebug ==
    /\ pc = "main" /\ pc' = First(todo)
    /\ UNCHANGED <<todo, host, env, saved, read, debugRead, st, dec, told, mesa, have>>

\* setenv("AMD_DEBUG", "nodcc", 1)
Main ==
    /\ pc = "main" /\ pc' = First(todo)
    /\ env' = [env EXCEPT !.debug = "nodcc"]
    /\ UNCHANGED <<todo, host, saved, read, debugRead, st, dec, told, mesa, have>>

\* An init function returns to main.
Return(ok) ==
    /\ have' = [have EXCEPT ![Head(todo)] = ok]
    /\ todo' = Tail(todo)
    /\ pc' = First(Tail(todo))

GoOn(next) == pc' = next /\ UNCHANGED <<todo, have>>

\* Mesa parses its debug variables once per process.
MesaRuns == debugRead' = IF debugRead = "never" THEN env.debug ELSE debugRead

\* open, vaGetDisplayDRM, vaInitialize of the encoder's driver.
EncodeInitialize ==
    /\ pc = "encode"
    /\ \/ Return(FALSE) /\ UNCHANGED <<read, debugRead, st>>
       \/ /\ read' = [read EXCEPT !["encode"] = env.name]
          /\ MesaRuns
          /\ \/ GoOn("gbm") /\ st' = [st EXCEPT !.dpy = TRUE]
             \/ Return(FALSE) /\ UNCHANGED st
    /\ UNCHANGED <<host, env, saved, dec, told, mesa>>

\* rgba_modifier_init, first half: without GBM or EGL it assumes LINEAR.
CreateGbm ==
    /\ pc = "gbm" /\ MesaRuns
    /\ \/ GoOn("modifiers") /\ mesa' = {"gbm", "egl"} /\ UNCHANGED st
       \/ /\ GoOn("entrypoint")
          /\ st' = [st EXCEPT !.modifier = "LINEAR"]
          /\ UNCHANGED mesa
    /\ UNCHANGED <<host, env, saved, read, dec, told>>

\* Second half: no modifiers (or no way to ask) means the legacy import.  The second
\* query, which fills the list that malloc left uninitialised, is not checked: if it
\* fails, any number may be taken for a modifier.  Without a vendor string the GPU
\* counts as one that is not Intel's.  The GBM device is destroyed on every path; the
\* EGL display is not terminated.
QueryModifiers ==
    /\ pc = "modifiers" /\ GoOn("entrypoint")
    /\ \/ st' = [st EXCEPT !.modifier = "LINEAR", !.legacy = TRUE] /\ UNCHANGED told
       \/ /\ host.gpu.mods # <<>>
          /\ \/ told' = "all" /\ st' = [st EXCEPT !.modifier = Choose(host.gpu)]
             \/ told' = "noVendor" /\ st' = [st EXCEPT !.modifier = host.gpu.mods[1]]
             \/ told' = "noList" /\ \E m \in Modifiers \ {"none"} :
                                     st' = [st EXCEPT !.modifier = m]
    /\ mesa' = mesa \ {"gbm"}
    /\ UNCHANGED <<host, env, saved, read, debugRead, dec>>

\* An entrypoint for H.264 encoding and two configs.
EncodeConfig ==
    /\ \/ pc = "entrypoint" /\ GoOn("config") /\ st' = [st EXCEPT !.entrypoint = TRUE]
       \/ pc = "config" /\ GoOn("vppConfig") /\ st' = [st EXCEPT !.config = TRUE]
       \/ pc = "vppConfig" /\ Return(TRUE) /\ st' = [st EXCEPT !.vpp = TRUE]
       \/ pc \in {"entrypoint", "config", "vppConfig"} /\ Return(FALSE) /\ UNCHANGED st
    /\ UNCHANGED <<host, env, saved, read, debugRead, dec, told, mesa>>

\* decode_h264_init: open, vaGetDisplayDRM, and a copy of LIBVA_DRIVER_NAME.
DecodeOpen ==
    /\ pc = "decode"
    /\ \/ /\ GoOn("decodeInitialize")
          /\ saved' = env.name /\ env' = [env EXCEPT !.name = "nvidia"]
       \/ Return(FALSE) /\ UNCHANGED <<saved, env>>
    /\ UNCHANGED <<host, read, debugRead, st, dec, told, mesa>>

\* Fault: the status is checked before the name is put back.
DecodeInitializeChecksFirst ==
    /\ pc = "decodeInitialize"
    /\ read' = [read EXCEPT !["decode"] = env.name]
    /\ \/ /\ GoOn("decodeConfig") /\ dec' = [dec EXCEPT !.dpy = TRUE]
          /\ env' = [env EXCEPT !.name = saved]
       \/ Return(FALSE) /\ UNCHANGED <<dec, env>>
    /\ UNCHANGED <<host, saved, debugRead, st, told, mesa>>

\* vaInitialize, and LIBVA_DRIVER_NAME put back before its status is checked.
DecodeInitialize ==
    /\ pc = "decodeInitialize"
    /\ read' = [read EXCEPT !["decode"] = env.name]
    /\ env' = [env EXCEPT !.name = saved]
    /\ \/ GoOn("decodeConfig") /\ dec' = [dec EXCEPT !.dpy = TRUE]
       \/ Return(FALSE) /\ UNCHANGED dec
    /\ UNCHANGED <<host, saved, debugRead, st, told, mesa>>

\* Fault: the decoder is marked ready before Vulkan is.
DecodeConfigReady ==
    /\ \/ pc = "decodeConfig" /\ GoOn("decodeVpp") /\ dec' = [dec EXCEPT !.config = TRUE]
       \/ /\ pc = "decodeVpp" /\ GoOn("vulkan")
          /\ dec' = [dec EXCEPT !.vpp = TRUE, !.vkReady = TRUE, !.ready = TRUE]
       \/ pc \in {"decodeConfig", "decodeVpp"} /\ Return(FALSE) /\ UNCHANGED dec
    /\ UNCHANGED <<host, env, saved, read, debugRead, st, told, mesa>>

\* VAEntrypointVLD with YUV420, and two configs.
DecodeConfig ==
    /\ \/ pc = "decodeConfig" /\ GoOn("decodeVpp") /\ dec' = [dec EXCEPT !.config = TRUE]
       \/ pc = "decodeVpp" /\ GoOn("vulkan") /\ dec' = [dec EXCEPT !.vpp = TRUE]
       \/ pc \in {"decodeConfig", "decodeVpp"} /\ Return(FALSE) /\ UNCHANGED dec
    /\ UNCHANGED <<host, env, saved, read, debugRead, st, told, mesa>>

\* vk_init, whose vkCreateInstance loads every Vulkan driver of the host.
VkInit ==
    /\ pc = "vulkan"
    /\ \/ MesaRuns /\ Return(TRUE)
          /\ dec' = [dec EXCEPT !.vulkan = TRUE, !.vkReady = TRUE, !.ready = TRUE]
       \/ MesaRuns /\ Return(FALSE) /\ UNCHANGED dec
       \/ UNCHANGED <<debugRead, dec>> /\ Return(FALSE)
    /\ UNCHANGED <<host, env, saved, read, st, told, mesa>>

\* main goes on to its socket unless neither backend is there.
Listen ==
    /\ pc = "listen"
    /\ pc' \in IF \A b \in Backends : ~have[b] THEN {"exit"} ELSE {"serving", "exit"}
    /\ UNCHANGED <<todo, host, env, saved, read, debugRead, st, dec, told, mesa, have>>

Next ==
    \/ Main \/ EncodeInitialize \/ CreateGbm \/ QueryModifiers \/ EncodeConfig
    \/ DecodeOpen \/ DecodeInitialize \/ DecodeConfig \/ VkInit \/ Listen

Spec == Init /\ [][Next]_vars

------------------------------------------------------------------------------
(* Properties                                                              *)

\* Two drivers in one process find each its own environment.  Mesa caches AMD_DEBUG
\* the first time it runs and must find nodcc, or the modifier list is not that of the
\* buffers the container allocates.  And "the two init calls don't clobber each other
\* regardless of which one main() calls first": each vaInitialize finds its own
\* LIBVA_DRIVER_NAME, and whatever failed, the environment is then as it was.
DriversSeeOwnEnvironment ==
    /\ debugRead \in {"never", "nodcc"}
    /\ read["encode"] \in {"never", host.name}
    /\ read["decode"] \in {"never", "nvidia"}
    /\ pc # "decodeInitialize" => env.name = host.name

\* A backend that is offered to clients has everything its requests will use, and
\* decode_h264_frame's own guard, the ready flags, says the same as have_decode.  The
\* throwaway GBM device is gone before anything is encoded, whatever failed.
OffersOnlyInitialised ==
    /\ have["encode"] =>
         st.dpy /\ st.entrypoint /\ st.config /\ st.vpp /\ st.modifier # "none"
    /\ dec.ready => dec.dpy /\ dec.config /\ dec.vpp /\ dec.vulkan /\ dec.vkReady
    /\ pc \in {"listen", "serving", "exit"} => (have["decode"] <=> dec.ready /\ dec.vkReady)
    /\ pc = "serving" => have["encode"] \/ have["decode"]
    /\ pc \notin {"modifiers", "exit"} => "gbm" \notin mesa

\* rgba_modifier_init was told what it goes by: the list, and Intel's vendor string.
Informed(h, t) == t = "all" \/ (t = "noVendor" /\ ~h.intel)

\* "MTL+, which prefers 4-tiled instead; not handled here".
Handled(h) == ~(h.intel /\ Reports(h, "4_TILED"))

\* When the GPU could be asked for its modifiers, encode requests import their
\* buffers as minigbm allocates them, or the legacy way, on every GPU but Intel's with
\* 4-tiled; unless the second query or, on Intel, the vendor string failed unseen.
\* And the modifier stays.
ModifierAsAllocated ==
    [][/\ pc = "modifiers" =>
            \/ st'.legacy
            \/ Informed(host.gpu, told') /\ Handled(host.gpu) => st'.modifier = Allocated(host.gpu)
       /\ st.modifier # "none" => st'.modifier = st.modifier]_vars
------------------------------------------------------------------------------
(* The inductive invariant behind the properties.                          *)

EncodeSteps == {"encode", "gbm", "modifiers", "entrypoint", "config", "vppConfig"}
DecodeSteps == {"decode", "decodeInitialize", "decodeConfig", "decodeVpp", "vulkan"}
Ends == {"listen", "serving", "exit"}

\* What rgba_modifier_init was told.
Told == {"nothing", "all", "noVendor", "noList"}

TypeOK ==
    /\ pc \in {"main"} \cup EncodeSteps \cup DecodeSteps \cup Ends
    /\ todo \in {<<"encode", "decode">>, <<"decode", "encode">>, <<"encode">>, <<"decode">>, <<>>}
    /\ host \in [gpu : AmdHosts \cup IntelHosts, name : Names]
    /\ env \in [name : Names \cup {"nvidia"}, debug : Debugs \cup {"nodcc"}]
    /\ saved \in Names
    /\ read \in [Backends -> Names \cup {"never", "nvidia"}]
    /\ st \in [dpy : BOOLEAN, modifier : Modifiers, legacy : BOOLEAN,
               entrypoint : BOOLEAN, config : BOOLEAN, vpp : BOOLEAN]
    /\ dec \in [dpy : BOOLEAN, config : BOOLEAN, vpp : BOOLEAN, vulkan : BOOLEAN,
                vkReady : BOOLEAN, ready : BOOLEAN]
    /\ told \in Told
    /\ mesa \in SUBSET {"gbm", "egl"}
    /\ have \in [Backends -> BOOLEAN]

\* A backend that main has not finished initialising.
Pending(b) == todo # <<>> /\ (Head(todo) = b \/ Len(todo) = 2)

\* The step belongs to the backend whose turn it is.
OrderInv ==
    /\ pc = "main" => Len(todo) = 2
    /\ pc \in EncodeSteps => todo # <<>> /\ Head(todo) = "encode"
    /\ pc \in DecodeSteps => todo # <<>> /\ Head(todo) = "decode"
    /\ pc \in Ends => todo = <<>>

\* Mesa runs only after main's setenv, and the name is another one only around the
\* decoder's vaInitialize, with the process's own set aside.
EnvironmentInv ==
    /\ DriversSeeOwnEnvironment
    /\ IF pc = "main" THEN debugRead = "never" ELSE env.debug = "nodcc"
    /\ pc = "decodeInitialize" => env.name = "nvidia" /\ saved = host.name

\* How far vaapi_state_init has got; the modifier is found once.
EncodeInv ==
    /\ pc \in EncodeSteps \ {"encode"} => st.dpy
    /\ pc \in {"config", "vppConfig"} => st.entrypoint
    /\ pc = "vppConfig" => st.config
    /\ pc \in {"entrypoint", "config", "vppConfig"} => st.modifier # "none"
    /\ Pending("encode") /\ pc \notin {"entrypoint", "config", "vppConfig"}
         => st.modifier = "none"
    /\ Pending("encode") => ~have["encode"]
    /\ pc # "modifiers" => "gbm" \notin mesa

\* How far decode_h264_init has got.
DecodeInv ==
    /\ pc \in {"decodeConfig", "decodeVpp", "vulkan"} => dec.dpy
    /\ pc \in {"decodeVpp", "vulkan"} => dec.config
    /\ pc = "vulkan" => dec.vpp
    /\ Pending("decode") => ~dec.ready
    /\ have["decode"] <=> dec.ready /\ dec.vkReady

IInv == /\ TypeOK /\ OrderInv /\ EnvironmentInv /\ EncodeInv /\ DecodeInv
        /\ OffersOnlyInitialised
==============================================================================
