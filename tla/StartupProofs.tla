---------------------------- MODULE StartupProofs ----------------------------
(***************************************************************************)
(* The properties of Startup, for any environment, any GPU and either      *)
(* order of the two backends, from the inductive invariant IInv; and that  *)
(* the daemon's choice of a modifier is minigbm's.                         *)
(***************************************************************************)
EXTENDS Startup, TLAPS

------------------------------------------------------------------------------
(* The choice of a modifier.                                               *)

\* A GPU that reports a modifier reports a first one.
LEMMA ModListFacts ==
  ASSUME NEW S, NEW m \in ModLists(S)
  PROVE  \E k \in 0 .. MaxMods :
            /\ DOMAIN m = 1 .. k /\ \A i \in 1 .. k : m[i] \in S
            /\ m # <<>> => 1 \in DOMAIN m
  <1>1. PICK k \in 0 .. MaxMods : m \in [1 .. k -> S] BY DEF ModLists
  <1>2. k \in Nat BY StartupAssumption
  <1>3. m # <<>> => k # 0 BY <1>1, <1>2
  <1> QED BY <1>1, <1>2, <1>3

\* Whatever the GPU is and in whatever order it reports its modifiers, the daemon
\* takes the one minigbm allocates with, unless that is Intel's 4-tiled.
LEMMA ChoiceIsAllocated ==
  ASSUME NEW h \in AmdHosts \cup IntelHosts, h.mods # <<>>, Handled(h)
  PROVE  Choose(h) = Allocated(h)
  <1> DEFINE beats(i, j) == \/ Priority(h, h.mods[i]) > Priority(h, h.mods[j])
                            \/ Priority(h, h.mods[i]) = Priority(h, h.mods[j]) /\ i <= j
             best == {i \in DOMAIN h.mods : \A j \in DOMAIN h.mods : beats(i, j)}
  <1>1. Allocated(h) = h.mods[CHOOSE i \in best : TRUE] BY DEF Allocated
  <1>2. \A k : best = {k} => Allocated(h) = h.mods[k]
    <2> HIDE DEF best
    <2> QED BY <1>1
  <1>3. ASSUME NEW S, h.mods \in ModLists(S)
        PROVE  /\ 1 \in DOMAIN h.mods /\ DOMAIN h.mods \subseteq Nat
               /\ \A i \in DOMAIN h.mods : i >= 1 /\ h.mods[i] \in S
               /\ \A i, j \in DOMAIN h.mods : h.mods[i] = h.mods[j] => i = j
    <2>1. PICK k \in 0 .. MaxMods : /\ DOMAIN h.mods = 1 .. k
                                    /\ \A i \in 1 .. k : h.mods[i] \in S
                                    /\ h.mods # <<>> => 1 \in DOMAIN h.mods
      BY <1>3, ModListFacts
    <2>2. \A i, j \in DOMAIN h.mods : i # j => h.mods[i] # h.mods[j] BY <1>3 DEF ModLists
    <2> QED BY <2>1, <2>2, StartupAssumption
  <1>4. CASE h \in AmdHosts
    <2>1. PICK m \in ModLists(Others \cup {"LINEAR"}) : h = [intel |-> FALSE, mods |-> m]
      BY <1>4 DEF AmdHosts
    <2>2. ~h.intel /\ h.mods \in ModLists(Others \cup {"LINEAR"}) BY <2>1
    <2>3. 1 \in DOMAIN h.mods /\ \A i \in DOMAIN h.mods : i \in Nat /\ i >= 1
      BY <1>3, <2>2
    <2>4. \A i : Priority(h, h.mods[i]) = 1 BY <2>2 DEF Priority
    <2>5. best = {1}
      <3>1. \A i, j \in DOMAIN h.mods : beats(i, j) <=> i <= j BY <2>4
      <3> HIDE DEF beats
      <3> QED BY <2>3, <3>1
    <2>6. Allocated(h) = h.mods[1] BY <1>2, <2>5
    <2> QED BY <2>2, <2>6 DEF Choose
  <1>5. CASE h \in IntelHosts
    <2> DEFINE tilings == {"LINEAR", "X_TILED", "Y_TILED"}
    <2>1. PICK m \in ModLists(Tilings) : h = [intel |-> TRUE, mods |-> m]
      BY <1>5 DEF IntelHosts
    <2>2. h.intel /\ h.mods \in ModLists(Tilings) BY <2>1
    <2>3. /\ 1 \in DOMAIN h.mods
          /\ \A i \in DOMAIN h.mods : i \in Nat /\ i >= 1 /\ h.mods[i] \in tilings
          /\ \A i, j \in DOMAIN h.mods : h.mods[i] = h.mods[j] => i = j
      <3>1. \A i \in DOMAIN h.mods : h.mods[i] # "4_TILED" BY <2>2 DEF Handled, Reports
      <3> QED BY <1>3, <2>2, <3>1 DEF Tilings
    <2>4. ASSUME NEW i \in DOMAIN h.mods
          PROVE  Priority(h, h.mods[i]) = IF h.mods[i] = "Y_TILED" THEN 3
                                          ELSE IF h.mods[i] = "X_TILED" THEN 2 ELSE 1
      BY <2>2, <2>3 DEF Priority
    <2>5. ASSUME NEW k \in DOMAIN h.mods, \A i \in DOMAIN h.mods : i # k =>
                    /\ h.mods[k] = "Y_TILED" \/ h.mods[i] # "Y_TILED"
                    /\ h.mods[k] # "LINEAR" \/ h.mods[i] # "X_TILED"
                    /\ h.mods[k] # "LINEAR" \/ k = 1
          PROVE  Allocated(h) = h.mods[k]
      <3>1. \A j \in DOMAIN h.mods : beats(k, j) BY <2>3, <2>4, <2>5
      <3>2. \A i \in DOMAIN h.mods : i # k => ~beats(i, k) BY <2>3, <2>4, <2>5
      <3>3. best = {k}
        <4> HIDE DEF beats
        <4> QED BY <3>1, <3>2
      <3> QED BY <1>2, <3>3
    <2>6. CASE Reports(h, "Y_TILED")
      <3>1. PICK k \in DOMAIN h.mods : h.mods[k] = "Y_TILED" BY <2>6 DEF Reports
      <3>2. Allocated(h) = h.mods[k] BY <2>3, <2>5, <3>1
      <3> QED BY <2>2, <2>6, <3>1, <3>2 DEF Choose
    <2>7. CASE ~Reports(h, "Y_TILED") /\ Reports(h, "X_TILED")
      <3>1. PICK k \in DOMAIN h.mods : h.mods[k] = "X_TILED" BY <2>7 DEF Reports
      <3>2. \A i \in DOMAIN h.mods : h.mods[i] # "Y_TILED" BY <2>7 DEF Reports
      <3>3. Allocated(h) = h.mods[k] BY <2>3, <2>5, <3>1, <3>2
      <3> QED BY <2>2, <2>7, <3>1, <3>3 DEF Choose
    <2>8. CASE ~Reports(h, "Y_TILED") /\ ~Reports(h, "X_TILED")
      <3>1. \A i \in DOMAIN h.mods : h.mods[i] = "LINEAR" BY <2>3, <2>8 DEF Reports
      <3>2. Allocated(h) = h.mods[1] BY <2>3, <2>5, <3>1
      <3> QED BY <2>2, <2>8, <3>2 DEF Choose
    <2> QED BY <2>6, <2>7, <2>8
  <1> QED BY <1>4, <1>5

\* What is chosen is a modifier.
LEMMA ChosenModifier ==
  ASSUME NEW h \in AmdHosts \cup IntelHosts, h.mods # <<>>
  PROVE  {Choose(h), h.mods[1]} \subseteq Modifiers \ {"none"}
  <1>1. ASSUME NEW S, h.mods \in ModLists(S) PROVE h.mods[1] \in S
    BY <1>1, ModListFacts
  <1>2. CASE h \in AmdHosts
    <2>1. PICK m \in ModLists(Others \cup {"LINEAR"}) : h = [intel |-> FALSE, mods |-> m]
      BY <1>2 DEF AmdHosts
    <2>2. ~h.intel /\ h.mods[1] \in Others \cup {"LINEAR"} BY <1>1, <2>1
    <2> QED BY <2>2, StartupAssumption DEF Choose, Modifiers, Tilings
  <1>3. CASE h \in IntelHosts
    <2>1. PICK m \in ModLists(Tilings) : h = [intel |-> TRUE, mods |-> m]
      BY <1>3 DEF IntelHosts
    <2>2. h.mods[1] \in Tilings BY <1>1, <2>1
    <2> QED BY <2>2 DEF Choose, Modifiers, Tilings
  <1> QED BY <1>2, <1>3

------------------------------------------------------------------------------
(* Whose turn it is.                                                       *)

\* main's list of backends, spelled out.
LEMMA TodoFacts ==
  /\ Len(<<"encode", "decode">>) = 2 /\ Len(<<"decode", "encode">>) = 2
  /\ Head(<<"encode", "decode">>) = "encode" /\ Head(<<"decode", "encode">>) = "decode"
  /\ Tail(<<"encode", "decode">>) = <<"decode">> /\ Tail(<<"decode", "encode">>) = <<"encode">>
  /\ Len(<<"encode">>) = 1 /\ Len(<<"decode">>) = 1
  /\ Head(<<"encode">>) = "encode" /\ Head(<<"decode">>) = "decode"
  /\ Tail(<<"encode">>) = <<>> /\ Tail(<<"decode">>) = <<>>
  /\ <<"encode", "decode">> # <<>> /\ <<"decode", "encode">> # <<>>
  /\ <<"encode">> # <<>> /\ <<"decode">> # <<>>
  OBVIOUS

\* An init function that returns is done with, and main goes on to the other backend,
\* whose turn is still to come if it was, or to its socket.
LEMMA ReturnFacts ==
  ASSUME TypeOK, NEW b \in Backends, NEW other \in Backends, b # other,
         todo # <<>>, Head(todo) = b, NEW ok \in BOOLEAN, Return(ok)
  PROVE  /\ todo' \in {<<other>>, <<>>}
         /\ pc' = IF todo' = <<>> THEN "listen" ELSE other
         /\ have' \in [Backends -> BOOLEAN] /\ have'[b] = ok /\ have'[other] = have[other]
         /\ ~Pending(b)' /\ (Pending(other)' <=> Pending(other))
         /\ pc' = other => Pending(other)
         /\ OrderInv'
  <1>1. {b, other} = {"encode", "decode"} BY DEF Backends
  <1>2. CASE Len(todo) = 2
    <2>1. todo = <<b, other>> BY <1>1, <1>2, TodoFacts DEF TypeOK
    <2>2. todo' = <<other>> /\ pc' = other BY <1>1, <2>1, TodoFacts DEF Return, First
    <2>3. have' \in [Backends -> BOOLEAN] /\ have'[b] = ok /\ have'[other] = have[other]
      BY <2>1, <1>1, TodoFacts DEF Return, TypeOK
    <2>4. ~Pending(b)' /\ Pending(other)' /\ Pending(other)
      BY <1>1, <2>1, <2>2, TodoFacts DEF Pending
    <2>5. OrderInv' BY <1>1, <2>2, TodoFacts DEF OrderInv, EncodeSteps, DecodeSteps, Ends
    <2> QED BY <1>1, <2>2, <2>3, <2>4, <2>5, TodoFacts
  <1>3. CASE Len(todo) # 2
    <2>1. todo = <<b>> BY <1>1, <1>3, TodoFacts DEF TypeOK
    <2>2. todo' = <<>> /\ pc' = "listen" BY <1>1, <2>1, TodoFacts DEF Return, First
    <2>3. have' \in [Backends -> BOOLEAN] /\ have'[b] = ok /\ have'[other] = have[other]
      BY <2>1, <1>1, TodoFacts DEF Return, TypeOK
    <2>4. ~Pending(b)' /\ ~Pending(other)' /\ ~Pending(other)
      BY <1>1, <2>1, <2>2, TodoFacts DEF Pending
    <2>5. OrderInv' BY <2>2 DEF OrderInv, EncodeSteps, DecodeSteps, Ends
    <2> QED BY <1>1, <2>2, <2>3, <2>4, <2>5
  <1> QED BY <1>2, <1>3

\* A step of an init function leaves main's list alone.
LEMMA GoOnFacts ==
  ASSUME OrderInv, todo' = todo,
         \/ pc \in EncodeSteps /\ pc' \in EncodeSteps
         \/ pc \in DecodeSteps /\ pc' \in DecodeSteps
  PROVE  /\ OrderInv'
         /\ Pending("encode")' <=> Pending("encode")
         /\ Pending("decode")' <=> Pending("decode")
  <1>1. OrderInv' BY DEF OrderInv, EncodeSteps, DecodeSteps, Ends
  <1>2. /\ Pending("encode")' <=> Pending("encode")
        /\ Pending("decode")' <=> Pending("decode")
    BY DEF Pending
  <1> QED BY <1>1, <1>2

------------------------------------------------------------------------------
(* The steps.                                                              *)

\* The daemon starts in the invariant.
LEMMA InitIInv == Init => IInv
  <1> SUFFICES ASSUME Init PROVE IInv OBVIOUS
  <1> USE TodoFacts, StartupAssumption
  <1>1. todo \in {<<"encode", "decode">>, <<"decode", "encode">>} /\ Len(todo) = 2
    BY DEF Init
  <1>2. TypeOK
    <2>1. host \in [gpu : AmdHosts \cup IntelHosts, name : Names]
          /\ env \in [name : Names \cup {"nvidia"}, debug : Debugs \cup {"nodcc"}]
          /\ env.name = host.name
      BY DEF Init
    <2>2. read \in [Backends -> Names \cup {"never", "nvidia"}] /\ have \in [Backends -> BOOLEAN]
      BY DEF Init
    <2>3. st.modifier \in Modifiers BY DEF Init, Modifiers
    <2> QED BY <1>1, <2>1, <2>2, <2>3 DEF Init, TypeOK, Modifiers, Told
  <1>3. OrderInv BY <1>1 DEF Init, OrderInv, EncodeSteps, DecodeSteps, Ends
  <1>4. EnvironmentInv
    BY DEF Init, EnvironmentInv, DriversSeeOwnEnvironment, Backends
  <1>5. EncodeInv /\ DecodeInv /\ OffersOnlyInitialised
    BY DEF Init, EncodeInv, DecodeInv, OffersOnlyInitialised, Backends, EncodeSteps
  <1> QED BY <1>2, <1>3, <1>4, <1>5 DEF IInv

\* main puts nodcc into the environment before anything reads it.
LEMMA MainStep ==
  ASSUME IInv, Main PROVE IInv'
  <1> USE DEF IInv
  <1>1. /\ todo \in {<<"encode", "decode">>, <<"decode", "encode">>}
        /\ pc' = Head(todo) /\ todo' = todo
    <2>1. Len(todo) = 2 /\ pc' = First(todo) /\ todo' = todo BY DEF Main, OrderInv
    <2>2. todo \in {<<"encode", "decode">>, <<"decode", "encode">>, <<"encode">>,
                    <<"decode">>, <<>>}
      BY DEF TypeOK
    <2>3. todo \in {<<"encode", "decode">>, <<"decode", "encode">>}
      BY <2>1, <2>2, TodoFacts
    <2> QED BY <2>1, <2>3, TodoFacts DEF First
  <1>2. pc' \in {"encode", "decode"} /\ Head(todo') = pc' /\ todo' # <<>>
    BY <1>1, TodoFacts
  <1>3. TypeOK' BY <1>1, <1>2 DEF Main, TypeOK, EncodeSteps, DecodeSteps
  <1>4. OrderInv' BY <1>2 DEF OrderInv, EncodeSteps, DecodeSteps, Ends
  <1>5. EnvironmentInv'
    <2>1. env'.name = env.name /\ env'.debug = "nodcc" BY DEF Main, TypeOK
    <2> QED BY <1>2, <2>1 DEF Main, EnvironmentInv, DriversSeeOwnEnvironment
  <1>6. \A b \in Backends : Pending(b)' <=> Pending(b) BY <1>1 DEF Pending
  <1>7. EncodeInv'
    BY <1>2, <1>6 DEF Main, EncodeInv, EncodeSteps, Backends
  <1>8. DecodeInv'
    BY <1>2, <1>6 DEF Main, DecodeInv, Backends
  <1>9. OffersOnlyInitialised' BY <1>2 DEF Main, OffersOnlyInitialised
  <1> QED BY <1>3, <1>4, <1>5, <1>7, <1>8, <1>9

\* Mesa caches what it finds, and what it finds after main's setenv is nodcc.
LEMMA MesaFacts ==
  ASSUME EnvironmentInv, pc # "main", MesaRuns PROVE debugRead' = "nodcc"
  BY DEF EnvironmentInv, DriversSeeOwnEnvironment, MesaRuns

\* The encoder's vaInitialize finds the name the process was started with.
LEMMA EncodeInitializeStep ==
  ASSUME IInv, EncodeInitialize PROVE IInv'
  <1> USE DEF IInv
  <1>1. /\ pc = "encode" /\ todo # <<>> /\ Head(todo) = "encode" /\ env' = env /\ host' = host
        /\ saved' = saved /\ dec' = dec /\ told' = told /\ mesa' = mesa /\ Pending("encode")
    BY DEF EncodeInitialize, OrderInv, EncodeSteps, Pending
  <1>2. /\ read' \in [Backends -> Names \cup {"never", "nvidia"}]
        /\ read'["decode"] = read["decode"] /\ read'["encode"] \in {read["encode"], host.name}
        /\ debugRead' \in {"never", "nodcc"}
    <2>1. env.name = host.name /\ host.name \in Names /\ env.name \in Names
      BY <1>1 DEF EnvironmentInv, DriversSeeOwnEnvironment, TypeOK
    <2>2. debugRead' = debugRead \/ debugRead' = "nodcc"
      BY <1>1, MesaFacts DEF EncodeInitialize
    <2>3. debugRead \in {"never", "nodcc"} BY DEF EnvironmentInv, DriversSeeOwnEnvironment
    <2> QED BY <2>1, <2>2, <2>3 DEF EncodeInitialize, TypeOK, Backends
  <1>3. CASE Return(FALSE) /\ st' = st
    <2>1. /\ todo' \in {<<"decode">>, <<>>} /\ pc' \in {"decode", "listen"}
          /\ have' \in [Backends -> BOOLEAN] /\ have'["encode"] = FALSE
          /\ have'["decode"] = have["decode"] /\ ~Pending("encode")'
          /\ Pending("decode")' <=> Pending("decode")
          /\ OrderInv'
      BY <1>1, <1>3, ReturnFacts DEF Backends
    <2>2. TypeOK' BY <1>1, <1>2, <1>3, <2>1 DEF TypeOK, EncodeSteps, DecodeSteps, Ends
    <2>3. EnvironmentInv'
      BY <1>1, <1>2, <2>1 DEF EnvironmentInv, DriversSeeOwnEnvironment
    <2>4. EncodeInv' BY <1>1, <1>3, <2>1 DEF EncodeInv, EncodeSteps
    <2>5. DecodeInv' BY <1>1, <1>3, <2>1 DEF DecodeInv
    <2>6. OffersOnlyInitialised'
      BY <1>1, <1>3, <2>1, <2>5 DEF OffersOnlyInitialised, DecodeInv
    <2> QED BY <2>1, <2>2, <2>3, <2>4, <2>5, <2>6
  <1>4. CASE GoOn("gbm") /\ st' = [st EXCEPT !.dpy = TRUE]
    <2>1. /\ pc' = "gbm" /\ todo' = todo /\ have' = have /\ OrderInv'
          /\ Pending("encode")' <=> Pending("encode")
          /\ Pending("decode")' <=> Pending("decode")
      <3>1. /\ pc' = "gbm" /\ todo' = todo /\ have' = have
            /\ pc \in EncodeSteps /\ pc' \in EncodeSteps
        BY <1>1, <1>4 DEF GoOn, EncodeSteps
      <3> QED BY <3>1, GoOnFacts
    <2>2. /\ st' \in [dpy : BOOLEAN, modifier : Modifiers, legacy : BOOLEAN,
                      entrypoint : BOOLEAN, config : BOOLEAN, vpp : BOOLEAN]
          /\ st'.dpy /\ st'.modifier = st.modifier
      BY <1>4 DEF TypeOK
    <2>3. TypeOK' BY <1>1, <1>2, <2>1, <2>2 DEF TypeOK, EncodeSteps
    <2>4. EnvironmentInv'
      BY <1>1, <1>2, <2>1 DEF EnvironmentInv, DriversSeeOwnEnvironment
    <2>5. EncodeInv' BY <1>1, <2>1, <2>2 DEF EncodeInv, EncodeSteps, Backends
    <2>6. DecodeInv' BY <1>1, <2>1 DEF DecodeInv, Backends
    <2>7. OffersOnlyInitialised'
      BY <1>1, <2>1, <2>5, <2>6 DEF OffersOnlyInitialised, DecodeInv, EncodeInv
    <2> QED BY <2>1, <2>3, <2>4, <2>5, <2>6, <2>7
  <1> QED BY <1>3, <1>4 DEF EncodeInitialize

\* What the steps of the encoder's init function after vaInitialize leave alone.
LEMMA EncodeGoOn ==
  ASSUME IInv, NEW next \in EncodeSteps \ {"encode"}, GoOn(next), pc \in EncodeSteps \ {"encode"},
         UNCHANGED <<host, env, saved, read, dec>>, debugRead' \in {debugRead, "nodcc"},
         told' \in Told, mesa' \in SUBSET {"gbm", "egl"},
         st' \in [dpy : BOOLEAN, modifier : Modifiers, legacy : BOOLEAN,
                  entrypoint : BOOLEAN, config : BOOLEAN, vpp : BOOLEAN],
         EncodeInv'
  PROVE  IInv'
  <1> USE DEF IInv
  <1>1. /\ pc' = next /\ todo' = todo /\ have' = have /\ OrderInv'
        /\ Pending("encode")' <=> Pending("encode")
        /\ Pending("decode")' <=> Pending("decode")
    <2>1. /\ pc' = next /\ todo' = todo /\ have' = have
          /\ pc \in EncodeSteps /\ pc' \in EncodeSteps
      BY DEF GoOn
    <2> QED BY <2>1, GoOnFacts
  <1>2. Pending("encode") BY DEF OrderInv, EncodeSteps, Pending
  <1>3. TypeOK'
    <2>1. pc' \in {"main"} \cup EncodeSteps \cup DecodeSteps \cup Ends BY <1>1
    <2> QED BY <1>1, <2>1 DEF TypeOK
  <1>4. EnvironmentInv'
    BY <1>1 DEF EnvironmentInv, DriversSeeOwnEnvironment, EncodeSteps
  <1>5. DecodeInv' BY <1>1 DEF DecodeInv, Backends, EncodeSteps
  <1>6. OffersOnlyInitialised'
    BY <1>1, <1>2, <1>5 DEF OffersOnlyInitialised, DecodeInv, EncodeInv, EncodeSteps, Backends
  <1> QED BY <1>1, <1>3, <1>4, <1>5, <1>6

\* Without GBM or EGL the modifier is LINEAR.
LEMMA CreateGbmStep ==
  ASSUME IInv, CreateGbm PROVE IInv'
  <1>1. pc = "gbm" /\ debugRead' = "nodcc" BY MesaFacts DEF CreateGbm, IInv
  <1>2. CASE GoOn("modifiers") /\ mesa' = {"gbm", "egl"} /\ UNCHANGED st
    <2>1. pc' = "modifiers" /\ todo' = todo /\ have' = have BY <1>2 DEF GoOn
    <2>2. EncodeInv'
      BY <1>1, <1>2, <2>1 DEF IInv, EncodeInv, EncodeSteps, Pending
    <2> QED BY <1>1, <1>2, <2>2, EncodeGoOn DEF CreateGbm, EncodeSteps, IInv, TypeOK
  <1>3. CASE GoOn("entrypoint") /\ st' = [st EXCEPT !.modifier = "LINEAR"] /\ UNCHANGED mesa
    <2>1. pc' = "entrypoint" /\ todo' = todo /\ have' = have BY <1>3 DEF GoOn
    <2>2. /\ st' \in [dpy : BOOLEAN, modifier : Modifiers, legacy : BOOLEAN,
                      entrypoint : BOOLEAN, config : BOOLEAN, vpp : BOOLEAN]
          /\ st'.dpy = st.dpy /\ st'.modifier = "LINEAR"
      BY <1>3 DEF IInv, TypeOK, Modifiers, Tilings
    <2>3. EncodeInv'
      BY <1>1, <1>3, <2>1, <2>2 DEF IInv, EncodeInv, EncodeSteps, Pending
    <2> QED BY <1>1, <1>3, <2>2, <2>3, EncodeGoOn DEF CreateGbm, EncodeSteps, IInv, TypeOK
  <1> QED BY <1>2, <1>3 DEF CreateGbm

\* The modifier is one the GPU reported, or LINEAR with the legacy import, or what was
\* in the memory of a list that was never filled in.
LEMMA QueryModifiersStep ==
  ASSUME IInv, QueryModifiers PROVE IInv'
  <1>1. /\ pc = "modifiers" /\ pc' = "entrypoint" /\ todo' = todo /\ have' = have
        /\ mesa' = mesa \ {"gbm"} /\ debugRead' = debugRead
    BY DEF QueryModifiers, GoOn
  <1>2. /\ st' \in [dpy : BOOLEAN, modifier : Modifiers, legacy : BOOLEAN,
                    entrypoint : BOOLEAN, config : BOOLEAN, vpp : BOOLEAN]
        /\ st'.dpy = st.dpy /\ st'.modifier # "none"
    <2>1. CASE st' = [st EXCEPT !.modifier = "LINEAR", !.legacy = TRUE]
      BY <2>1 DEF IInv, TypeOK, Modifiers, Tilings
    <2>2. ASSUME host.gpu.mods # <<>>,
                 NEW m, m = Choose(host.gpu) \/ m = host.gpu.mods[1] \/ m \in Modifiers \ {"none"},
                 st' = [st EXCEPT !.modifier = m]
          PROVE  /\ st' \in [dpy : BOOLEAN, modifier : Modifiers, legacy : BOOLEAN,
                             entrypoint : BOOLEAN, config : BOOLEAN, vpp : BOOLEAN]
                 /\ st'.dpy = st.dpy /\ st'.modifier # "none"
      <3>1. host.gpu \in AmdHosts \cup IntelHosts BY DEF IInv, TypeOK
      <3>2. m \in Modifiers \ {"none"} BY <2>2, <3>1, ChosenModifier
      <3> QED BY <2>2, <3>2 DEF IInv, TypeOK
    <2> QED BY <2>1, <2>2 DEF QueryModifiers
  <1>3. EncodeInv'
    BY <1>1, <1>2 DEF IInv, EncodeInv, EncodeSteps, Pending
  <1>4. mesa' \in SUBSET {"gbm", "egl"} /\ told' \in Told
    BY <1>1 DEF QueryModifiers, IInv, TypeOK, Told
  <1> QED
    BY <1>1, <1>2, <1>3, <1>4, EncodeGoOn DEF QueryModifiers, EncodeSteps

\* A config is made or the encoder is given up; it is offered when it has all of them.
LEMMA EncodeConfigStep ==
  ASSUME IInv, EncodeConfig PROVE IInv'
  <1> USE DEF IInv
  <1>1. /\ env' = env /\ host' = host /\ saved' = saved /\ dec' = dec /\ told' = told
        /\ mesa' = mesa /\ read' = read /\ debugRead' = debugRead
        /\ pc \in {"entrypoint", "config", "vppConfig"}
    BY DEF EncodeConfig
  <1>2. /\ pc \in EncodeSteps \ {"encode"} /\ todo # <<>> /\ Head(todo) = "encode"
        /\ Pending("encode")
    BY <1>1 DEF OrderInv, EncodeSteps, Pending
  <1>3. CASE pc = "entrypoint" /\ GoOn("config") /\ st' = [st EXCEPT !.entrypoint = TRUE]
    <2>1. /\ pc' = "config" /\ todo' = todo /\ have' = have BY <1>3 DEF GoOn
    <2>2. /\ st' \in [dpy : BOOLEAN, modifier : Modifiers, legacy : BOOLEAN,
                      entrypoint : BOOLEAN, config : BOOLEAN, vpp : BOOLEAN]
          /\ st'.dpy = st.dpy /\ st'.modifier = st.modifier /\ st'.entrypoint
      BY <1>3 DEF TypeOK
    <2>3. EncodeInv'
      BY <1>1, <1>3, <2>1, <2>2 DEF EncodeInv, EncodeSteps, Pending
    <2> QED BY <1>1, <1>2, <1>3, <2>2, <2>3, EncodeGoOn DEF EncodeSteps, TypeOK
  <1>4. CASE pc = "config" /\ GoOn("vppConfig") /\ st' = [st EXCEPT !.config = TRUE]
    <2>1. /\ pc' = "vppConfig" /\ todo' = todo /\ have' = have BY <1>4 DEF GoOn
    <2>2. /\ st' \in [dpy : BOOLEAN, modifier : Modifiers, legacy : BOOLEAN,
                      entrypoint : BOOLEAN, config : BOOLEAN, vpp : BOOLEAN]
          /\ st'.dpy = st.dpy /\ st'.modifier = st.modifier /\ st'.config
          /\ st'.entrypoint = st.entrypoint
      BY <1>4 DEF TypeOK
    <2>3. EncodeInv'
      BY <1>1, <1>4, <2>1, <2>2 DEF EncodeInv, EncodeSteps, Pending
    <2> QED BY <1>1, <1>2, <1>4, <2>2, <2>3, EncodeGoOn DEF EncodeSteps, TypeOK
  <1>5. ASSUME NEW ok \in BOOLEAN, Return(ok),
               st' \in [dpy : BOOLEAN, modifier : Modifiers, legacy : BOOLEAN,
                        entrypoint : BOOLEAN, config : BOOLEAN, vpp : BOOLEAN],
               ok => /\ st'.dpy /\ st'.entrypoint /\ st'.config /\ st'.vpp
                     /\ st'.modifier # "none"
        PROVE  IInv'
    <2>1. /\ todo' \in {<<"decode">>, <<>>} /\ pc' \in {"decode", "listen"}
          /\ have' \in [Backends -> BOOLEAN] /\ have'["encode"] = ok
          /\ have'["decode"] = have["decode"] /\ ~Pending("encode")'
          /\ Pending("decode")' <=> Pending("decode")
          /\ OrderInv'
      BY <1>2, <1>5, ReturnFacts DEF Backends
    <2>2. TypeOK' BY <1>1, <1>5, <2>1 DEF TypeOK, EncodeSteps, DecodeSteps, Ends
    <2>3. EnvironmentInv'
      BY <1>1, <2>1 DEF EnvironmentInv, DriversSeeOwnEnvironment
    <2>4. EncodeInv' BY <1>1, <1>2, <2>1 DEF EncodeInv, EncodeSteps
    <2>5. DecodeInv' BY <1>1, <2>1 DEF DecodeInv
    <2>6. OffersOnlyInitialised'
      BY <1>1, <1>5, <2>1, <2>5 DEF OffersOnlyInitialised, DecodeInv, EncodeInv
    <2> QED BY <2>1, <2>2, <2>3, <2>4, <2>5, <2>6
  <1>6. CASE pc = "vppConfig" /\ Return(TRUE) /\ st' = [st EXCEPT !.vpp = TRUE]
    <2>1. /\ st.dpy /\ st.entrypoint /\ st.config /\ st.modifier # "none"
      BY <1>6 DEF EncodeInv, EncodeSteps
    <2>2. /\ st' \in [dpy : BOOLEAN, modifier : Modifiers, legacy : BOOLEAN,
                      entrypoint : BOOLEAN, config : BOOLEAN, vpp : BOOLEAN]
          /\ st'.dpy /\ st'.entrypoint /\ st'.config /\ st'.vpp /\ st'.modifier # "none"
      BY <1>6, <2>1 DEF TypeOK
    <2> QED BY <1>5, <1>6, <2>2
  <1>7. CASE Return(FALSE) /\ UNCHANGED st
    BY <1>5, <1>7 DEF TypeOK
  <1> QED BY <1>3, <1>4, <1>6, <1>7 DEF EncodeConfig

\* What the steps of the decoder's init function leave alone.
LEMMA DecodeGoOn ==
  ASSUME IInv, NEW next \in DecodeSteps \ {"decode"}, GoOn(next), pc \in DecodeSteps,
         UNCHANGED <<host, debugRead, st, told, mesa>>,
         env' \in [name : Names \cup {"nvidia"}, debug : Debugs \cup {"nodcc"}],
         saved' \in Names, read' \in [Backends -> Names \cup {"never", "nvidia"}],
         dec' \in [dpy : BOOLEAN, config : BOOLEAN, vpp : BOOLEAN, vulkan : BOOLEAN,
                   vkReady : BOOLEAN, ready : BOOLEAN],
         EnvironmentInv', DecodeInv'
  PROVE  IInv'
  <1> USE DEF IInv
  <1>1. /\ pc' = next /\ todo' = todo /\ have' = have /\ OrderInv'
        /\ Pending("encode")' <=> Pending("encode")
        /\ Pending("decode")' <=> Pending("decode")
    <2>1. /\ pc' = next /\ todo' = todo /\ have' = have
          /\ pc \in DecodeSteps /\ pc' \in DecodeSteps
      BY DEF GoOn
    <2> QED BY <2>1, GoOnFacts
  <1>2. Pending("decode") BY DEF OrderInv, DecodeSteps, Pending
  <1>3. TypeOK'
    <2>1. pc' \in {"main"} \cup EncodeSteps \cup DecodeSteps \cup Ends BY <1>1
    <2> QED BY <1>1, <2>1 DEF TypeOK
  <1>4. EncodeInv' BY <1>1 DEF EncodeInv, Backends, DecodeSteps, EncodeSteps
  <1>5. OffersOnlyInitialised'
    BY <1>1, <1>2, <1>4 DEF OffersOnlyInitialised, DecodeInv, EncodeInv, DecodeSteps, Backends
  <1> QED BY <1>1, <1>3, <1>4, <1>5

\* The decoder's init function returns: the environment is the process's own, and what
\* it says is what the ready flags say.
LEMMA DecodeReturn ==
  ASSUME IInv, NEW ok \in BOOLEAN, Return(ok), pc \in DecodeSteps,
         UNCHANGED <<host, saved, st, told, mesa>>,
         env' \in [name : Names \cup {"nvidia"}, debug : Debugs \cup {"nodcc"}],
         env'.name = host.name, env'.debug = "nodcc",
         read' \in [Backends -> Names \cup {"never", "nvidia"}],
         read'["encode"] = read["encode"], read'["decode"] \in {"never", "nvidia"},
         debugRead' \in {debugRead, "nodcc"},
         dec' \in [dpy : BOOLEAN, config : BOOLEAN, vpp : BOOLEAN, vulkan : BOOLEAN,
                   vkReady : BOOLEAN, ready : BOOLEAN],
         IF ok THEN dec'.ready /\ dec'.dpy /\ dec'.config /\ dec'.vpp /\ dec'.vulkan /\ dec'.vkReady
               ELSE ~dec'.ready
  PROVE  IInv'
  <1> USE DEF IInv
  <1>1. /\ todo # <<>> /\ Head(todo) = "decode" /\ Pending("decode") /\ pc \notin EncodeSteps
    BY DEF OrderInv, EncodeSteps, DecodeSteps, Pending
  <1>2. /\ todo' \in {<<"encode">>, <<>>} /\ pc' \in {"encode", "listen"}
        /\ have' \in [Backends -> BOOLEAN] /\ have'["decode"] = ok
        /\ have'["encode"] = have["encode"] /\ ~Pending("decode")'
        /\ Pending("encode")' <=> Pending("encode")
        /\ OrderInv'
    BY <1>1, ReturnFacts DEF Backends
  <1>3. TypeOK' BY <1>2 DEF TypeOK, EncodeSteps, DecodeSteps, Ends
  <1>4. EnvironmentInv'
    BY <1>2 DEF EnvironmentInv, DriversSeeOwnEnvironment
  <1>5. EncodeInv' BY <1>1, <1>2 DEF EncodeInv, EncodeSteps
  <1>6. DecodeInv' BY <1>2 DEF DecodeInv
  <1>7. OffersOnlyInitialised'
    BY <1>2, <1>6 DEF OffersOnlyInitialised, DecodeInv, EncodeInv, DecodeSteps
  <1> QED BY <1>2, <1>3, <1>4, <1>5, <1>6, <1>7

\* The decoder sets the name aside and puts nvidia in its place, unless its device
\* cannot be opened.
LEMMA DecodeOpenStep ==
  ASSUME IInv, DecodeOpen PROVE IInv'
  <1> USE DEF IInv
  <1>1. /\ pc = "decode" /\ pc \in DecodeSteps /\ todo # <<>> /\ Head(todo) = "decode"
        /\ Pending("decode") /\ ~dec.ready
    BY DEF DecodeOpen, OrderInv, DecodeSteps, Pending, DecodeInv
  <1>2. env.name = host.name /\ env.debug = "nodcc" /\ host.name \in Names
    BY <1>1 DEF EnvironmentInv, DriversSeeOwnEnvironment, TypeOK
  <1>3. CASE GoOn("decodeInitialize") /\ saved' = env.name /\ env' = [env EXCEPT !.name = "nvidia"]
    <2>1. pc' = "decodeInitialize" /\ todo' = todo /\ have' = have BY <1>3 DEF GoOn
    <2>2. /\ env' \in [name : Names \cup {"nvidia"}, debug : Debugs \cup {"nodcc"}]
          /\ env'.name = "nvidia" /\ env'.debug = "nodcc"
      BY <1>2, <1>3 DEF TypeOK
    <2>3. EnvironmentInv'
      BY <1>1, <1>2, <1>3, <2>1, <2>2 DEF DecodeOpen, EnvironmentInv, DriversSeeOwnEnvironment
    <2>4. DecodeInv' BY <1>1, <2>1 DEF DecodeOpen, DecodeInv, Pending
    <2> QED
      BY <1>1, <1>2, <1>3, <2>2, <2>3, <2>4, DecodeGoOn DEF DecodeOpen, DecodeSteps, TypeOK
  <1>4. CASE Return(FALSE) /\ UNCHANGED <<saved, env>>
    <2>1. read["decode"] \in {"never", "nvidia"}
      BY DEF EnvironmentInv, DriversSeeOwnEnvironment
    <2> QED BY <1>1, <1>2, <1>4, <2>1, DecodeReturn DEF DecodeOpen, TypeOK
  <1> QED BY <1>3, <1>4 DEF DecodeOpen

\* The decoder's vaInitialize finds nvidia, and then the name is put back.
LEMMA DecodeInitializeStep ==
  ASSUME IInv, DecodeInitialize PROVE IInv'
  <1> USE DEF IInv
  <1>1. /\ pc = "decodeInitialize" /\ pc \in DecodeSteps /\ Pending("decode") /\ ~dec.ready
        /\ env.name = "nvidia" /\ saved = host.name /\ env.debug = "nodcc"
    BY DEF DecodeInitialize, OrderInv, DecodeSteps, Pending, DecodeInv, EnvironmentInv
  <1>2. /\ env' \in [name : Names \cup {"nvidia"}, debug : Debugs \cup {"nodcc"}]
        /\ env'.name = host.name /\ env'.debug = "nodcc"
        /\ read' \in [Backends -> Names \cup {"never", "nvidia"}]
        /\ read'["encode"] = read["encode"] /\ read'["decode"] = "nvidia"
    BY <1>1 DEF DecodeInitialize, TypeOK, Backends
  <1>3. CASE GoOn("decodeConfig") /\ dec' = [dec EXCEPT !.dpy = TRUE]
    <2>1. pc' = "decodeConfig" /\ todo' = todo /\ have' = have BY <1>3 DEF GoOn
    <2>2. EnvironmentInv'
      BY <1>1, <1>2, <2>1 DEF DecodeInitialize, EnvironmentInv, DriversSeeOwnEnvironment
    <2>3. /\ dec' \in [dpy : BOOLEAN, config : BOOLEAN, vpp : BOOLEAN, vulkan : BOOLEAN,
                       vkReady : BOOLEAN, ready : BOOLEAN]
          /\ dec'.dpy /\ dec'.ready = dec.ready /\ dec'.vkReady = dec.vkReady
      BY <1>3 DEF TypeOK
    <2>4. DecodeInv' BY <1>1, <2>1, <2>3 DEF DecodeInv, Pending
    <2> QED
      BY <1>1, <1>2, <1>3, <2>2, <2>3, <2>4, DecodeGoOn
      DEF DecodeInitialize, DecodeSteps, TypeOK
  <1>4. CASE Return(FALSE) /\ UNCHANGED dec
    BY <1>1, <1>2, <1>4, DecodeReturn DEF DecodeInitialize, TypeOK
  <1> QED BY <1>3, <1>4 DEF DecodeInitialize

\* A config is made or the decoder is given up.
LEMMA DecodeConfigStep ==
  ASSUME IInv, DecodeConfig PROVE IInv'
  <1> USE DEF IInv
  <1>1. /\ pc \in {"decodeConfig", "decodeVpp"} /\ pc \in DecodeSteps /\ Pending("decode")
        /\ ~dec.ready /\ dec.dpy /\ env.name = host.name /\ env.debug = "nodcc"
        /\ read["decode"] \in {"never", "nvidia"}
    BY DEF DecodeConfig, OrderInv, DecodeSteps, Pending, DecodeInv, EnvironmentInv,
           DriversSeeOwnEnvironment
  <1>2. CASE pc = "decodeConfig" /\ GoOn("decodeVpp") /\ dec' = [dec EXCEPT !.config = TRUE]
    <2>1. pc' = "decodeVpp" /\ todo' = todo /\ have' = have BY <1>2 DEF GoOn
    <2>2. EnvironmentInv'
      BY <1>1, <2>1 DEF DecodeConfig, EnvironmentInv, DriversSeeOwnEnvironment
    <2>3. /\ dec' \in [dpy : BOOLEAN, config : BOOLEAN, vpp : BOOLEAN, vulkan : BOOLEAN,
                       vkReady : BOOLEAN, ready : BOOLEAN]
          /\ dec'.dpy /\ dec'.config /\ dec'.ready = dec.ready /\ dec'.vkReady = dec.vkReady
      BY <1>1, <1>2 DEF TypeOK
    <2>4. DecodeInv' BY <1>1, <2>1, <2>3 DEF DecodeInv, Pending
    <2> QED
      BY <1>1, <1>2, <2>2, <2>3, <2>4, DecodeGoOn DEF DecodeConfig, DecodeSteps, TypeOK
  <1>3. CASE pc = "decodeVpp" /\ GoOn("vulkan") /\ dec' = [dec EXCEPT !.vpp = TRUE]
    <2>1. pc' = "vulkan" /\ todo' = todo /\ have' = have BY <1>3 DEF GoOn
    <2>2. EnvironmentInv'
      BY <1>1, <2>1 DEF DecodeConfig, EnvironmentInv, DriversSeeOwnEnvironment
    <2>3. /\ dec' \in [dpy : BOOLEAN, config : BOOLEAN, vpp : BOOLEAN, vulkan : BOOLEAN,
                       vkReady : BOOLEAN, ready : BOOLEAN]
          /\ dec'.dpy /\ dec'.config /\ dec'.vpp
          /\ dec'.ready = dec.ready /\ dec'.vkReady = dec.vkReady
      BY <1>1, <1>3 DEF TypeOK, DecodeInv
    <2>4. DecodeInv' BY <1>1, <2>1, <2>3 DEF DecodeInv, Pending
    <2> QED
      BY <1>1, <1>3, <2>2, <2>3, <2>4, DecodeGoOn DEF DecodeConfig, DecodeSteps, TypeOK
  <1>4. CASE Return(FALSE) /\ UNCHANGED dec
    BY <1>1, <1>4, DecodeReturn DEF DecodeConfig, TypeOK
  <1> QED BY <1>2, <1>3, <1>4 DEF DecodeConfig

\* The decoder is ready when its Vulkan is; the drivers vkCreateInstance loads find
\* the environment as main left it.
LEMMA VkInitStep ==
  ASSUME IInv, VkInit PROVE IInv'
  <1> USE DEF IInv
  <1>1. /\ pc = "vulkan" /\ pc \in DecodeSteps /\ ~dec.ready
        /\ dec.dpy /\ dec.config /\ dec.vpp /\ env.name = host.name /\ env.debug = "nodcc"
        /\ read["decode"] \in {"never", "nvidia"}
    BY DEF VkInit, OrderInv, DecodeSteps, Pending, DecodeInv, EnvironmentInv,
           DriversSeeOwnEnvironment
  <1>2. debugRead' \in {debugRead, "nodcc"} BY <1>1, MesaFacts DEF VkInit
  <1>3. CASE Return(TRUE) /\ dec' = [dec EXCEPT !.vulkan = TRUE, !.vkReady = TRUE, !.ready = TRUE]
    <2>1. /\ dec' \in [dpy : BOOLEAN, config : BOOLEAN, vpp : BOOLEAN, vulkan : BOOLEAN,
                       vkReady : BOOLEAN, ready : BOOLEAN]
          /\ dec'.ready /\ dec'.dpy /\ dec'.config /\ dec'.vpp /\ dec'.vulkan /\ dec'.vkReady
      BY <1>1, <1>3 DEF TypeOK
    <2> QED BY <1>1, <1>2, <1>3, <2>1, DecodeReturn DEF VkInit, TypeOK
  <1>4. CASE Return(FALSE) /\ UNCHANGED dec
    BY <1>1, <1>2, <1>4, DecodeReturn DEF VkInit, TypeOK
  <1> QED BY <1>3, <1>4 DEF VkInit

\* main goes on only with a backend to offer.
LEMMA ListenStep ==
  ASSUME IInv, Listen PROVE IInv'
  <1> USE DEF IInv
  <1>1. /\ pc = "listen" /\ pc' \in {"serving", "exit"} /\ todo = <<>> /\ todo' = todo
        /\ pc' = "serving" => have["encode"] \/ have["decode"]
    BY DEF Listen, OrderInv, Ends, Backends
  <1>2. \A b \in Backends : Pending(b)' <=> Pending(b) BY <1>1 DEF Pending
  <1>3. TypeOK' BY <1>1 DEF Listen, TypeOK, Ends
  <1>4. OrderInv' BY <1>1 DEF OrderInv, EncodeSteps, DecodeSteps, Ends
  <1>5. EnvironmentInv'
    BY <1>1 DEF Listen, EnvironmentInv, DriversSeeOwnEnvironment
  <1>6. EncodeInv' BY <1>1, <1>2 DEF Listen, EncodeInv, EncodeSteps, Backends
  <1>7. DecodeInv' BY <1>1, <1>2 DEF Listen, DecodeInv, Backends
  <1>8. OffersOnlyInitialised'
    BY <1>1, <1>7 DEF Listen, OffersOnlyInitialised, DecodeInv, EncodeInv
  <1> QED BY <1>3, <1>4, <1>5, <1>6, <1>7, <1>8

\* A step in which nothing happens.
LEMMA StutterStep ==
  ASSUME IInv, UNCHANGED vars PROVE IInv'
  BY DEF vars, IInv, TypeOK, OrderInv, EnvironmentInv, DriversSeeOwnEnvironment, EncodeInv,
         DecodeInv, OffersOnlyInitialised, Pending

\* Every step keeps the invariant.
LEMMA StepIInv == IInv /\ [Next]_vars => IInv'
  BY MainStep, EncodeInitializeStep, CreateGbmStep, QueryModifiersStep, EncodeConfigStep,
     DecodeOpenStep, DecodeInitializeStep, DecodeConfigStep, VkInitStep, ListenStep, StutterStep
  DEF Next

------------------------------------------------------------------------------
(* The theorems.                                                           *)

\* The inductive invariant holds of every state of start-up.
THEOREM Invariance == Spec => []IInv
  <1> QED BY InitIInv, StepIInv, PTL DEF Spec

\* Whatever fails and whichever backend comes first, each vaInitialize finds its own
\* LIBVA_DRIVER_NAME, Mesa finds nodcc, and the name is put back.
THEOREM EnvironmentKept == Spec => []DriversSeeOwnEnvironment
  <1>1. IInv => DriversSeeOwnEnvironment BY DEF IInv, EnvironmentInv
  <1> QED BY Invariance, <1>1, PTL

\* A backend that clients are offered has everything its requests use, and have_decode
\* says what the decoder's own flags say.
THEOREM OfferedIsInitialised == Spec => []OffersOnlyInitialised
  <1>1. IInv => OffersOnlyInitialised BY DEF IInv
  <1> QED BY Invariance, <1>1, PTL

\* For any GPU but Intel's with 4-tiled and any list of modifiers, what the daemon
\* settles on once it was told is what minigbm allocates with, or the legacy import;
\* and on any GPU it never changes afterwards.
THEOREM ModifierIsMinigbms == Spec => ModifierAsAllocated
  <1> DEFINE A == /\ pc = "modifiers" =>
                       \/ st'.legacy
                       \/ Informed(host.gpu, told') /\ Handled(host.gpu)
                            => st'.modifier = Allocated(host.gpu)
                  /\ st.modifier # "none" => st'.modifier = st.modifier
  <1>1. ASSUME IInv, [Next]_vars PROVE [A]_vars
    <2>1. CASE pc = "modifiers" /\ QueryModifiers
      <3>1. st.modifier = "none"
        BY <1>1, <2>1 DEF IInv, EncodeInv, OrderInv, EncodeSteps, Pending
      <3>2. CASE st' = [st EXCEPT !.modifier = "LINEAR", !.legacy = TRUE]
        BY <1>1, <3>1, <3>2 DEF IInv, TypeOK
      <3>3. CASE /\ host.gpu.mods # <<>> /\ told' \in {"all", "noVendor"}
                 /\ st' = [st EXCEPT !.modifier = IF told' = "all" THEN Choose(host.gpu)
                                                  ELSE host.gpu.mods[1]]
        <4>1. host.gpu \in AmdHosts \cup IntelHosts BY <1>1 DEF IInv, TypeOK
        <4>2. st'.modifier = IF told' = "all" THEN Choose(host.gpu) ELSE host.gpu.mods[1]
          BY <1>1, <3>3 DEF IInv, TypeOK
        <4>3. Informed(host.gpu, told') => st'.modifier = Choose(host.gpu)
          BY <3>3, <4>2 DEF Informed, Choose
        <4> QED BY <3>1, <3>3, <4>1, <4>3, ChoiceIsAllocated
      <3>4. CASE told' = "noList"
        <4>1. ~Informed(host.gpu, told') BY <3>4 DEF Informed
        <4> QED BY <3>1, <4>1
      <3> QED BY <2>1, <3>2, <3>3, <3>4 DEF QueryModifiers
    <2>2. CASE CreateGbm
      <3>1. pc = "gbm" /\ st.modifier = "none"
        BY <1>1, <2>2 DEF CreateGbm, IInv, EncodeInv, OrderInv, EncodeSteps, Pending
      <3> QED BY <3>1
    <2>3. CASE EncodeInitialize \/ EncodeConfig
      <3>1. pc # "modifiers" /\ st'.modifier = st.modifier
        BY <1>1, <2>3 DEF EncodeInitialize, EncodeConfig, IInv, TypeOK
      <3> QED BY <3>1
    <2>4. CASE Main \/ DecodeOpen \/ DecodeInitialize \/ DecodeConfig \/ VkInit \/ Listen
      <3>1. pc # "modifiers" /\ st' = st
        BY <2>4 DEF Main, DecodeOpen, DecodeInitialize, DecodeConfig, VkInit, Listen
      <3> QED BY <3>1
    <2> QED BY <1>1, <2>1, <2>2, <2>3, <2>4 DEF Next, QueryModifiers
  <1>2. [][A]_vars => ModifierAsAllocated BY PTL DEF ModifierAsAllocated
  <1> QED BY Invariance, <1>1, <1>2, PTL DEF Spec
==============================================================================
