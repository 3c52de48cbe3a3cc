------------------------------ MODULE MCStartup ------------------------------
(***************************************************************************)
(* Instances of Startup for TLC.                                           *)
(***************************************************************************)
EXTENDS Startup

MCNames  == {Unset, "radeonsi", "nvidia"}
MCDebugs == {Unset, "info"}
MCOthers == {"AMD_1", "AMD_2"}

\* What main does, and the other order the comment in decode_h264_init speaks of.
EitherWay == {<<"encode", "decode">>, <<"decode", "encode">>}
==============================================================================
