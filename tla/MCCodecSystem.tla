---------------------------- MODULE MCCodecSystem ----------------------------
(***************************************************************************)
(* Instances of CodecSystem for TLC: two works and a rival.                *)
(***************************************************************************)
EXTENDS CodecSystem

CONSTANTS w1, w2, r

MCConns == {w1, w2, r}
MCConnOf == <<w1, w2>>

\* The rival asks for a decode of a stream of legal length, the request that keeps the
\* daemon longest, and of the component's streams the first one may be too long;
\* MCVaapiDaemon has requests of every kind and length.
MCInit ==
    /\ SysInit
    /\ bits[r] \in 1 .. MaxBits /\ bits[w2] <= MaxBits

MCSpec == MCInit /\ [][SysNext]_sysVars /\ SysFairness
==============================================================================
