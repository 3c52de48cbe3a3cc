--------------------------- MODULE MCDecodeBackend ---------------------------
(***************************************************************************)
(* Instances of DecodeBackend for TLC.                                     *)
(***************************************************************************)
EXTENDS DecodeBackend, TLC

\* Ids are only compared for equality.
Interchangeable == Permutations(Ids)
==============================================================================
