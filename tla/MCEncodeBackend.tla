--------------------------- MODULE MCEncodeBackend ---------------------------
(***************************************************************************)
(* Instances of EncodeBackend for TLC.                                     *)
(***************************************************************************)
EXTENDS EncodeBackend, TLC

\* Ids and sizes are only compared for equality.
Interchangeable == Permutations(Ids) \cup Permutations(Sizes)
==============================================================================
