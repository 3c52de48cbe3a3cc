--------------------------- MODULE MCVaapiDaemon ---------------------------
(***************************************************************************)
(* Instances of VaapiDaemon for TLC.                                       *)
(***************************************************************************)
EXTENDS VaapiDaemon, SequencesExt

\* TLC's symmetry reduction is not sound for liveness.  The connections are
\* interchangeable all the same, and so is any order of their requests: it is enough
\* to start with the requests sorted by kind and length.
Rank == [encode |-> 0, untagged |-> 1, truncated |-> 2, nofd |-> 3, decode |-> 4]
Weight(c) == Rank[kind[c]] + bits[c]
Order == SetToSeq(Conns)
MCInit == Init /\ \A i, j \in DOMAIN Order : i < j => Weight(Order[i]) <= Weight(Order[j])

MCSpec == MCInit /\ [][Next]_vars /\ Fairness
==============================================================================
