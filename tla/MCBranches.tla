----------------------------- MODULE MCBranches -----------------------------
(***************************************************************************)
(* Branches on small instances.                                            *)
(***************************************************************************)
EXTENDS Branches, TLC

\* Sound: no operator chooses among these values.
MCSymmetry ==
  Permutations(Tenants) \cup Permutations(Requests) \cup Permutations(Codes)
=============================================================================
