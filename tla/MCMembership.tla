---------------------------- MODULE MCMembership ----------------------------
(***************************************************************************)
(* Membership on small instances.                                          *)
(***************************************************************************)
EXTENDS Membership, TLC

\* Sound: no operator chooses among these values.
MCSymmetry ==
  Permutations(Tenants) \cup Permutations(Requests) \cup Permutations(Codes)
    \cup Permutations(Users) \cup Permutations(Roles) \cup Permutations(Groups)
=============================================================================
