----------------------------- MODULE MCAccounts -----------------------------
(***************************************************************************)
(* Accounts on small instances.                                            *)
(***************************************************************************)
EXTENDS Accounts, TLC

\* Sound: no operator chooses among these values.
MCSymmetry ==
  Permutations(Tenants) \cup Permutations(Users) \cup Permutations(Usernames)
    \cup Permutations(Words) \cup Permutations(Codes) \cup Permutations(Requests)
=============================================================================
