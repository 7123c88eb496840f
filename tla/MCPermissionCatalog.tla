------------------------- MODULE MCPermissionCatalog -------------------------
(***************************************************************************)
(* PermissionCatalog on small instances.                                   *)
(***************************************************************************)
EXTENDS PermissionCatalog, TLC

\* Sound: no operator chooses among these values, and the modules and roles
\* that are set apart are not permuted.
MCSymmetry ==
  Permutations(Requests) \cup Permutations(Codes) \cup Permutations(Operations)
    \cup Permutations(Modules \ SystemModules) \cup Permutations(SeedPermissions)
=============================================================================
