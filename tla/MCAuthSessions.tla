--------------------------- MODULE MCAuthSessions ---------------------------
(***************************************************************************)
(* AuthSessions on small instances.  The sets of the configurations are    *)
(* sets of model values that the specification only tests for equality.    *)
(***************************************************************************)
EXTENDS AuthSessions, TLC

\* Sound for the safety runs: no operator chooses among these values.
MCSymmetry ==
  Permutations(Users) \cup Permutations(Requests) \cup Permutations(Passwords)

=============================================================================
