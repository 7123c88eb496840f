---------------------------- MODULE SessionLedger ----------------------------
(***************************************************************************)
(* What core.refresh_sessions promises its readers, without accounts,      *)
(* handlers or statements: a session is opened once, is live until it is   *)
(* revoked or consumed by a rotation, and a consumed session is exchanged  *)
(* for at most one successor.  AuthSessions implements it.                 *)
(***************************************************************************)
EXTENDS Naturals

CONSTANT Ids

VARIABLES
  issued,  \* sessions that were ever opened
  live,    \* sessions a token of which is accepted
  owed     \* consumed sessions whose successor has not been opened

ledger == <<issued, live, owed>>

Init == issued = {} /\ live = {} /\ owed = {}

\* A login.
Open(s) ==
  /\ s \notin issued
  /\ issued' = issued \cup {s}
  /\ live' = live \cup {s}
  /\ UNCHANGED owed

\* A rotation takes the session away ...
Consume(t) ==
  /\ t \in live
  /\ live' = live \ {t}
  /\ owed' = owed \cup {t}
  /\ UNCHANGED issued

\* ... and gives another one for it,
Exchange(t, s) ==
  /\ t \in owed
  /\ s \notin issued
  /\ issued' = issued \cup {s}
  /\ live' = live \cup {s}
  /\ owed' = owed \ {t}

\* ... unless the request dies in between.
Forfeit(t) ==
  /\ t \in owed
  /\ owed' = owed \ {t}
  /\ UNCHANGED <<issued, live>>

\* Logout, termination, and the revocation of all the sessions of an account.
Revoke(T) ==
  /\ live' = live \ T
  /\ UNCHANGED <<issued, owed>>

Next ==
  \/ \E s \in Ids : Open(s)
  \/ \E t \in Ids : Consume(t) \/ Forfeit(t)
  \/ \E s, t \in Ids : Exchange(t, s)
  \/ \E T \in SUBSET Ids : Revoke(T)

Spec == Init /\ [][Next]_ledger
=============================================================================
