----------------------------- MODULE MCDbSetup -----------------------------
(***************************************************************************)
(* DbSetup as the repository has it: V001 must not run twice, V002 may, and *)
(* branches.sql, the second seed file, may be loaded twice.                *)
(***************************************************************************)
EXTENDS DbSetup

MCRerunnable == {2}

MCRerunnableSeeds == {2}
=============================================================================
