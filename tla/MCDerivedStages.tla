-------------------------- MODULE MCDerivedStages ---------------------------
(***************************************************************************)
(* Values of the constants of DerivedStages for TLC: a book of one route,  *)
(* a text or a picture, the pipeline sequence and one other requester.     *)
(***************************************************************************)
EXTENDS DerivedStages

MCRoutes     == {"r"}
MCRequesters == {"sequence", "web"}
=============================================================================
