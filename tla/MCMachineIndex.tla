--------------------------- MODULE MCMachineIndex ---------------------------
(***************************************************************************)
(* Values of the constants of MachineIndex for TLC: two books, the         *)
(* pipeline sequence and an operator.                                      *)
(***************************************************************************)
EXTENDS MachineIndex

MCBooks    == {"a", "b"}
MCBuilders == {"pipeline", "web"}
=============================================================================
