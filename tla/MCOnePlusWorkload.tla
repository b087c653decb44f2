-------------------------- MODULE MCOnePlusWorkload --------------------------
(* Instances of OnePlusWorkload for TLC.                                   *)
EXTENDS OnePlusWorkload

\* A device loop that shares the phone with a background call.
MCCalls == {"vision", "recovery"}
MCLoopCalls == {"vision"}

=============================================================================
