----------------------------- MODULE MCGroqQuota -----------------------------
(* Instances of GroqQuota for TLC.                                         *)
EXTENDS GroqQuota

MCVerifierCalls == {"verify"}
MCAnswerCalls == {"answer"}
MCHealthCalls == {"health"}

=============================================================================
