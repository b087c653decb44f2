--------------------------- MODULE MCTelegramAudit ---------------------------
(***************************************************************************)
(* Values of the constants of TelegramAudit for TLC: a text with an entry  *)
(* in each of two generations, and a picture with a normal entry in each   *)
(* and one of the sweep.  The configuration chooses the Entries.           *)
(***************************************************************************)
EXTENDS TelegramAudit

MCVisuals  == Entries \cap {"n1", "s1", "n2"}
MCSweeps   == Entries \cap {"s1"}
MCSourceOf == [e \in Entries |-> IF e \in MCVisuals THEN "picture" ELSE "text"]
MCGenOf    == [e \in Entries |-> IF e \in {"t2", "n2"} THEN 2 ELSE 1]
=============================================================================
