------------------------ MODULE MCVerificationQueue ------------------------
(***************************************************************************)
(* Values of the constants of VerificationQueue for TLC: one book, whose   *)
(* first generation of routes can have a text route t1, a vision route v1  *)
(* and sweeps s1 and a1, and whose second generation a vision route v2 and *)
(* a sweep s2.  v1 and a1 are about the same picture, so a1 exists only    *)
(* where an older release inserted it; v2 is about the picture of s1.  The *)
(* configuration chooses the Jobs.                                         *)
(***************************************************************************)
EXTENDS VerificationQueue

MCWorkers == {"pi5", "oneplus"}
MCBooks   == {"b"}
MCSweeps  == Jobs \cap {"s1", "s2", "a1"}
MCTexts   == Jobs \cap {"t1"}
MCLegacy  == Jobs \cap {"a1"}
MCBookOf  == [j \in Jobs |-> "b"]
MCGenOf   == [j \in Jobs |-> IF j \in {"s2", "v2"} THEN 2 ELSE 1]
MCLaneOf  == [j \in Jobs |-> IF j = "t1" THEN "pi5" ELSE "oneplus"]
MCCovers  == {<<"v1", "a1">>, <<"v2", "s1">>} \cap (Jobs \X Jobs)
===========================================================================
