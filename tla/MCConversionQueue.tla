-------------------------- MODULE MCConversionQueue --------------------------
(***************************************************************************)
(* Values of the constants of ConversionQueue for TLC: two versions v1 and *)
(* v2 of one manual, a second manual w, and x, which has the stem of v1    *)
(* and another extension.  The configuration chooses the Docs.             *)
(***************************************************************************)
EXTENDS ConversionQueue

MCNameOf == [d \in Docs |-> IF d \in {"v1", "v2"} THEN "m.pdf"
                            ELSE IF d = "w" THEN "w.pdf" ELSE "m.docx"]
MCNames  == {MCNameOf[d] : d \in Docs}
MCStemOf == [n \in MCNames |-> IF n = "w.pdf" THEN "w" ELSE "m"]
MCStems  == {MCStemOf[n] : n \in MCNames}
===========================================================================
