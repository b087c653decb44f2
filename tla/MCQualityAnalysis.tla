------------------------- MODULE MCQualityAnalysis --------------------------
(***************************************************************************)
(* Values of the constants of QualityAnalysis for TLC: one file name, two  *)
(* exports of Docling and another ZIP.  In both exports a table cell is    *)
(* first found at low and later at high priority.                          *)
(***************************************************************************)
EXTENDS QualityAnalysis

Finding(k, p, s) == [key |-> k, priority |-> p, score |-> s, text |-> k # "picture"]

MCNames    == {"x"}
MCContents == {"v1", "v2", "junk"}
MCFindings ==
  [c \in {"v1", "v2"} |->
     IF c = "v1" THEN <<Finding("picture", 2, 60), Finding("cell", 1, 38), Finding("cell", 3, 90)>>
                 ELSE <<Finding("cell", 1, 38), Finding("group", 0, 10), Finding("text", 1, 38),
                        Finding("cell", 3, 85)>>]
=============================================================================
