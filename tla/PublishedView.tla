--------------------------- MODULE PublishedView ----------------------------
(***************************************************************************)
(* What README.md promises of every derived artifact: readers see a view   *)
(* that was computed from the source as it is, or are told that there is   *)
(* none.  A change of the source retracts the view in the same step, and   *)
(* while it is published it stands for that source.                        *)
(***************************************************************************)
VARIABLES
  source,   \* what the view is computed from
  view,     \* the value computed last, which readers see only if current
  current   \* readers may use the view

Retract == current' = FALSE
Publish == current' = TRUE /\ view' = {source} /\ UNCHANGED source

Init == current = FALSE
Next == Retract \/ Publish
Spec == Init /\ [][Next]_<<source, view, current>>
=============================================================================
