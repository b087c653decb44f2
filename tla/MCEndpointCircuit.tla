-------------------------- MODULE MCEndpointCircuit --------------------------
(* Instances of EndpointCircuit: a Stage 2C build, a backfill of suggestions, *)
(* one recovery, one cross-check (the .cfg files choose which).               *)
EXTENDS EndpointCircuit

MCRows == [l \in Providers |-> IF l = "pi5" THEN 1 ELSE 0]
MCNoRows == [l \in Providers |-> 0]
=============================================================================
