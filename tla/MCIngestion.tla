---------------------------- MODULE MCIngestion -----------------------------
(* Instances of Ingestion for TLC. *)
EXTENDS Ingestion, TLC

CONSTANTS e1, e2, e3, c1, c2, w1, w2

\* A good event, one the schema rejects, and a JSON array.
ScalarKinds == (e1 :> "valid") @@ (e2 :> "invalid") @@ (e3 :> "scalar")

\* A good event, a JSON object without an id, and an entry that is not JSON.
GarbledKinds == (e1 :> "valid") @@ (e2 :> "noid") @@ (e3 :> "garbled")

TwoValid == (e1 :> "valid") @@ (e2 :> "valid")

OneConv == [e \in Events |-> c1]
TwoConvs == [e \in Events |-> IF e = e1 THEN c1 ELSE c2]

ReplicaSymmetry == Permutations(Workers)
=============================================================================
