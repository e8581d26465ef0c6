------------------------------- MODULE Plants -------------------------------
(***************************************************************************)
(* One request to mulu-worker: a plant and an objective.  The computations *)
(* made on it share these two variables and never change them.             *)
(***************************************************************************)
EXTENDS Plant

CONSTANT Plants   \* the plants a run may be started on

ASSUME PlantsAssumption == \A p \in Plants : IsPlant(p)

VARIABLES
  plant,     \* the plant under analysis
  nb         \* TRUE for the objective safety-nonblocking, FALSE for safety

request == <<plant, nb>>

RequestInit == plant \in Plants /\ nb \in BOOLEAN
=============================================================================
