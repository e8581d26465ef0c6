------------------------- MODULE ReferenceEnvelope -------------------------
(***************************************************************************)
(* The reference envelope of mulu-model (envelope_chain, step, coreach_in),*)
(* against which the caller checks the worker's answer.  Unlike the worker *)
(* it has no fuel and inserts states edge by edge: a pass over the edge    *)
(* list sees what earlier edges of the same pass added.  Any order of the  *)
(* list is allowed here.                                                   *)
(***************************************************************************)
EXTENDS Plants

VARIABLES
  refPc,     \* "filter", "pass", "compare", "done"
  refW,      \* the current set
  refU,      \* states of refW whose uncontrollable successors stay in refW
  refS,      \* the backward saturation inside refU
  refTodo,   \* edges the current pass has still to visit
  refAdded   \* whether the current pass inserted a state

refVars == <<plant, nb, refPc, refW, refU, refS, refTodo, refAdded>>

RefStart ==
  /\ refPc = "filter"
  /\ refW = InitialW(plant)
  /\ refU = {} /\ refS = {} /\ refTodo = {} /\ refAdded = FALSE

RefFilter ==
  /\ refPc = "filter"
  /\ refU' = UcFilter(plant, refW)
  /\ refAdded' = FALSE
  /\ IF nb
     THEN refS' = MarkedIn(plant, refU') /\ refTodo' = plant.edges /\ refPc' = "pass"
     ELSE refS' = refU' /\ refPc' = "compare" /\ UNCHANGED refTodo
  /\ UNCHANGED <<plant, nb, refW>>

RefVisit ==
  /\ refPc = "pass"
  /\ \E e \in refTodo :
       /\ refTodo' = refTodo \ {e}
       /\ IF e.src \in refU /\ e.dst \in refS /\ e.src \notin refS
          THEN refS' = refS \cup {e.src} /\ refAdded' = TRUE
          ELSE UNCHANGED <<refS, refAdded>>
  /\ UNCHANGED <<plant, nb, refPc, refW, refU>>

RefNextPass ==
  /\ refPc = "pass" /\ refTodo = {} /\ refAdded
  /\ refTodo' = plant.edges /\ refAdded' = FALSE
  /\ UNCHANGED <<plant, nb, refPc, refW, refU, refS>>

(* Fault: one pass over the edge list is thought enough. *)
RefOnePass ==
  /\ refPc = "pass" /\ refTodo = {}
  /\ refPc' = "compare"
  /\ UNCHANGED <<plant, nb, refW, refU, refS, refTodo, refAdded>>

RefLastPass ==
  /\ refPc = "pass" /\ refTodo = {} /\ ~ refAdded
  /\ refPc' = "compare"
  /\ UNCHANGED <<plant, nb, refW, refU, refS, refTodo, refAdded>>

RefCompare ==
  /\ refPc = "compare"
  /\ refW' = refS
  /\ refPc' = IF refS = refW THEN "done" ELSE "filter"
  /\ UNCHANGED <<plant, nb, refU, refS, refTodo, refAdded>>

RefNext == RefFilter \/ RefVisit \/ RefNextPass \/ RefLastPass \/ RefCompare

RefInit == RequestInit /\ RefStart

RefSpec == RefInit /\ [][RefNext]_refVars

-----------------------------------------------------------------------------
RefTypeOK ==
  /\ IsPlant(plant) /\ nb \in BOOLEAN
  /\ refPc \in {"filter", "pass", "compare", "done"}
  /\ refW \subseteq States(plant) /\ refU \subseteq States(plant) /\ refS \subseteq refU
  /\ refTodo \subseteq plant.edges /\ refAdded \in BOOLEAN

(* Inserting while walking the list reaches the same set as saturating a   *)
(* whole set at a time, whatever the order: each round compares F(W).      *)
RoundIsEnvelopeStep == refPc = "compare" => refS = EnvStep(plant, nb, refW)

RefNothingGoodLost ==
  \A G \in SUBSET InitialW(plant) : Good(plant, nb, G) => G \subseteq refW

(* The inductive invariant: a pass that has inserted nothing so far has    *)
(* seen only edges that cannot extend refS.                                *)
RefIInv ==
  /\ RefTypeOK
  /\ refW \subseteq InitialW(plant)
  /\ RefNothingGoodLost
  /\ refPc = "pass" =>
       /\ nb /\ refU = UcFilter(plant, refW)
       /\ MarkedIn(plant, refU) \subseteq refS /\ refS \subseteq CoreachIn(plant, refU)
       /\ ~ refAdded => \A e \in plant.edges \ refTodo :
                           e.src \in refU /\ e.dst \in refS => e.src \in refS
  /\ RoundIsEnvelopeStep
  /\ refPc = "done" => EnvStep(plant, nb, refW) = refW

(* It implements the same abstract pruning as the worker does, so the      *)
(* envelope cross-check of the caller compares equal sets.                 *)
RefAbstract == INSTANCE GreatestGoodSet WITH set <- refW, done <- (refPc = "done")
RefImplements == RefAbstract!Spec
=============================================================================
