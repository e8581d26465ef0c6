-------------------------- MODULE ReachCrossCheck --------------------------
(***************************************************************************)
(* The reachable set, computed twice: mulu-worker saturates a whole set at *)
(* a time on fuel (reachIter), and then mulu-model's reference walks the   *)
(* edge list over and over, inserting as it goes, until a pass adds        *)
(* nothing (reach).  The caller compares the two answers and reports a     *)
(* difference as a cross-check error, exit code 4.  The list order of the  *)
(* edges is immaterial, so a pass visits them in any order here.           *)
(***************************************************************************)
EXTENDS Plants

VARIABLES
  reachPc,     \* "worker", "reference", "done"
  R, reachFuel, \* the worker's set and the rounds it has left
  r,           \* the reference's set
  reachTodo,   \* edges the current pass has still to visit
  reachAdded   \* whether the current pass inserted a state

reachVars == <<plant, nb, reachPc, R, reachFuel, r, reachTodo, reachAdded>>

ReachStart ==
  /\ reachPc = "worker"
  /\ R = plant.initial /\ reachFuel = plant.numStates + 1
  /\ r = {} /\ reachTodo = {} /\ reachAdded = FALSE

WorkerRound ==
  /\ reachPc = "worker" /\ reachFuel > 0
  /\ ~ (Post(plant, R) \subseteq R)
  /\ R' = R \cup Post(plant, R)
  /\ reachFuel' = reachFuel - 1
  /\ UNCHANGED <<plant, nb, reachPc, r, reachTodo, reachAdded>>

(* The worker answers; the caller computes its own set to compare.         *)
WorkerAnswers ==
  /\ reachPc = "worker"
  /\ reachFuel > 0 => Post(plant, R) \subseteq R
  /\ reachPc' = "reference"
  /\ r' = plant.initial /\ reachTodo' = plant.edges /\ reachAdded' = FALSE
  /\ UNCHANGED <<plant, nb, R, reachFuel>>

(* Fault: any edge taken counts as progress. *)
ReachVisitAlwaysAdds ==
  /\ reachPc = "reference"
  /\ \E e \in reachTodo :
       /\ reachTodo' = reachTodo \ {e}
       /\ IF e.src \in r THEN r' = r \cup {e.dst} /\ reachAdded' = TRUE
                          ELSE UNCHANGED <<r, reachAdded>>
  /\ UNCHANGED <<plant, nb, reachPc, R, reachFuel>>

ReachVisit ==
  /\ reachPc = "reference"
  /\ \E e \in reachTodo :
       /\ reachTodo' = reachTodo \ {e}
       /\ IF e.src \in r /\ e.dst \notin r
          THEN r' = r \cup {e.dst} /\ reachAdded' = TRUE
          ELSE UNCHANGED <<r, reachAdded>>
  /\ UNCHANGED <<plant, nb, reachPc, R, reachFuel>>

ReachNextPass ==
  /\ reachPc = "reference" /\ reachTodo = {} /\ reachAdded
  /\ reachTodo' = plant.edges /\ reachAdded' = FALSE
  /\ UNCHANGED <<plant, nb, reachPc, R, reachFuel, r>>

(* Fault: one pass over the edge list is thought enough. *)
ReachOnePass ==
  /\ reachPc = "reference" /\ reachTodo = {}
  /\ reachPc' = "done"
  /\ UNCHANGED <<plant, nb, R, reachFuel, r, reachTodo, reachAdded>>

ReachLastPass ==
  /\ reachPc = "reference" /\ reachTodo = {} /\ ~ reachAdded
  /\ reachPc' = "done"
  /\ UNCHANGED <<plant, nb, R, reachFuel, r, reachTodo, reachAdded>>

ReachNext == WorkerRound \/ WorkerAnswers \/ ReachVisit \/ ReachNextPass \/ ReachLastPass

ReachInit == RequestInit /\ ReachStart

ReachSpec == ReachInit /\ [][ReachNext]_reachVars

-----------------------------------------------------------------------------
ReachTypeOK ==
  /\ IsPlant(plant)
  /\ reachPc \in {"worker", "reference", "done"}
  /\ R \subseteq States(plant) /\ r \subseteq States(plant)
  /\ reachFuel \in 0 .. (plant.numStates + 1)
  /\ reachTodo \subseteq plant.edges
  /\ reachAdded \in BOOLEAN

(* The worker's set passes its own certificate check when it answers, on   *)
(* every plant: fuel never cuts the saturation short, so reachability is   *)
(* never reported partial by an analysis that ran.                         *)
WorkerCertifies == reachPc # "worker" => IsClosed(plant, R)

(* The two computations agree, with each other and with the definition:    *)
(* the caller never reports a reachability cross-check error.              *)
CrossCheckAgrees == reachPc = "done" => R = r /\ R = Reachable(plant)

(* The inductive invariant: both sets only hold reachable states, and a    *)
(* pass that has added nothing so far has seen only edges inside r.        *)
ReachIInv ==
  /\ ReachTypeOK
  /\ plant.initial \subseteq R /\ R \subseteq Reachable(plant)
  /\ reachPc = "worker" => reachFuel + Cardinality(R) > plant.numStates
  /\ reachPc # "worker" =>
       /\ Post(plant, R) \subseteq R
       /\ plant.initial \subseteq r /\ r \subseteq Reachable(plant)
       /\ ~ reachAdded => \A e \in plant.edges \ reachTodo : e.src \in r => e.dst \in r
  /\ reachPc = "done" => Post(plant, r) \subseteq r
=============================================================================
