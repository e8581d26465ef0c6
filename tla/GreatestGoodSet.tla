-------------------------- MODULE GreatestGoodSet --------------------------
(***************************************************************************)
(* What every envelope computation of mulu promises, whatever its loops:   *)
(* it starts from the states that are not bad, discards states in any      *)
(* number of rounds, never one that belongs to a good set, and announces   *)
(* a result only when that result is itself good.  The worker (Lean lists, *)
(* set at a time) and the reference in mulu-model (edge at a time) are     *)
(* shown to implement it, so the two cross-checked answers must agree.     *)
(***************************************************************************)
EXTENDS Plant

VARIABLES plant, nb, set, done

avars == <<plant, nb, set, done>>

Init == set = InitialW(plant) /\ done = FALSE

Prune ==
  /\ ~ done
  /\ set' \subseteq set /\ set' # set
  /\ \A G \in SUBSET set : Good(plant, nb, G) => G \subseteq set'
  /\ UNCHANGED <<plant, nb, done>>

Announce ==
  /\ ~ done
  /\ Good(plant, nb, set)
  /\ done' = TRUE
  /\ UNCHANGED <<plant, nb, set>>

Next == Prune \/ Announce

Spec == Init /\ [][Next]_avars
=============================================================================
