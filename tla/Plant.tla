------------------------------- MODULE Plant -------------------------------
(***************************************************************************)
(* The finite plant every mulu analysis speaks about, and the sets defined *)
(* over it.  A plant is the normalised core model written by mulu-model    *)
(* (core-model.json) and read by mulu-worker: states and events are        *)
(* indices, an edge is [src, ev, dst], and an event that is not listed as  *)
(* controllable is uncontrollable.                                         *)
(*                                                                         *)
(* Lists whose order and repetitions cannot matter (controllable, marked,  *)
(* bad, edges) are sets here.  Everything below is a set comprehension or  *)
(* an intersection of closed sets, the inductive predicates of the Lean    *)
(* core: no iteration, so that the modules that do iterate can be compared *)
(* with it.                                                                *)
(***************************************************************************)
EXTENDS Integers, FiniteSets

States(p) == 0 .. (p.numStates - 1)
Events(p) == 0 .. (p.numEvents - 1)

Edge(p) == [src : States(p), ev : Events(p), dst : States(p)]

(* Every index is in range: checked by the worker before any analysis. *)
WellFormed(p) ==
  /\ p.initial \subseteq States(p)
  /\ p.marked \subseteq States(p)
  /\ p.bad \subseteq States(p)
  /\ p.controllable \subseteq Events(p)
  /\ p.edges \subseteq Edge(p)

IsPlant(p) == p.numStates \in Nat /\ p.numEvents \in Nat /\ WellFormed(p)

Uncontrollable(p, ev) == ev \notin p.controllable

-----------------------------------------------------------------------------
(* Forward: the least set with the initial states, closed under edges. *)

Post(p, R) == {e.dst : e \in {f \in p.edges : f.src \in R}}

IsClosed(p, R) == p.initial \subseteq R /\ Post(p, R) \subseteq R

Reachable(p) ==
  {q \in States(p) : \A R \in SUBSET States(p) : IsClosed(p, R) => q \in R}

-----------------------------------------------------------------------------
(* Backward, inside a set U: marked states of U and what leads to them     *)
(* without leaving U.                                                      *)

PreIn(p, U, S) == {q \in U : \E e \in p.edges : e.src = q /\ e.dst \in S}

MarkedIn(p, U) == U \cap p.marked

CoreachClosed(p, U, S) == MarkedIn(p, U) \subseteq S /\ PreIn(p, U, S) \subseteq S

CoreachIn(p, U) == {q \in U : \A S \in SUBSET U : CoreachClosed(p, U, S) => q \in S}

-----------------------------------------------------------------------------
(* The envelope operator and the sets it is about. *)

UcClosedAt(p, W, q) ==
  \A e \in p.edges : e.src = q /\ Uncontrollable(p, e.ev) => e.dst \in W

UcFilter(p, W) == {q \in W : UcClosedAt(p, W, q)}

InitialW(p) == States(p) \ p.bad

(* F(W), the mathematical envelope step. *)
EnvStep(p, nb, W) == IF nb THEN CoreachIn(p, UcFilter(p, W)) ELSE UcFilter(p, W)

(* Safe, closed under uncontrollable edges and, for the nonblocking        *)
(* objective, coreachable within itself.                                   *)
Good(p, nb, W) ==
  /\ W \subseteq InitialW(p)
  /\ \A q \in W : UcClosedAt(p, W, q)
  /\ nb => W \subseteq CoreachIn(p, W)

(* The union of all good sets, as the brute-force reference computes it.   *)
Envelope(p, nb) == UNION {G \in SUBSET InitialW(p) : Good(p, nb, G)}

=============================================================================
