---------------------------- MODULE MCCrossCheck ----------------------------
(* Deterministic plants over NumStates states, the last one bad, with one  *)
(* controllable event (0) and one uncontrollable (1), and at most MaxEdges *)
(* edges so that every order of a pass over them can be explored.          *)
EXTENDS CrossCheck

CONSTANTS NumStates, MaxEdges

Live == 0 .. (NumStates - 2)

(* An edge function maps (state, event) to its target, NumStates for none. *)
EdgesOf(f) ==
  {[src |-> d[1], ev |-> d[2], dst |-> f[d]] : d \in {c \in DOMAIN f : f[c] < NumStates}}

MCPlants ==
  {[numStates |-> NumStates, numEvents |-> 2, controllable |-> {0}, initial |-> {0},
    marked |-> m, bad |-> {NumStates - 1}, edges |-> EdgesOf(f)] :
     m \in {{0}, {0, 1}},
     f \in {g \in [Live \X {0, 1} -> 0 .. NumStates] :
              Cardinality({c \in DOMAIN g : g[c] < NumStates}) <= MaxEdges}}
=============================================================================
