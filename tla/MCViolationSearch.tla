------------------------- MODULE MCViolationSearch -------------------------
(* Plants whose last state may be bad, as lists: every order of up to      *)
(* MaxEdges edges (the initial states' order and copies vary too).         *)
EXTENDS ViolationSearch, FiniteSets

CONSTANTS NumStates, NumEvents, MaxEdges, InitialLists, BadSets

AllEdges == [src : 0 .. (NumStates - 2), ev : 0 .. (NumEvents - 1), dst : 0 .. (NumStates - 1)]

Distinct(list) == Cardinality(Elems(list)) = Len(list)

EdgeLists == UNION {{l \in [1 .. n -> AllEdges] : Distinct(l)} : n \in 0 .. MaxEdges}

MCInputs ==
  {[plant |-> [numStates |-> NumStates, numEvents |-> NumEvents, controllable |-> {},
               initial |-> Elems(init), marked |-> {}, bad |-> bad, edges |-> Elems(l)],
    initialList |-> init, edgeList |-> l] :
     init \in InitialLists, bad \in BadSets, l \in EdgeLists}

LastBad == {{NumStates - 1}}
BadOrNone == {{}, {NumStates - 1}}
TwoInitial == {<<0>>, <<1, 0>>}
InitialBad == {<<0, NumStates - 1>>, <<NumStates - 1>>}
=============================================================================
