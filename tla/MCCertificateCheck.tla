------------------------- MODULE MCCertificateCheck -------------------------
(* Every deterministic plant with two live states and a bad one, against   *)
(* every certificate up to the bounds, most of them wrong for the plant.   *)
EXTENDS CertificateCheck

CONSTANTS MaxPath, MaxChain

Q == 0 .. 2

EdgesOf(f) ==
  {[src |-> d[1], ev |-> d[2], dst |-> f[d]] : d \in {c \in DOMAIN f : f[c] \in Q}}

MCPlants ==
  {[numStates |-> 3, numEvents |-> 2, controllable |-> {0}, initial |-> {0},
    marked |-> {0}, bad |-> {2}, edges |-> EdgesOf(f)] :
     f \in [{0, 1} \X {0, 1} -> 0 .. 3]}

SeqsUpTo(S, n) == UNION {[1 .. k -> S] : k \in 0 .. n}

PathEdges == [src : {0, 1}, ev : {0, 1}, dst : Q]
Checks == {[pass_event |-> 0, fail_event |-> 1], [pass_event |-> 1, fail_event |-> 0]}

MCCertificates ==
  {[kind |-> "reachability", states |-> R] : R \in SUBSET (0 .. 3)}
  \cup {[kind |-> k, states |-> R, check |-> c] :
          k \in {"redundancy", "unreachable-check"}, R \in SUBSET (0 .. 3), c \in Checks}
  \cup {[kind |-> "violation", path |-> t] : t \in SeqsUpTo(PathEdges, MaxPath)}
  \cup {[kind |-> "envelope", nonblocking |-> b, chain |-> t] :
          b \in BOOLEAN, t \in SeqsUpTo(SUBSET {0, 1} \cup {{2}}, MaxChain)}
=============================================================================
