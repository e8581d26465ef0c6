-------------------------- MODULE ViolationSearch --------------------------
(***************************************************************************)
(* mulu-worker deciding safety: a breadth-first search for a bad state     *)
(* (findViolation), the path rebuilt from the parent list, and the status  *)
(* the worker reports for it.  The path is only a candidate: what is       *)
(* reported is what checkPath says of it.                                  *)
(*                                                                         *)
(* The search walks lists, so order and repetitions count here: an input   *)
(* is a plant with its edges and initial states as the lists they come in. *)
(***************************************************************************)
EXTENDS Plant, Sequences

CONSTANT Inputs   \* records [plant, initialList, edgeList]

Elems(list) == {list[k] : k \in DOMAIN list}

(* List.filter: the elements of a list that are in T, in its order. *)
SubList(list, T) ==
  LET upTo[k \in 0 .. Len(list)] ==
        IF k = 0 THEN << >>
        ELSE IF list[k] \in T THEN Append(upTo[k - 1], list[k]) ELSE upTo[k - 1]
  IN  upTo[Len(list)]

ASSUME InputsAssumption ==
  \A m \in Inputs :
    /\ IsPlant(m.plant)
    /\ m.initialList \in Seq(m.plant.initial) /\ Elems(m.initialList) = m.plant.initial
    /\ m.edgeList \in Seq(m.plant.edges) /\ Elems(m.edgeList) = m.plant.edges

VARIABLES
  input,      \* what is searched, never changed
  pc,         \* "start", "loop", "rebuild", "report", "done"
  frontier,   \* states queued, in order
  parent,     \* edges by which states were first seen, in order of discovery
  seen,
  fuel,
  found,      \* whether the search answered with a path
  path,       \* the path rebuilt so far
  status      \* what the worker reports, "none" before

vars == <<input, pc, frontier, parent, seen, fuel, found, path, status>>

plant == input.plant

-----------------------------------------------------------------------------
Init ==
  /\ input \in Inputs
  /\ pc = "start"
  /\ frontier = << >> /\ parent = << >> /\ seen = {} /\ fuel = 0
  /\ found = FALSE /\ path = << >> /\ status = "none"

(* Fault: fuel for one visit of each state only. *)
StartWith(f) ==
  /\ pc = "start" /\ plant.bad # {}
  /\ plant.initial \cap plant.bad = {}
  /\ pc' = "loop"
  /\ frontier' = input.initialList /\ seen' = plant.initial
  /\ fuel' = f
  /\ UNCHANGED <<input, parent, found, path, status>>
StartOneVisitEach == StartWith(plant.numStates)

Fuel(m) == m.plant.numStates * Len(m.edgeList) + m.plant.numStates + 1

(* A model without a specification is not searched; an initial state that  *)
(* is bad is answered by the empty path, without a search.                 *)
Start ==
  /\ pc = "start"
  /\ IF plant.bad = {}
     THEN pc' = "done" /\ status' = "not-requested" /\ UNCHANGED <<frontier, seen, fuel, found>>
     ELSE IF plant.initial \cap plant.bad # {}
     THEN pc' = "report" /\ found' = TRUE /\ UNCHANGED <<frontier, seen, fuel, status>>
     ELSE /\ pc' = "loop"
          /\ frontier' = input.initialList
          /\ seen' = plant.initial
          /\ fuel' = Fuel(input)
          /\ UNCHANGED <<found, status>>
  /\ UNCHANGED <<input, parent, path>>

(* The targets of one expansion are compared with what was seen before it, *)
(* not with each other: parallel edges queue their target twice.           *)
NewEdges(q) == SubList(input.edgeList, {e \in plant.edges : e.src = q /\ e.dst \notin seen})

Targets(edges) == [k \in DOMAIN edges |-> edges[k].dst]

(* Faults: a stack instead of a queue, or a queue that loses its rest. *)
ExpandInto(out, queue) ==
  /\ pc = "loop" /\ fuel > 0 /\ frontier # << >>
  /\ Head(frontier) \notin plant.bad
  /\ frontier' = queue
  /\ seen' = seen \cup Elems(Targets(out)) /\ parent' = parent \o out
  /\ fuel' = fuel - 1
  /\ UNCHANGED <<input, pc, found, path, status>>
ExpandDepthFirst ==
  LET out == NewEdges(Head(frontier)) IN ExpandInto(out, Targets(out) \o Tail(frontier))
ExpandDropsQueue ==
  LET out == NewEdges(Head(frontier)) IN ExpandInto(out, Targets(out))

Expand ==
  /\ pc = "loop" /\ fuel > 0 /\ frontier # << >>
  /\ LET q == Head(frontier)
         out == NewEdges(q)
     IN  /\ q \notin plant.bad
         /\ frontier' = Tail(frontier) \o Targets(out)
         /\ seen' = seen \cup Elems(Targets(out))
         /\ parent' = parent \o out
  /\ fuel' = fuel - 1
  /\ UNCHANGED <<input, pc, found, path, status>>

ReachBad ==
  /\ pc = "loop" /\ fuel > 0 /\ frontier # << >>
  /\ Head(frontier) \in plant.bad
  /\ pc' = "rebuild"
  /\ found' = TRUE
  /\ UNCHANGED <<input, frontier, parent, seen, fuel, path, status>>

(* Nothing left to expand, or no fuel left to expand it with.              *)
GiveUp ==
  /\ pc = "loop" /\ (fuel = 0 \/ frontier = << >>)
  /\ pc' = "report"
  /\ UNCHANGED <<input, frontier, parent, seen, fuel, found, path, status>>

(* The state the rebuilt path must still be connected from, the edge that  *)
(* first discovered it, and whether rebuilding goes on.                    *)
At == IF path = << >> THEN Head(frontier) ELSE path[1].src

Discoveries == {k \in DOMAIN parent : parent[k].dst = At}

FirstDiscovery == parent[CHOOSE k \in Discoveries : \A l \in Discoveries : k <= l]

(* Fault: the bound on the path is one short. *)
RebuildsOneShort == Discoveries # {} /\ Len(path) + 1 < Len(parent)

Rebuilds == Discoveries # {} /\ Len(path) <= Len(parent)

RebuildStep ==
  /\ pc = "rebuild" /\ Rebuilds
  /\ path' = <<FirstDiscovery>> \o path
  /\ UNCHANGED <<input, pc, frontier, parent, seen, fuel, found, status>>

RebuildStop ==
  /\ pc = "rebuild" /\ ~ Rebuilds
  /\ pc' = "report"
  /\ UNCHANGED <<input, frontier, parent, seen, fuel, found, path, status>>

(* checkPath: edges of the plant in a row, from an initial to a bad state; *)
(* the empty path is refused.                                              *)
CheckPath(p, edges) ==
  /\ edges # << >>
  /\ edges[1].src \in p.initial
  /\ Elems(edges) \subseteq p.edges
  /\ \A k \in 1 .. (Len(edges) - 1) : edges[k].dst = edges[k + 1].src
  /\ edges[Len(edges)].dst \in p.bad

(* A path counts if it checks.  No path counts as safe only if the         *)
(* reachable set, computed separately, avoids the bad states.              *)
Report ==
  /\ pc = "report"
  /\ pc' = "done"
  /\ status' = IF found
               THEN IF CheckPath(plant, path) THEN "complete" ELSE "error"
               ELSE IF Reachable(plant) \cap plant.bad = {} THEN "complete" ELSE "partial"
  /\ UNCHANGED <<input, frontier, parent, seen, fuel, found, path>>

Next ==
  Start \/ Expand \/ ReachBad \/ GiveUp \/ RebuildStep \/ RebuildStop \/ Report

Spec == Init /\ [][Next]_vars

-----------------------------------------------------------------------------
(* Every state seen is either still queued or has had all its edges        *)
(* followed: what the search has finished with is closed.  The queue is    *)
(* what a lost state would fall out of.                                    *)
SeenIsQueuedOrClosed ==
  pc = "loop" =>
    \A q \in seen : q \in Elems(frontier) \/ Post(plant, {q}) \subseteq seen

(* Rebuilding never goes round a loop of parents, and never stops short of *)
(* an initial state: the path that comes out is one the checker accepts.   *)
RebuiltPathChecks ==
  pc = "done" /\ found /\ path # << >> => CheckPath(plant, path)

(* States within n steps of an initial state. *)
Within(p, n) ==
  LET upTo[k \in 0 .. n] ==
        IF k = 0 THEN p.initial ELSE upTo[k - 1] \cup Post(p, upTo[k - 1])
  IN  upTo[n]

(* The counterexample shown is a shortest one. *)
ShortestPath ==
  pc = "done" /\ path # << >> => Within(plant, Len(path) - 1) \cap plant.bad = {}

(* A search that answers without a path has not merely run out of fuel:    *)
(* no bad state is reachable, and the status says the search decided.      *)
NoPathMeansSafe ==
  pc = "done" /\ plant.bad # {} /\ ~ found =>
    Reachable(plant) \cap plant.bad = {} /\ status = "complete"

(* What the proofs rest on.  While the search runs, a state seen was       *)
(* discovered, and one that is not queued is no bad state either.          *)
Discovered == {parent[k].dst : k \in DOMAIN parent}

QueueInv ==
  pc = "loop" =>
    /\ frontier \in Seq(seen) /\ fuel \in Nat /\ ~ found /\ path = << >>
    /\ plant.bad # {}
    /\ \A q \in seen : q \in Elems(frontier) \/ (q \notin plant.bad /\ Post(plant, {q}) \subseteq seen)

(* The parent list is a forest over the initial states: what an entry      *)
(* comes from is initial or was discovered by an earlier entry.            *)
ParentInv ==
  pc \in {"loop", "rebuild"} =>
    /\ plant.initial \cap plant.bad = {}
    /\ parent \in Seq(plant.edges)
    /\ seen = plant.initial \cup Discovered
    /\ \A k \in DOMAIN parent :
         /\ parent[k].dst \notin plant.initial
         /\ \/ parent[k].src \in plant.initial
            \/ \E l \in 1 .. k - 1 : parent[l].dst = parent[k].src

(* A path that is as good as checked but for where it starts.              *)
LeadsToBad(edges) ==
  /\ edges \in Seq(plant.edges) /\ edges # << >>
  /\ \A k \in 1 .. (Len(edges) - 1) : edges[k].dst = edges[k + 1].src
  /\ edges[Len(edges)].dst \in plant.bad

(* Rebuilding moves to ever earlier entries, so it ends before its bound.  *)
RebuildInv ==
  pc = "rebuild" =>
    /\ found /\ frontier # << >> /\ Head(frontier) \in seen \cap plant.bad
    /\ path # << >> =>
         /\ LeadsToBad(path)
         /\ \E k \in DOMAIN parent :
              path[1] = parent[k] /\ Len(path) + k <= Len(parent) + 1

ReportInv ==
  /\ pc \in {"start", "loop"} => path = << >>
  /\ pc \in {"report", "done"} /\ found /\ path # << >> => CheckPath(plant, path)

IInv ==
  /\ pc \in {"start", "loop", "rebuild", "report", "done"}
  /\ pc = "start" => parent = << >> /\ ~ found
  /\ QueueInv /\ ParentInv /\ RebuildInv /\ ReportInv

(* The edges that can still put something into the queue, and the fuel     *)
(* they and the queue may use up.  Every edge is followed at most once; an *)
(* initial state is queued as often as the list names it.                  *)
Unfollowed == {k \in DOMAIN input.edgeList : input.edgeList[k].dst \notin seen}

FuelInv ==
  /\ pc = "loop" => Len(frontier) + Cardinality(Unfollowed) < fuel
  /\ pc \in {"report", "done"} /\ plant.bad # {} /\ ~ found => Reachable(plant) \cap plant.bad = {}
  /\ pc = "done" /\ plant.bad # {} /\ ~ found => status = "complete"

(* The exact room the search needs. Enough is that no initial state is     *)
(* listed twice; with copies enough, a violation one edge away is answered *)
(* "partial", though Protocol.lean:198 says that past the limits "no       *)
(* analysis below has a size reason to stop".                              *)
QueueFits == \A m \in Inputs : Len(m.initialList) + Len(m.edgeList) < Fuel(m)

(* schemas/worker-protocol.v1.md: "a completed search that found a         *)
(* violation is also complete".                                            *)
FoundIsComplete == pc = "done" /\ found => status = "complete"
=============================================================================
