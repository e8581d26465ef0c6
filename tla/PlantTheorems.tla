--------------------------- MODULE PlantTheorems ---------------------------
(***************************************************************************)
(* Facts about the sets of module Plant, stated once for every plant and   *)
(* cited by the proofs of the algorithms that compute them.                *)
(***************************************************************************)
EXTENDS Plant, FiniteSetTheorems, TLAPS

(* Being closed under uncontrollable edges is monotone in the set: what    *)
(* the filter of a small set keeps, the filter of a larger one keeps.      *)
LEMMA UcFilterMonotone ==
  ASSUME NEW p, NEW V, NEW W, V \subseteq W
  PROVE  UcFilter(p, V) \subseteq UcFilter(p, W)
  BY DEF UcFilter, UcClosedAt

(* CoreachIn(p, U) is closed backward inside U.                            *)
LEMMA CoreachInClosed ==
  ASSUME NEW p, NEW U
  PROVE  CoreachClosed(p, U, CoreachIn(p, U))
  <1>1. MarkedIn(p, U) \subseteq CoreachIn(p, U)
    BY DEF MarkedIn, CoreachIn, CoreachClosed
  <1>2. ASSUME NEW q \in PreIn(p, U, CoreachIn(p, U))
        PROVE  q \in CoreachIn(p, U)
    <2>1. PICK e \in p.edges : e.src = q /\ e.dst \in CoreachIn(p, U)
      BY DEF PreIn
    <2>2. q \in U
      BY DEF PreIn
    <2>3. ASSUME NEW S \in SUBSET U, CoreachClosed(p, U, S)
          PROVE  q \in S
      <3>1. e.dst \in S
        BY <2>1, <2>3 DEF CoreachIn
      <3>2. q \in PreIn(p, U, S)
        BY <2>1, <2>2, <3>1 DEF PreIn
      <3>3. QED
        BY <2>3, <3>2 DEF CoreachClosed
    <2>4. QED
      BY <2>2, <2>3 DEF CoreachIn
  <1>3. QED
    BY <1>1, <1>2 DEF CoreachClosed

(* ... and it is the least such set.                                       *)
LEMMA CoreachInLeast ==
  ASSUME NEW p, NEW U, NEW S \in SUBSET U, CoreachClosed(p, U, S)
  PROVE  CoreachIn(p, U) \subseteq S
  BY DEF CoreachIn

(* A path that stays in U stays in every larger set.                       *)
LEMMA CoreachInMonotone ==
  ASSUME NEW p, NEW U, NEW V, U \subseteq V
  PROVE  CoreachIn(p, U) \subseteq CoreachIn(p, V)
  <1> DEFINE T == CoreachIn(p, V) \cap U
  <1>1. CoreachClosed(p, V, CoreachIn(p, V))
    BY CoreachInClosed
  <1>2. MarkedIn(p, U) \subseteq T
    BY <1>1 DEF CoreachClosed, MarkedIn
  <1>3. PreIn(p, U, T) \subseteq T
    BY <1>1 DEF CoreachClosed, PreIn
  <1>4. CoreachIn(p, U) \subseteq T
    BY <1>2, <1>3, CoreachInLeast DEF CoreachClosed
  <1>5. QED
    BY <1>4

(* One round of the envelope iteration keeps every good set it started     *)
(* with: the reason why pruning is maximally permissive.                   *)
LEMMA GoodSurvivesStep ==
  ASSUME NEW p, NEW nb \in BOOLEAN, NEW W, NEW G, G \subseteq W, Good(p, nb, G)
  PROVE  G \subseteq EnvStep(p, nb, W)
  <1>1. G \subseteq UcFilter(p, G)
    BY DEF Good, UcFilter
  <1>2. UcFilter(p, G) \subseteq UcFilter(p, W)
    BY UcFilterMonotone
  <1>3. CASE nb
    <2>1. G \subseteq CoreachIn(p, G)
      BY <1>3 DEF Good
    <2>2. CoreachIn(p, G) \subseteq CoreachIn(p, UcFilter(p, W))
      BY <1>1, <1>2, CoreachInMonotone
    <2>3. QED
      BY <1>3, <2>1, <2>2 DEF EnvStep
  <1>4. CASE ~ nb
    BY <1>1, <1>2, <1>4 DEF EnvStep
  <1>5. QED
    BY <1>3, <1>4

(* The envelope operator only removes states.                              *)
LEMMA EnvStepShrinks ==
  ASSUME NEW p, NEW nb \in BOOLEAN, NEW W
  PROVE  EnvStep(p, nb, W) \subseteq W
  BY DEF EnvStep, CoreachIn, UcFilter

(* A safe fixed point of the envelope operator is a good set.              *)
LEMMA FixpointIsGood ==
  ASSUME NEW p, NEW nb \in BOOLEAN, NEW W,
         W \subseteq InitialW(p), EnvStep(p, nb, W) = W
  PROVE  Good(p, nb, W)
  <1>1. W = UcFilter(p, W)
    BY DEF EnvStep, CoreachIn, UcFilter
  <1>2. \A q \in W : UcClosedAt(p, W, q)
    BY <1>1 DEF UcFilter
  <1>3. nb => W \subseteq CoreachIn(p, W)
    BY <1>1 DEF EnvStep
  <1>4. QED
    BY <1>2, <1>3 DEF Good

(* A good set that contains every good set is the union of all of them.    *)
LEMMA GreatestIsEnvelope ==
  ASSUME NEW p, NEW nb \in BOOLEAN, NEW W, Good(p, nb, W),
         \A G \in SUBSET InitialW(p) : Good(p, nb, G) => G \subseteq W
  PROVE  W = Envelope(p, nb)
  BY DEF Envelope, Good

(* Every set closed under the edges of the plant covers what is reachable, *)
(* indices outside the plant included (closed_sound).                      *)
LEMMA ReachableLeast ==
  ASSUME NEW p, IsPlant(p), NEW R, IsClosed(p, R)
  PROVE  Reachable(p) \subseteq R
  <1> DEFINE T == R \cap States(p)
  <1>1. p.initial \subseteq States(p) /\ \A e \in p.edges : e.dst \in States(p)
    BY DEF IsPlant, WellFormed, Edge
  <1>2. IsClosed(p, T)
    BY <1>1 DEF IsClosed, Post
  <1>3. QED
    BY <1>2 DEF Reachable

(* The reachable set is itself closed.                                     *)
LEMMA ReachableClosed ==
  ASSUME NEW p, IsPlant(p)
  PROVE  IsClosed(p, Reachable(p)) /\ Reachable(p) \subseteq States(p)
  <1>1. p.initial \subseteq States(p) /\ \A e \in p.edges : e.dst \in States(p)
    BY DEF IsPlant, WellFormed, Edge
  <1>2. p.initial \subseteq Reachable(p)
    BY <1>1 DEF Reachable, IsClosed
  <1>3. ASSUME NEW e \in p.edges, e.src \in Reachable(p)
        PROVE  e.dst \in Reachable(p)
    BY <1>1, <1>3 DEF Reachable, IsClosed, Post
  <1>4. QED
    BY <1>2, <1>3 DEF IsClosed, Post, Reachable

(* A plant has as many states as it says, so sets of states are finite.    *)
LEMMA StatesFinite ==
  ASSUME NEW p, IsPlant(p)
  PROVE  /\ IsFiniteSet(States(p))
         /\ Cardinality(States(p)) = p.numStates
  <1> DEFINE n == p.numStates
  <1>1. n \in Nat /\ States(p) = 0 .. (n - 1)
    BY DEF IsPlant, States
  <1> HIDE DEF n
  <1>2. n - 1 \in Int /\ 0 \in Int
    BY <1>1
  <1>3. /\ IsFiniteSet(0 .. (n - 1))
        /\ Cardinality(0 .. (n - 1)) = IF 0 > n - 1 THEN 0 ELSE (n - 1) - 0 + 1
    BY <1>2, FS_Interval
  <1>4. Cardinality(0 .. (n - 1)) = n
    BY <1>1, <1>3
  <1>5. QED
    BY <1>1, <1>3, <1>4 DEF n

(* A strict subset of a set of states is smaller by one at least.          *)
LEMMA SmallerSet ==
  ASSUME NEW p, IsPlant(p), NEW V \in SUBSET States(p), NEW W \in SUBSET V
  PROVE  /\ Cardinality(V) \in Nat /\ Cardinality(W) \in Nat
         /\ Cardinality(V) <= p.numStates
         /\ W # V => Cardinality(W) < Cardinality(V)
  <1>1. IsFiniteSet(V) /\ Cardinality(V) <= p.numStates
    BY StatesFinite, FS_Subset
  <1>2. IsFiniteSet(W)
    BY <1>1, FS_Subset
  <1>3. Cardinality(V) \in Nat /\ Cardinality(W) \in Nat
    BY <1>1, <1>2, FS_CardinalityType
  <1>4. Cardinality(W) <= Cardinality(V) /\ (Cardinality(V) = Cardinality(W) => V = W)
    BY <1>1, FS_Subset
  <1>5. QED
    BY <1>1, <1>3, <1>4
(* A plant has finitely many edges.                                        *)
LEMMA EdgesFinite ==
  ASSUME NEW p, IsPlant(p), NEW E \in SUBSET p.edges
  PROVE  IsFiniteSet(E) /\ Cardinality(E) \in Nat
  <1> DEFINE T == (States(p) \X Events(p)) \X States(p)
             f == [e \in Edge(p) |-> <<<<e.src, e.ev>>, e.dst>>]
  <1>1. IsFiniteSet(States(p))
    BY StatesFinite
  <1>2. IsFiniteSet(Events(p))
    <2>1. p.numEvents - 1 \in Int /\ 0 \in Int
      BY DEF IsPlant
    <2>2. QED
      BY <2>1, FS_Interval DEF Events
  <1>3. IsFiniteSet(T)
    BY <1>1, <1>2, FS_Product
  <1>4. f \in [Edge(p) -> T]
    BY DEF Edge
  <1>5. ASSUME NEW d \in Edge(p), NEW e \in Edge(p), f[d] = f[e]
        PROVE  d = e
    <2>1. f[d] = <<<<d.src, d.ev>>, d.dst>> /\ f[e] = <<<<e.src, e.ev>>, e.dst>>
      OBVIOUS
    <2>2. d.src = e.src /\ d.ev = e.ev /\ d.dst = e.dst
      BY <1>5, <2>1
    <2>3. QED
      BY <2>2 DEF Edge
  <1>6. f \in Injection(Edge(p), T)
    BY <1>4, <1>5 DEF Injection, IsInjective
  <1>7. IsFiniteSet(Edge(p))
    BY <1>3, <1>6, FS_Injection
  <1>8. E \in SUBSET Edge(p)
    BY DEF IsPlant, WellFormed
  <1>9. IsFiniteSet(E)
    BY <1>7, <1>8, FS_Subset
  <1>10. QED
    BY <1>9, FS_CardinalityType
=============================================================================
