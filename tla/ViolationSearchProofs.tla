----------------------- MODULE ViolationSearchProofs -----------------------
(***************************************************************************)
(* The search for a bad state, for every plant and every order of its      *)
(* lists: nothing seen is lost, the path that is rebuilt is one the        *)
(* checker accepts, and fuel never ends a search that has not decided.     *)
(***************************************************************************)
EXTENDS ViolationSearch, FiniteSetTheorems, WellFoundedInduction, TLAPS

-----------------------------------------------------------------------------
(* Lists.  Every nonempty set of numbers has a least one; it stands in for *)
(* induction here, as the first place where a claim fails.                 *)
LEMMA LeastNumber ==
  ASSUME NEW S, S \subseteq Nat, S # {}
  PROVE  \E m \in S : \A k \in S : m <= k
<1>1. PICK m \in S : \A k \in S : ~ (<<k, m>> \in OpToRel(<, Nat))
  BY NatLessThanWellFounded, WFMin
<1>2. \A k \in S : ~ (k < m)
  BY <1>1 DEF OpToRel
<1>3. \A k \in S : m <= k
  BY <1>2
<1> QED BY <1>3

(* One step of filtering a list. *)
Filtered(list, T, f, k) ==
  IF k = 0 THEN << >>
  ELSE IF list[k] \in T THEN Append(f[k - 1], list[k]) ELSE f[k - 1]

LEMMA FilteredExists ==
  ASSUME NEW list, NEW T, NEW n \in Nat
  PROVE  \E f : f = [k \in 0 .. n |-> Filtered(list, T, f, k)]
<1> DEFINE Fails == {k \in Nat : ~ \E f : f = [i \in 0 .. k |-> Filtered(list, T, f, i)]}
<1> SUFFICES ASSUME Fails # {} PROVE FALSE
  OBVIOUS
<1>1. PICK m \in Fails : \A k \in Fails : m <= k
  BY LeastNumber
<1>2. CASE m = 0
  <2> DEFINE g == [i \in 0 .. 0 |-> << >>]
  <2>1. g = [i \in 0 .. 0 |-> Filtered(list, T, g, i)]
    BY DEF Filtered
  <2> QED BY <1>1, <1>2, <2>1
<1>3. CASE m # 0
  <2>1. m - 1 \in Nat /\ m - 1 \notin Fails
    BY <1>1, <1>3
  <2>2. PICK f : f = [i \in 0 .. m - 1 |-> Filtered(list, T, f, i)]
    BY <2>1
  <2> DEFINE g == [i \in 0 .. m |-> Filtered(list, T, f, i)]
  <2>3. \A i \in 0 .. m - 1 : g[i] = f[i]
    BY <2>1, <2>2
  <2> HIDE DEF g
  <2>4. ASSUME NEW i \in 0 .. m PROVE Filtered(list, T, g, i) = Filtered(list, T, f, i)
    <3>1. CASE i = 0
      BY <3>1 DEF Filtered
    <3>2. CASE i # 0
      <4>1. i - 1 \in 0 .. m - 1
        BY <3>2, <2>1
      <4> QED BY <3>2, <4>1, <2>3 DEF Filtered
    <3> QED BY <3>1, <3>2
  <2>5. g = [i \in 0 .. m |-> Filtered(list, T, g, i)]
    BY <2>4 DEF g
  <2> QED BY <1>1, <2>5
<1> QED BY <1>2, <1>3

LEMMA SubListUnfolds ==
  ASSUME NEW list, NEW T, Len(list) \in Nat
  PROVE  \E f : /\ f = [k \in 0 .. Len(list) |-> Filtered(list, T, f, k)]
                /\ SubList(list, T) = f[Len(list)]
<1> DEFINE f == CHOOSE f : f = [k \in 0 .. Len(list) |-> Filtered(list, T, f, k)]
<1>1. f = [k \in 0 .. Len(list) |-> Filtered(list, T, f, k)]
  BY FilteredExists
<1>2. SubList(list, T) = f[Len(list)]
  BY DEF SubList, Filtered
<1> QED BY <1>1, <1>2

(* What a list holds, grown at its end or cut at its head.                 *)
LEMMA ElemsAppend ==
  ASSUME NEW S, NEW s \in Seq(S), NEW x \in S
  PROVE  Elems(Append(s, x)) = Elems(s) \cup {x}
<1> DEFINE t == Append(s, x)
<1>1. /\ DOMAIN t = 1 .. Len(s) + 1 /\ t[Len(s) + 1] = x
      /\ \A k \in 1 .. Len(s) : t[k] = s[k]
  OBVIOUS
<1>2. DOMAIN s = 1 .. Len(s) /\ Len(s) \in Nat
  OBVIOUS
<1> HIDE DEF t
<1>3. Elems(t) \subseteq Elems(s) \cup {x}
  <2> SUFFICES ASSUME NEW k \in 1 .. Len(s) + 1 PROVE t[k] \in Elems(s) \cup {x}
    BY <1>1 DEF Elems
  <2>1. k \in 1 .. Len(s) \/ k = Len(s) + 1
    BY <1>2
  <2> QED BY <2>1, <1>1, <1>2 DEF Elems
<1>4. Elems(s) \cup {x} \subseteq Elems(t)
  <2>1. x \in Elems(t)
    BY <1>1, <1>2 DEF Elems
  <2>2. ASSUME NEW k \in 1 .. Len(s) PROVE s[k] \in Elems(t)
    <3>1. k \in DOMAIN t /\ t[k] = s[k]
      BY <1>1, <1>2
    <3> QED BY <3>1 DEF Elems
  <2> QED BY <2>1, <2>2, <1>2 DEF Elems
<1> QED BY <1>3, <1>4 DEF t

LEMMA ElemsConcat ==
  ASSUME NEW S, NEW s \in Seq(S), NEW u \in Seq(S)
  PROVE  Elems(s \o u) = Elems(s) \cup Elems(u)
<1> DEFINE t == s \o u
<1>1. /\ DOMAIN t = 1 .. Len(s) + Len(u)
      /\ \A k \in 1 .. Len(s) : t[k] = s[k]
      /\ \A k \in 1 .. Len(u) : t[Len(s) + k] = u[k]
  OBVIOUS
<1>2. /\ DOMAIN s = 1 .. Len(s) /\ Len(s) \in Nat
      /\ DOMAIN u = 1 .. Len(u) /\ Len(u) \in Nat
  OBVIOUS
<1> HIDE DEF t
<1>3. Elems(t) \subseteq Elems(s) \cup Elems(u)
  <2> SUFFICES ASSUME NEW k \in 1 .. Len(s) + Len(u) PROVE t[k] \in Elems(s) \cup Elems(u)
    BY <1>1 DEF Elems
  <2>1. CASE k \in 1 .. Len(s)
    BY <2>1, <1>1, <1>2 DEF Elems
  <2>2. CASE k \notin 1 .. Len(s)
    <3>1. k - Len(s) \in 1 .. Len(u) /\ t[k] = u[k - Len(s)]
      <4>1. k - Len(s) \in 1 .. Len(u) /\ Len(s) + (k - Len(s)) = k
        BY <2>2, <1>2
      <4> QED BY <4>1, <1>1
    <3> QED BY <3>1, <1>2 DEF Elems
  <2> QED BY <2>1, <2>2
<1>4. Elems(s) \cup Elems(u) \subseteq Elems(t)
  <2>1. ASSUME NEW k \in 1 .. Len(s) PROVE s[k] \in Elems(t)
    <3>1. k \in DOMAIN t /\ t[k] = s[k]
      BY <1>1, <1>2
    <3> QED BY <3>1 DEF Elems
  <2>2. ASSUME NEW k \in 1 .. Len(u) PROVE u[k] \in Elems(t)
    <3>1. Len(s) + k \in DOMAIN t /\ t[Len(s) + k] = u[k]
      BY <1>1, <1>2
    <3> QED BY <3>1 DEF Elems
  <2> QED BY <2>1, <2>2, <1>2 DEF Elems
<1> QED BY <1>3, <1>4 DEF t

LEMMA ElemsTail ==
  ASSUME NEW S, NEW s \in Seq(S), s # << >>
  PROVE  Elems(s) = {Head(s)} \cup Elems(Tail(s))
<1>1. /\ Tail(s) \in Seq(S) /\ Len(Tail(s)) = Len(s) - 1 /\ Head(s) = s[1]
      /\ Len(s) \in Nat /\ DOMAIN s = 1 .. Len(s)
      /\ \A k \in 1 .. Len(s) - 1 : Tail(s)[k] = s[k + 1]
  OBVIOUS
<1>2. Len(s) >= 1 /\ DOMAIN Tail(s) = 1 .. Len(s) - 1
  BY <1>1
<1>3. Elems(s) \subseteq {Head(s)} \cup Elems(Tail(s))
  <2> SUFFICES ASSUME NEW k \in 1 .. Len(s), k # 1 PROVE s[k] \in Elems(Tail(s))
    BY <1>1 DEF Elems
  <2>1. k - 1 \in 1 .. Len(s) - 1 /\ (k - 1) + 1 = k
    BY <1>1
  <2>2. Tail(s)[k - 1] = s[k]
    BY <2>1, <1>1
  <2> QED BY <2>1, <2>2, <1>2 DEF Elems
<1>4. {Head(s)} \cup Elems(Tail(s)) \subseteq Elems(s)
  BY <1>1, <1>2 DEF Elems
<1> QED BY <1>3, <1>4

(* The places of a list that hold an element of T. *)
Places(list, T) == {k \in DOMAIN list : list[k] \in T}

(* What is filtered out of a list: its elements in T, as many as the list  *)
(* has places for them.                                                    *)
LEMMA SubListFacts ==
  ASSUME NEW S, NEW list \in Seq(S), NEW T
  PROVE  /\ SubList(list, T) \in Seq(S)
         /\ Elems(SubList(list, T)) = Elems(list) \cap T
         /\ Len(SubList(list, T)) = Cardinality(Places(list, T))
<1> DEFINE First(n) == {k \in 1 .. n : list[k] \in T}
           Right(s, n) == /\ s \in Seq(S)
                          /\ Elems(s) = {list[k] : k \in First(n)}
                          /\ IsFiniteSet(First(n)) /\ Len(s) = Cardinality(First(n))
<1>1. PICK f : /\ f = [k \in 0 .. Len(list) |-> Filtered(list, T, f, k)]
               /\ SubList(list, T) = f[Len(list)]
  BY SubListUnfolds
<1>a. \A k \in 0 .. Len(list) : f[k] = Filtered(list, T, f, k)
  <2> DEFINE F(g) == [k \in 0 .. Len(list) |-> Filtered(list, T, g, k)]
  <2>1. \A k \in 0 .. Len(list) : F(f)[k] = Filtered(list, T, f, k)
    OBVIOUS
  <2>2. f = F(f)
    BY <1>1
  <2> HIDE DEF F
  <2> QED BY <2>1, <2>2
<1>2. Right(f[0], 0)
  <2>1. f[0] = << >>
    BY <1>a DEF Filtered
  <2>2. First(0) = {}
    OBVIOUS
  <2> QED BY <2>1, <2>2, FS_EmptySet DEF Elems
<1>3. ASSUME NEW n \in 1 .. Len(list), Right(f[n - 1], n - 1) PROVE Right(f[n], n)
  <2>1. f[n] = IF list[n] \in T THEN Append(f[n - 1], list[n]) ELSE f[n - 1]
    BY <1>a DEF Filtered
  <2>2. CASE list[n] \in T
    <3>1. First(n) = First(n - 1) \cup {n} /\ n \notin First(n - 1)
      BY <2>2
    <3>2. IsFiniteSet(First(n)) /\ Cardinality(First(n)) = Cardinality(First(n - 1)) + 1
      <4>1. IsFiniteSet(First(n - 1))
        BY <1>3
      <4> HIDE DEF First
      <4>2. /\ IsFiniteSet(First(n - 1) \cup {n})
            /\ Cardinality(First(n - 1) \cup {n}) = Cardinality(First(n - 1)) + 1
        BY <3>1, <4>1, FS_AddElement, Zenon
      <4> QED BY <3>1, <4>2
    <3>3. f[n] \in Seq(S) /\ Len(f[n]) = Len(f[n - 1]) + 1
      BY <1>3, <2>1, <2>2
    <3>4. Elems(f[n]) = Elems(f[n - 1]) \cup {list[n]}
      BY <1>3, <2>1, <2>2, ElemsAppend
    <3> QED BY <1>3, <3>1, <3>2, <3>3, <3>4
  <2>3. CASE list[n] \notin T
    <3>1. First(n) = First(n - 1)
      BY <2>3
    <3> QED BY <1>3, <2>1, <2>3, <3>1
  <2> QED BY <2>2, <2>3
<1>4. Right(f[Len(list)], Len(list))
  <2> DEFINE Wrong == {n \in 0 .. Len(list) : ~ Right(f[n], n)}
  <2> HIDE DEF Right
  <2>1. SUFFICES ASSUME Wrong # {} PROVE FALSE
    OBVIOUS
  <2>2. PICK n \in Wrong : \A k \in Wrong : n <= k
    <3>1. Wrong \subseteq Nat
      OBVIOUS
    <3> HIDE DEF Wrong
    <3> QED BY <2>1, <3>1, LeastNumber
  <2>3. n # 0
    BY <1>2, <2>2
  <2>4. n - 1 \in 0 .. Len(list) /\ n - 1 \notin Wrong
    BY <2>2, <2>3
  <2> QED BY <1>3, <2>2, <2>3, <2>4
<1>5. First(Len(list)) = Places(list, T)
  BY DEF Places
<1>6. {list[k] : k \in First(Len(list))} = Elems(list) \cap T
  BY DEF Elems
<1> HIDE DEF First
<1> QED BY <1>1, <1>4, <1>5, <1>6

-----------------------------------------------------------------------------
(* The search.  Its input is one of Inputs, and stays the same.            *)
LEMMA InputStays == Spec => [](input \in Inputs)
<1>1. Init => input \in Inputs
  BY DEF Init
<1>2. input \in Inputs /\ [Next]_vars => (input \in Inputs)'
  BY DEF Next, vars, Start, Expand, ReachBad, GiveUp, RebuildStep, RebuildStop, Report
<1> QED BY <1>1, <1>2, PTL DEF Spec

LEMMA InputFacts ==
  ASSUME input \in Inputs
  PROVE  /\ plant.edges \subseteq Edge(plant)
         /\ plant.initial \subseteq States(plant) /\ plant.bad \subseteq States(plant)
         /\ input.initialList \in Seq(plant.initial)
         /\ Elems(input.initialList) = plant.initial
         /\ input.edgeList \in Seq(plant.edges) /\ Elems(input.edgeList) = plant.edges
         /\ plant.numStates \in Nat
BY InputsAssumption DEF IsPlant, WellFormed, plant

(* What one expansion adds.                                                *)
LEMMA NewEdgesFacts ==
  ASSUME input \in Inputs, NEW q
  PROVE  /\ NewEdges(q) \in Seq(plant.edges)
         /\ Elems(NewEdges(q)) = {e \in plant.edges : e.src = q /\ e.dst \notin seen}
         /\ Targets(NewEdges(q)) \in Seq(States(plant))
         /\ Elems(Targets(NewEdges(q))) = {e.dst : e \in Elems(NewEdges(q))}
         /\ Len(Targets(NewEdges(q))) = Len(NewEdges(q))
<1> DEFINE T == {e \in plant.edges : e.src = q /\ e.dst \notin seen}
           out == NewEdges(q)
<1>1. /\ input.edgeList \in Seq(plant.edges) /\ Elems(input.edgeList) = plant.edges
      /\ plant.edges \subseteq Edge(plant)
  BY InputFacts
<1>2. out \in Seq(plant.edges) /\ Elems(out) = plant.edges \cap T
  <2>1. out = SubList(input.edgeList, T)
    BY DEF NewEdges
  <2> HIDE DEF out, T
  <2>2. /\ SubList(input.edgeList, T) \in Seq(plant.edges)
        /\ Elems(SubList(input.edgeList, T)) = Elems(input.edgeList) \cap T
    BY <1>1, SubListFacts, Zenon
  <2> QED BY <1>1, <2>1, <2>2
<1>3. \A k \in DOMAIN out : out[k] \in plant.edges /\ out[k].dst \in States(plant)
  <2>1. \A k \in DOMAIN out : out[k] \in plant.edges
    BY <1>2 DEF Elems
  <2> QED BY <2>1, <1>1 DEF Edge
<1>4. DOMAIN out = 1 .. Len(out) /\ Len(out) \in Nat
  BY <1>2
<1> HIDE DEF out
<1>5. /\ Targets(out) \in Seq(States(plant)) /\ Len(Targets(out)) = Len(out)
      /\ DOMAIN Targets(out) = DOMAIN out
  BY <1>3, <1>4 DEF Targets
<1>6. Elems(Targets(out)) = {e.dst : e \in Elems(out)}
  BY <1>5 DEF Elems, Targets
<1> QED BY <1>2, <1>5, <1>6 DEF out

(* The inductive invariant holds when the search begins ... *)
LEMMA InitIInv == Init => IInv
BY DEF Init, IInv, QueueInv, ParentInv, RebuildInv, ReportInv

LEMMA StartIInv == IInv /\ input \in Inputs /\ Start => IInv'
<1> SUFFICES ASSUME IInv, input \in Inputs, Start PROVE IInv'
  OBVIOUS
<1>1. parent = << >> /\ parent' = << >> /\ path = << >> /\ path' = << >> /\ ~ found /\ pc = "start"
      /\ input' = input /\ plant' = plant
  BY DEF Start, IInv, ReportInv, plant
<1>2. CASE plant.bad = {}
  BY <1>1, <1>2 DEF Start, IInv, QueueInv, ParentInv, RebuildInv, ReportInv
<1>3. CASE plant.bad # {} /\ plant.initial \cap plant.bad # {}
  BY <1>1, <1>3 DEF Start, IInv, QueueInv, ParentInv, RebuildInv, ReportInv
<1>4. CASE plant.bad # {} /\ plant.initial \cap plant.bad = {}
  <2>1. /\ pc' = "loop" /\ frontier' = input.initialList /\ seen' = plant.initial
        /\ fuel' = Fuel(input) /\ found' = found
    BY <1>4, <1>1 DEF Start
  <2>2. fuel' \in Nat
    <3>1. plant.numStates \in Nat /\ Len(input.edgeList) \in Nat
      BY InputFacts
    <3>2. plant.numStates * Len(input.edgeList) \in Nat
      BY <3>1
    <3> QED BY <2>1, <3>1, <3>2 DEF Fuel, plant
  <2>3. QueueInv'
    BY <1>1, <1>4, <2>1, <2>2, InputFacts DEF QueueInv
  <2>4. ParentInv'
    BY <1>1, <1>4, <2>1 DEF ParentInv, Discovered
  <2> QED BY <1>1, <2>1, <2>3, <2>4 DEF IInv, RebuildInv, ReportInv
<1> QED BY <1>2, <1>3, <1>4

(* ... is kept when a state is expanded: it leaves the queue closed, and   *)
(* what it discovers is queued ...                                         *)
LEMMA ExpandIInv == IInv /\ input \in Inputs /\ Expand => IInv'
<1> SUFFICES ASSUME IInv, input \in Inputs, Expand PROVE IInv'
  OBVIOUS
<1> DEFINE q == Head(frontier)
           out == NewEdges(q)
<1>1. /\ pc = "loop" /\ pc' = "loop" /\ input' = input /\ plant' = plant
      /\ found' = found /\ path' = path /\ fuel' = fuel - 1 /\ fuel > 0
      /\ frontier # << >> /\ q \notin plant.bad
      /\ frontier' = Tail(frontier) \o Targets(out)
      /\ seen' = seen \cup Elems(Targets(out)) /\ parent' = parent \o out
  BY DEF Expand, plant
<1>2. /\ frontier \in Seq(seen) /\ fuel \in Nat /\ ~ found /\ path = << >> /\ plant.bad # {}
      /\ \A x \in seen : x \in Elems(frontier)
                       \/ (x \notin plant.bad /\ Post(plant, {x}) \subseteq seen)
  BY <1>1 DEF IInv, QueueInv
<1>3. /\ plant.initial \cap plant.bad = {}
      /\ parent \in Seq(plant.edges)
      /\ seen = plant.initial \cup Discovered
      /\ \A k \in DOMAIN parent :
           /\ parent[k].dst \notin plant.initial
           /\ \/ parent[k].src \in plant.initial
              \/ \E l \in 1 .. k - 1 : parent[l].dst = parent[k].src
  BY <1>1 DEF IInv, ParentInv
<1>4. /\ out \in Seq(plant.edges)
      /\ Elems(out) = {e \in plant.edges : e.src = q /\ e.dst \notin seen}
      /\ Targets(out) \in Seq(States(plant))
      /\ Elems(Targets(out)) = {e.dst : e \in Elems(out)}
  BY NewEdgesFacts
<1> HIDE DEF out
<1>5. QueueInv'
  <2>1. Elems(frontier) = {q} \cup Elems(Tail(frontier)) /\ Tail(frontier) \in Seq(seen)
    BY <1>1, <1>2, ElemsTail
  <2>2. Tail(frontier) \in Seq(seen') /\ Targets(out) \in Seq(seen')
    <3>1. \A s \in Seq(seen) : s \in Seq(seen')
      BY <1>1
    <3>2. \A k \in DOMAIN Targets(out) : Targets(out)[k] \in seen'
      BY <1>1 DEF Elems
    <3> QED BY <1>4, <2>1, <3>1, <3>2
  <2>3. frontier' \in Seq(seen')
    BY <1>1, <2>2
  <2>4. Elems(frontier') = Elems(Tail(frontier)) \cup Elems(Targets(out))
    <3>1. Elems(Tail(frontier) \o Targets(out)) = Elems(Tail(frontier)) \cup Elems(Targets(out))
      <4>1. PICK S : S = seen'
        OBVIOUS
      <4>2. Tail(frontier) \in Seq(S) /\ Targets(out) \in Seq(S)
        BY <2>2, <4>1
      <4>3. PICK u, v : u = Tail(frontier) /\ v = Targets(out)
        OBVIOUS
      <4>4. Elems(u \o v) = Elems(u) \cup Elems(v)
        <5>1. u \in Seq(S) /\ v \in Seq(S)
          BY <4>2, <4>3, Zenon
        <5> QED BY <5>1, ElemsConcat
      <4> QED BY <4>3, <4>4, Zenon
    <3> QED BY <1>1, <3>1
  <2>5. ASSUME NEW x \in seen'
        PROVE  x \in Elems(frontier')
               \/ (x \notin plant.bad /\ Post(plant, {x}) \subseteq seen')
    <3>1. CASE x = q
      <4>1. ASSUME NEW y \in Post(plant, {q}) PROVE y \in seen'
        <5>1. PICK e \in plant.edges : e.src = q /\ e.dst = y
          BY DEF Post
        <5>2. CASE e.dst \in seen
          BY <1>1, <5>1, <5>2
        <5>3. CASE e.dst \notin seen
          BY <1>1, <1>4, <5>1, <5>3
        <5> QED BY <5>2, <5>3
      <4> QED BY <1>1, <3>1, <4>1
    <3>2. CASE x \in Elems(Targets(out))
      BY <2>4, <3>2
    <3>3. CASE x # q /\ x \in seen
      BY <1>1, <1>2, <2>1, <2>4, <3>3
    <3> QED BY <1>1, <3>1, <3>2, <3>3
  <2>6. fuel' \in Nat
    BY <1>1, <1>2
  <2> QED BY <1>1, <1>2, <2>3, <2>5, <2>6 DEF QueueInv
<1>6. ParentInv'
  <2>1. /\ DOMAIN parent = 1 .. Len(parent) /\ Len(parent) \in Nat
        /\ DOMAIN out = 1 .. Len(out) /\ Len(out) \in Nat
        /\ parent' \in Seq(plant.edges)
        /\ DOMAIN parent' = 1 .. Len(parent) + Len(out)
        /\ \A k \in 1 .. Len(parent) : parent'[k] = parent[k]
        /\ \A k \in 1 .. Len(out) : parent'[Len(parent) + k] = out[k]
    BY <1>1, <1>3, <1>4
  <2>2. Elems(parent') = Elems(parent) \cup Elems(out)
    BY <1>1, <1>3, <1>4, ElemsConcat
  <2>3. Discovered = {e.dst : e \in Elems(parent)} /\ Discovered' = {e.dst : e \in Elems(parent')}
    BY DEF Discovered, Elems
  <2>4. seen' = plant.initial \cup Discovered'
    BY <1>1, <1>3, <1>4, <2>2, <2>3
  <2>5. q \in seen
    BY <1>1, <1>2
  <2>6. ASSUME NEW k \in DOMAIN parent'
        PROVE  /\ parent'[k].dst \notin plant.initial
               /\ \/ parent'[k].src \in plant.initial
                  \/ \E l \in 1 .. k - 1 : parent'[l].dst = parent'[k].src
    <3>1. CASE k \in 1 .. Len(parent)
      <4>1. \A l \in 1 .. k - 1 : parent'[l] = parent[l]
        BY <2>1, <3>1
      <4> QED BY <1>3, <2>1, <3>1, <4>1
    <3>2. CASE k \notin 1 .. Len(parent)
      <4>1. k - Len(parent) \in 1 .. Len(out) /\ Len(parent) + (k - Len(parent)) = k
        BY <2>1, <3>2
      <4>2. parent'[k] \in Elems(out)
        BY <2>1, <4>1 DEF Elems
      <4>3. parent'[k].src = q /\ parent'[k].dst \notin seen
        BY <1>4, <4>2
      <4>4. parent'[k].dst \notin plant.initial
        BY <1>3, <4>3
      <4>5. q \in plant.initial \/ \E l \in 1 .. Len(parent) : parent[l].dst = q
        BY <1>3, <2>1, <2>5 DEF Discovered
      <4>6. \A l \in 1 .. Len(parent) : l \in 1 .. k - 1 /\ parent'[l] = parent[l]
        BY <2>1, <3>2
      <4> QED BY <4>3, <4>4, <4>5, <4>6
    <3> QED BY <3>1, <3>2
  <2> QED BY <1>1, <1>3, <2>1, <2>4, <2>6 DEF ParentInv
<1> QED BY <1>1, <1>2, <1>5, <1>6 DEF IInv, RebuildInv, ReportInv

(* ... when the state at the head of the queue is bad, or nothing is left  *)
(* to expand ...                                                           *)
LEMMA ReachBadIInv == IInv /\ ReachBad => IInv'
<1> SUFFICES ASSUME IInv, ReachBad PROVE IInv'
  OBVIOUS
<1>1. /\ pc = "loop" /\ pc' = "rebuild" /\ found' /\ plant' = plant
      /\ frontier # << >> /\ Head(frontier) \in plant.bad
      /\ frontier' = frontier /\ parent' = parent /\ seen' = seen /\ path' = path
  BY DEF ReachBad, plant
<1>2. frontier \in Seq(seen) /\ path = << >>
  BY <1>1 DEF IInv, QueueInv
<1>3. ParentInv'
  BY <1>1 DEF IInv, ParentInv, Discovered
<1>4. RebuildInv'
  BY <1>1, <1>2 DEF RebuildInv
<1> QED BY <1>1, <1>2, <1>3, <1>4 DEF IInv, QueueInv, ReportInv

LEMMA GiveUpIInv == IInv /\ GiveUp => IInv'
BY DEF GiveUp, IInv, QueueInv, ParentInv, RebuildInv, ReportInv, plant

(* ... when one more edge is put in front of the path: it was discovered   *)
(* before the one it leads to ...                                          *)
LEMMA EdgePutInFront ==
  ASSUME NEW S, NEW e \in S, NEW s \in Seq(S), NEW t, t = <<e>> \o s
  PROVE  /\ t \in Seq(S) /\ t # << >> /\ Len(t) = Len(s) + 1 /\ t[1] = e
         /\ \A i \in 1 .. Len(s) : t[i + 1] = s[i]
OBVIOUS

LEMMA OneEdge ==
  ASSUME NEW S, NEW e \in S
  PROVE  /\ <<e>> \in Seq(S) /\ <<e>> # << >> /\ Len(<<e>>) = 1
         /\ <<e>>[1] = e /\ 1 .. (Len(<<e>>) - 1) = {}
OBVIOUS

LEMMA RebuildStepIInv == IInv /\ input \in Inputs /\ RebuildStep => IInv'
<1> SUFFICES ASSUME IInv, input \in Inputs, RebuildStep PROVE IInv'
  OBVIOUS
<1>0. PICK e : e = FirstDiscovery
  OBVIOUS
<1>1. /\ pc = "rebuild" /\ pc' = "rebuild" /\ path' = <<e>> \o path /\ Discoveries # {}
      /\ found' = found /\ frontier' = frontier /\ parent' = parent /\ seen' = seen
      /\ input' = input /\ plant' = plant
  BY <1>0 DEF RebuildStep, Rebuilds, plant
<1>2. /\ parent \in Seq(plant.edges)
      /\ \A k \in DOMAIN parent :
           /\ parent[k].dst \notin plant.initial
           /\ \/ parent[k].src \in plant.initial
              \/ \E l \in 1 .. k - 1 : parent[l].dst = parent[k].src
  BY <1>1 DEF IInv, ParentInv
<1>3. /\ found /\ frontier # << >> /\ Head(frontier) \in seen \cap plant.bad
      /\ path # << >> =>
           /\ LeadsToBad(path)
           /\ \E k \in DOMAIN parent :
                path[1] = parent[k] /\ Len(path) + k <= Len(parent) + 1
  BY <1>1 DEF IInv, RebuildInv
<1>4. DOMAIN parent = 1 .. Len(parent) /\ Len(parent) \in Nat
  BY <1>2
<1>5. PICK k \in Discoveries : e = parent[k] /\ \A l \in Discoveries : k <= l
  <2>1. Discoveries \subseteq Nat
    BY <1>4 DEF Discoveries
  <2>2. \E k \in Discoveries : \A l \in Discoveries : k <= l
    BY <1>1, <2>1, LeastNumber
  <2> HIDE DEF Discoveries
  <2> QED BY <1>0, <2>2 DEF FirstDiscovery
<1>6. k \in 1 .. Len(parent) /\ e \in plant.edges /\ e.dst = At
  BY <1>2, <1>4, <1>5 DEF Discoveries
<1>7. RebuildInv'
  <2>1. CASE path = << >>
    <3>1. path' = <<e>>
      BY <1>1, <2>1
    <3>2. e.dst \in plant.bad
      BY <1>3, <1>6, <2>1 DEF At
    <3>3. LeadsToBad(path)'
      <4>1. /\ <<e>> \in Seq(plant.edges) /\ <<e>> # << >> /\ Len(<<e>>) = 1
            /\ <<e>>[1] = e /\ 1 .. (Len(<<e>>) - 1) = {}
        BY <1>6, OneEdge
      <4> QED BY <1>1, <3>1, <3>2, <4>1 DEF LeadsToBad
    <3>4. path'[1] = parent[k] /\ Len(path') + k <= Len(parent) + 1
      BY <1>4, <1>5, <1>6, <3>1
    <3> QED BY <1>1, <1>3, <1>4, <1>6, <3>3, <3>4 DEF RebuildInv
  <2>2. CASE path # << >>
    <3>1. PICK m \in DOMAIN parent : path[1] = parent[m] /\ Len(path) + m <= Len(parent) + 1
      BY <1>3, <2>2
    <3>2. e.dst = parent[m].src
      BY <1>6, <2>2, <3>1 DEF At
    <3>3. path \in Seq(plant.edges) /\ Len(path) \in Nat /\ Len(path) >= 1
      <4>1. path \in Seq(plant.edges)
        BY <1>3, <2>2 DEF LeadsToBad
      <4> QED BY <2>2, <4>1
    <3>4. k < m
      <4>1. e.dst \notin plant.initial
        BY <1>2, <1>4, <1>5, <1>6
      <4>2. PICK l \in 1 .. m - 1 : parent[l].dst = parent[m].src
        BY <1>2, <3>1, <3>2, <4>1
      <4>3. l \in Discoveries
        BY <1>4, <1>6, <3>1, <3>2, <4>2 DEF Discoveries
      <4> QED BY <1>4, <1>5, <1>6, <3>1, <4>2, <4>3
    <3>5. /\ path' \in Seq(plant.edges) /\ path' # << >>
          /\ Len(path') = Len(path) + 1 /\ path'[1] = e
          /\ \A i \in 1 .. Len(path) : path'[i + 1] = path[i]
      <4>1. PICK S, t : S = plant.edges /\ t = path'
        OBVIOUS
      <4>2. e \in S /\ path \in Seq(S) /\ t = <<e>> \o path
        BY <1>1, <1>6, <3>3, <4>1
      <4>3. t \in Seq(S)
        BY <4>2, EdgePutInFront
      <4>4. t # << >> /\ Len(t) = Len(path) + 1 /\ t[1] = e
        BY <4>2, EdgePutInFront
      <4>5. \A i \in 1 .. Len(path) : t[i + 1] = path[i]
        BY <4>2, EdgePutInFront
      <4> QED BY <4>1, <4>3, <4>4, <4>5
    <3>6. Len(path') + k <= Len(parent) + 1
      BY <1>4, <1>6, <3>1, <3>3, <3>4, <3>5
    <3>7. path'[Len(path')] = path[Len(path)]
      BY <3>3, <3>5
    <3>8. ASSUME NEW i \in 1 .. (Len(path') - 1) PROVE path'[i].dst = path'[i + 1].src
      <4>1. CASE i = 1
        <5>1. path'[2] = path[1]
          BY <3>3, <3>5
        <5> QED BY <3>1, <3>2, <3>5, <4>1, <5>1
      <4>2. CASE i # 1
        <5>1. i - 1 \in 1 .. Len(path) - 1 /\ i \in 1 .. Len(path) /\ (i - 1) + 1 = i
          BY <3>3, <3>5, <4>2
        <5>2. path'[i] = path[i - 1] /\ path'[i + 1] = path[i]
          BY <3>3, <3>5, <5>1
        <5>3. path[i - 1].dst = path[i].src
          BY <1>3, <2>2, <5>1 DEF LeadsToBad
        <5> QED BY <5>2, <5>3
      <4> QED BY <4>1, <4>2
    <3>9. LeadsToBad(path)'
      BY <1>1, <1>3, <2>2, <3>5, <3>7, <3>8 DEF LeadsToBad
    <3> QED BY <1>1, <1>3, <1>4, <1>5, <1>6, <3>5, <3>6, <3>9 DEF RebuildInv
  <2> QED BY <2>1, <2>2
<1>8. ParentInv'
  BY <1>1 DEF IInv, ParentInv, Discovered
<1> QED BY <1>1, <1>7, <1>8 DEF IInv, QueueInv, ReportInv

(* ... and when rebuilding stops: it stops at an initial state.            *)
LEMMA RebuildStopIInv == IInv /\ RebuildStop => IInv'
<1> SUFFICES ASSUME IInv, RebuildStop PROVE IInv'
  OBVIOUS
<1>1. /\ pc = "rebuild" /\ pc' = "report" /\ ~ Rebuilds /\ path' = path
      /\ found' = found /\ parent' = parent /\ plant' = plant
  BY DEF RebuildStop, plant
<1>2. /\ plant.initial \cap plant.bad = {}
      /\ parent \in Seq(plant.edges)
      /\ seen = plant.initial \cup Discovered
      /\ \A k \in DOMAIN parent :
           \/ parent[k].src \in plant.initial
           \/ \E l \in 1 .. k - 1 : parent[l].dst = parent[k].src
  BY <1>1 DEF IInv, ParentInv
<1>3. /\ Head(frontier) \in seen \cap plant.bad
      /\ path # << >> =>
           /\ LeadsToBad(path)
           /\ \E k \in DOMAIN parent :
                path[1] = parent[k] /\ Len(path) + k <= Len(parent) + 1
  BY <1>1 DEF IInv, RebuildInv
<1>4. DOMAIN parent = 1 .. Len(parent) /\ Len(parent) \in Nat
  BY <1>2
<1>5. Discoveries = {} => At \notin Discovered
  BY DEF Discoveries, Discovered
<1>6. ASSUME path # << >> PROVE CheckPath(plant, path)
  <2>1. PICK k \in DOMAIN parent : path[1] = parent[k] /\ Len(path) + k <= Len(parent) + 1
    BY <1>3, <1>6
  <2>2. path \in Seq(plant.edges) /\ Len(path) \in Nat
    BY <1>3, <1>6 DEF LeadsToBad
  <2>3. Len(path) <= Len(parent)
    BY <1>4, <2>1, <2>2
  <2>4. Discoveries = {}
    BY <1>1, <2>3 DEF Rebuilds
  <2>5. path[1].src \notin Discovered
    BY <1>5, <1>6, <2>4 DEF At
  <2>6. path[1].src \in plant.initial
    BY <1>2, <1>4, <2>1, <2>5 DEF Discovered
  <2>7. Elems(path) \subseteq plant.edges
    BY <2>2 DEF Elems
  <2> QED BY <1>3, <1>6, <2>6, <2>7 DEF CheckPath, LeadsToBad
<1> QED BY <1>1, <1>6 DEF IInv, QueueInv, ParentInv, RebuildInv, ReportInv

LEMMA ReportIInv == IInv /\ Report => IInv'
BY DEF Report, IInv, QueueInv, ParentInv, RebuildInv, ReportInv, plant

LEMMA StepIInv == IInv /\ input \in Inputs /\ [Next]_vars => IInv'
<1>1. ASSUME IInv, UNCHANGED vars PROVE IInv'
  <2>1. /\ input' = input /\ pc' = pc /\ frontier' = frontier /\ parent' = parent /\ seen' = seen
        /\ fuel' = fuel /\ found' = found /\ path' = path /\ plant' = plant
    BY <1>1 DEF vars, plant
  <2>2. QueueInv'
    BY <1>1, <2>1 DEF IInv, QueueInv
  <2>3. ParentInv'
    BY <1>1, <2>1 DEF IInv, ParentInv, Discovered
  <2>4. RebuildInv'
    BY <1>1, <2>1 DEF IInv, RebuildInv, LeadsToBad
  <2>5. ReportInv'
    BY <1>1, <2>1 DEF IInv, ReportInv, CheckPath
  <2> QED BY <1>1, <2>1, <2>2, <2>3, <2>4, <2>5 DEF IInv
<1> QED BY <1>1, StartIInv, ExpandIInv, ReachBadIInv, GiveUpIInv, RebuildStepIInv,
           RebuildStopIInv, ReportIInv DEF Next

(* The search on every input, however its lists are ordered and however    *)
(* often an initial state is repeated.                                     *)
THEOREM SearchInvariant == Spec => []IInv
BY InitIInv, StepIInv, InputStays, PTL DEF Spec

(* Nothing is lost from the queue: what was seen is queued or closed.      *)
THEOREM NothingSeenIsLost == Spec => []SeenIsQueuedOrClosed
<1>1. IInv => SeenIsQueuedOrClosed
  BY DEF IInv, QueueInv, SeenIsQueuedOrClosed
<1> QED BY <1>1, SearchInvariant, PTL

(* Whatever plant is searched, the path rebuilt from the parent list is    *)
(* one checkPath accepts: a violation found is reported with a certificate *)
(* that checks, unless the initial state itself is bad.                    *)
THEOREM RebuiltPathAlwaysChecks == Spec => []RebuiltPathChecks
<1>1. IInv => RebuiltPathChecks
  BY DEF IInv, ReportInv, RebuiltPathChecks
<1> QED BY <1>1, SearchInvariant, PTL

-----------------------------------------------------------------------------
(* Fuel.  A place in the edge list leaves Unfollowed when its edge, or     *)
(* another to the same state, is followed; the queue grows by the places   *)
(* followed now.                                                           *)
LEMMA PlacesFollowed ==
  ASSUME input \in Inputs, NEW q,
         seen' = seen \cup Elems(Targets(NewEdges(q))), input' = input
  PROVE  /\ Cardinality(Unfollowed) \in Nat /\ Cardinality(Unfollowed') \in Nat
         /\ Cardinality(Unfollowed') + Len(NewEdges(q)) <= Cardinality(Unfollowed)
<1> DEFINE T == {e \in plant.edges : e.src = q /\ e.dst \notin seen}
           Placed == Places(input.edgeList, T)
<1>1. input.edgeList \in Seq(plant.edges)
  BY InputFacts
<1>2. IsFiniteSet(Unfollowed)
  <2>1. DOMAIN input.edgeList = 1 .. Len(input.edgeList) /\ Len(input.edgeList) \in Nat
    BY <1>1
  <2>2. Unfollowed \subseteq 1 .. Len(input.edgeList)
    BY <2>1 DEF Unfollowed
  <2>3. IsFiniteSet(1 .. Len(input.edgeList))
    BY <2>1, FS_Interval
  <2> QED BY <2>2, <2>3, FS_Subset
<1>3. Len(NewEdges(q)) = Cardinality(Placed)
  <2>1. NewEdges(q) = SubList(input.edgeList, T)
    BY DEF NewEdges
  <2> HIDE DEF T
  <2>2. Len(SubList(input.edgeList, T))
          = Cardinality(Places(input.edgeList, T))
    BY <1>1, SubListFacts, Zenon
  <2> QED BY <2>1, <2>2
<1>4. Placed \subseteq Unfollowed
  BY DEF Unfollowed, Places
<1>5. Unfollowed' \subseteq Unfollowed \ Placed
  <2>1. /\ Elems(NewEdges(q)) = T
        /\ Elems(Targets(NewEdges(q))) = {e.dst : e \in Elems(NewEdges(q))}
    BY NewEdgesFacts
  <2>2. \A e \in T : e.dst \in seen'
    BY <2>1
  <2> HIDE DEF T
  <2> QED BY <2>2 DEF Unfollowed, Places
<1> HIDE DEF Placed
<1>6. IsFiniteSet(Placed) /\ IsFiniteSet(Unfollowed \ Placed)
  BY <1>2, <1>4, FS_Subset
<1>7. Cardinality(Unfollowed \ Placed) = Cardinality(Unfollowed) - Cardinality(Placed)
  <2>1. Unfollowed \cap Placed = Placed
    BY <1>4
  <2> QED BY <1>2, <2>1, FS_Difference
<1>8. IsFiniteSet(Unfollowed') /\ Cardinality(Unfollowed') <= Cardinality(Unfollowed \ Placed)
  BY <1>5, <1>6, FS_Subset
<1>9. /\ Cardinality(Unfollowed) \in Nat /\ Cardinality(Unfollowed') \in Nat
      /\ Cardinality(Placed) \in Nat
  BY <1>2, <1>6, <1>8, FS_CardinalityType
<1> QED BY <1>3, <1>7, <1>8, <1>9

LEMMA InitFuelInv == Init => FuelInv
BY DEF Init, FuelInv

LEMMA StartFuelInv ==
  QueueFits /\ FuelInv /\ IInv /\ input \in Inputs /\ Start => FuelInv'
<1> SUFFICES ASSUME QueueFits, IInv, input \in Inputs, Start PROVE FuelInv'
  OBVIOUS
<1>1. pc = "start" /\ ~ found /\ input' = input /\ plant' = plant
  BY DEF Start, IInv, plant
<1>2. CASE plant.bad = {} \/ plant.initial \cap plant.bad # {}
  BY <1>1, <1>2 DEF Start, FuelInv
<1>3. CASE plant.bad # {} /\ plant.initial \cap plant.bad = {}
  <2>1. pc' = "loop" /\ frontier' = input.initialList /\ fuel' = Fuel(input)
    BY <1>3 DEF Start
  <2>2. DOMAIN input.edgeList = 1 .. Len(input.edgeList) /\ Len(input.edgeList) \in Nat
    BY InputFacts
  <2>3. IsFiniteSet(1 .. Len(input.edgeList))
        /\ Cardinality(1 .. Len(input.edgeList)) = Len(input.edgeList)
    BY <2>2, FS_Interval
  <2>4. Unfollowed' \subseteq 1 .. Len(input.edgeList)
    BY <1>1, <2>2 DEF Unfollowed
  <2>5. IsFiniteSet(Unfollowed') /\ Cardinality(Unfollowed') <= Len(input.edgeList)
    BY <2>3, <2>4, FS_Subset
  <2>6. Cardinality(Unfollowed') \in Nat
    BY <2>5, FS_CardinalityType
  <2>7. Len(input.initialList) \in Nat /\ Fuel(input) \in Nat
    <3>1. plant.numStates \in Nat /\ Len(input.initialList) \in Nat
      BY InputFacts
    <3>2. plant.numStates * Len(input.edgeList) \in Nat
      BY <2>2, <3>1
    <3> QED BY <3>1, <3>2 DEF Fuel, plant
  <2>8. Len(input.initialList) + Len(input.edgeList) < Fuel(input)
    BY DEF QueueFits
  <2>9. Len(frontier') + Cardinality(Unfollowed') < fuel'
    <3>1. \A i, c, k, n \in Nat : c <= k /\ i + k < n => i + c < n
      OBVIOUS
    <3>2. Len(input.initialList) + Cardinality(Unfollowed') < Fuel(input)
      BY <2>2, <2>5, <2>6, <2>7, <2>8, <3>1
    <3> QED BY <2>1, <3>2
  <2> QED BY <2>1, <2>9 DEF FuelInv
<1> QED BY <1>2, <1>3

LEMMA ExpandFuelInv ==
  FuelInv /\ IInv /\ input \in Inputs /\ Expand => FuelInv'
<1> SUFFICES ASSUME FuelInv, IInv, input \in Inputs, Expand PROVE FuelInv'
  OBVIOUS
<1> DEFINE q == Head(frontier)
           out == NewEdges(q)
<1>1. /\ pc = "loop" /\ pc' = "loop" /\ input' = input
      /\ fuel' = fuel - 1 /\ frontier # << >>
      /\ frontier' = Tail(frontier) \o Targets(out)
      /\ seen' = seen \cup Elems(Targets(out))
  BY DEF Expand
<1>2. frontier \in Seq(seen) /\ fuel \in Nat
  BY <1>1 DEF IInv, QueueInv
<1>3. /\ Cardinality(Unfollowed) \in Nat /\ Cardinality(Unfollowed') \in Nat
      /\ Cardinality(Unfollowed') + Len(out) <= Cardinality(Unfollowed)
  BY <1>1, PlacesFollowed
<1>4. Targets(out) \in Seq(States(plant)) /\ Len(Targets(out)) = Len(out) /\ Len(out) \in Nat
  BY NewEdgesFacts
<1> HIDE DEF out
<1>5. Len(frontier') = Len(frontier) - 1 + Len(out) /\ Len(frontier) \in Nat
  <2>1. Len(Tail(frontier)) = Len(frontier) - 1 /\ Tail(frontier) \in Seq(seen)
    BY <1>1, <1>2
  <2>2. Len(Tail(frontier) \o Targets(out)) = Len(Tail(frontier)) + Len(Targets(out))
    BY <1>4, <2>1
  <2> QED BY <1>1, <1>2, <1>4, <2>1, <2>2
<1>6. Len(frontier) + Cardinality(Unfollowed) < fuel
  BY <1>1 DEF FuelInv
<1>7. Len(frontier') + Cardinality(Unfollowed') < fuel'
  BY <1>1, <1>2, <1>3, <1>4, <1>5, <1>6
<1> QED BY <1>1, <1>7 DEF FuelInv

(* The search stops with fuel left, so with an empty queue: what it saw is *)
(* closed, and holds every reachable state.                                *)
LEMMA GiveUpFuelInv ==
  FuelInv /\ IInv /\ input \in Inputs /\ GiveUp => FuelInv'
<1> SUFFICES ASSUME FuelInv, IInv, input \in Inputs, GiveUp PROVE FuelInv'
  OBVIOUS
<1>1. /\ pc = "loop" /\ pc' = "report" /\ (fuel = 0 \/ frontier = << >>)
      /\ input' = input /\ plant' = plant
  BY DEF GiveUp, plant
<1>2. /\ frontier \in Seq(seen) /\ fuel \in Nat
      /\ \A q \in seen : q \in Elems(frontier)
                       \/ (q \notin plant.bad /\ Post(plant, {q}) \subseteq seen)
  BY <1>1 DEF IInv, QueueInv
<1>3. parent \in Seq(plant.edges) /\ seen = plant.initial \cup Discovered
  BY <1>1 DEF IInv, ParentInv
<1>4. frontier = << >>
  <2>1. Len(frontier) + Cardinality(Unfollowed) < fuel /\ Len(frontier) \in Nat
    BY <1>1, <1>2 DEF FuelInv
  <2>2. Cardinality(Unfollowed) \in Nat
    <3>1. DOMAIN input.edgeList = 1 .. Len(input.edgeList) /\ Len(input.edgeList) \in Nat
      BY InputFacts
    <3>2. IsFiniteSet(1 .. Len(input.edgeList)) /\ Unfollowed \subseteq 1 .. Len(input.edgeList)
      BY <3>1, FS_Interval DEF Unfollowed
    <3>3. IsFiniteSet(Unfollowed)
      BY <3>2, FS_Subset
    <3> QED BY <3>3, FS_CardinalityType
  <2> QED BY <1>1, <1>2, <2>1, <2>2
<1>5. \A q \in seen : q \notin plant.bad /\ Post(plant, {q}) \subseteq seen
  <2>1. Elems(frontier) = {}
    BY <1>4 DEF Elems
  <2> QED BY <1>2, <2>1
<1>6. seen \subseteq States(plant)
  <2>1. \A k \in DOMAIN parent : parent[k] \in plant.edges
    BY <1>3
  <2> QED BY <1>3, <2>1, InputFacts DEF Discovered, Edge
<1>7. IsClosed(plant, seen)
  BY <1>3, <1>5 DEF IsClosed, Post
<1>8. Reachable(plant) \subseteq seen
  BY <1>6, <1>7 DEF Reachable
<1> QED BY <1>1, <1>5, <1>8 DEF FuelInv

LEMMA StepFuelInv ==
  QueueFits /\ FuelInv /\ IInv /\ input \in Inputs /\ [Next]_vars => FuelInv'
<1> SUFFICES ASSUME QueueFits, FuelInv, IInv, input \in Inputs, [Next]_vars PROVE FuelInv'
  OBVIOUS
<1>1. CASE ReachBad
  BY <1>1 DEF ReachBad, FuelInv
<1>2. CASE RebuildStep
  BY <1>2 DEF RebuildStep, FuelInv
<1>3. CASE RebuildStop
  BY <1>3 DEF RebuildStop, FuelInv, IInv, RebuildInv
<1>4. CASE Report
  BY <1>4 DEF Report, FuelInv, plant
<1>5. CASE UNCHANGED vars
  BY <1>5 DEF vars, FuelInv, Unfollowed, plant
<1> QED BY <1>1, <1>2, <1>3, <1>4, <1>5, StartFuelInv, ExpandFuelInv, GiveUpFuelInv DEF Next

(* The fuel covers the queue: on an input whose initial states fit into    *)
(* it, a search that found nothing has seen every reachable state, and the *)
(* status says that it decided.                                            *)
THEOREM NoPathAlwaysMeansSafe ==
  ASSUME QueueFits
  PROVE  Spec => []NoPathMeansSafe
<1>1. QueueFits /\ Init => FuelInv
  BY InitFuelInv
<1>2. FuelInv => NoPathMeansSafe
  BY DEF FuelInv, NoPathMeansSafe
<1> QED BY <1>1, <1>2, StepFuelInv, SearchInvariant, InputStays, PTL DEF Spec

(* No initial state listed twice is enough.                                *)
THEOREM DistinctInitialFits ==
  (\A m \in Inputs : Len(m.initialList) <= m.plant.numStates) => QueueFits
<1> SUFFICES ASSUME NEW m \in Inputs, Len(m.initialList) <= m.plant.numStates
             PROVE  Len(m.initialList) + Len(m.edgeList) < Fuel(m)
  BY DEF QueueFits
<1> DEFINE n == m.plant.numStates
           k == Len(m.edgeList)
<1>1. /\ n \in Nat /\ k \in Nat /\ Len(m.initialList) \in Nat
      /\ m.edgeList \in Seq(m.plant.edges) /\ m.plant.edges \subseteq Edge(m.plant)
  BY InputsAssumption DEF IsPlant, WellFormed
<1>2. k <= n * k
  <2>1. CASE k = 0
    BY <1>1, <2>1
  <2>2. CASE k # 0
    <3>1. m.edgeList[1] \in m.plant.edges
      BY <1>1, <2>2
    <3>2. m.edgeList[1].src \in 0 .. (n - 1)
      BY <1>1, <3>1 DEF Edge, States
    <3>3. n >= 1
      BY <1>1, <3>2
    <3> HIDE DEF n, k
    <3>4. n * k = (n - 1) * k + k /\ (n - 1) * k \in Nat
      BY <1>1, <3>3
    <3> QED BY <1>1, <3>4
  <2> QED BY <2>1, <2>2
<1>3. n * k \in Nat
  BY <1>1
<1>4. \A i, a, b, c \in Nat : i <= a /\ b <= c => i + b < c + a + 1
  OBVIOUS
<1>5. Len(m.initialList) + k < n * k + n + 1
  <2> HIDE DEF n, k
  <2>1. Len(m.initialList) <= n
    BY DEF n
  <2> QED BY <1>1, <1>2, <1>3, <1>4, <2>1
<1> QED BY <1>5 DEF Fuel

-----------------------------------------------------------------------------
(* Distance.  The states within n steps, layer by layer.                   *)
Layer(p, f, k) == IF k = 0 THEN p.initial ELSE f[k - 1] \cup Post(p, f[k - 1])

LEMMA LayersExist ==
  ASSUME NEW p, NEW n \in Nat
  PROVE  \E f : f = [k \in 0 .. n |-> Layer(p, f, k)]
<1> DEFINE Fails == {k \in Nat : ~ \E f : f = [i \in 0 .. k |-> Layer(p, f, i)]}
<1> SUFFICES ASSUME Fails # {} PROVE FALSE
  OBVIOUS
<1>1. PICK m \in Fails : \A k \in Fails : m <= k
  BY LeastNumber
<1>2. CASE m = 0
  <2> DEFINE g == [i \in 0 .. 0 |-> p.initial]
  <2>1. g = [i \in 0 .. 0 |-> Layer(p, g, i)]
    BY DEF Layer
  <2> QED BY <1>1, <1>2, <2>1
<1>3. CASE m # 0
  <2>1. m - 1 \in Nat /\ m - 1 \notin Fails
    BY <1>1, <1>3
  <2>2. PICK f : f = [i \in 0 .. m - 1 |-> Layer(p, f, i)]
    BY <2>1
  <2> DEFINE g == [i \in 0 .. m |-> Layer(p, f, i)]
  <2>3. \A i \in 0 .. m - 1 : g[i] = f[i]
    BY <2>1, <2>2
  <2> HIDE DEF g
  <2>4. ASSUME NEW i \in 0 .. m PROVE Layer(p, g, i) = Layer(p, f, i)
    <3>1. CASE i = 0
      BY <3>1 DEF Layer
    <3>2. CASE i # 0
      <4>1. i - 1 \in 0 .. m - 1
        BY <3>2, <2>1
      <4> QED BY <3>2, <4>1, <2>3 DEF Layer
    <3> QED BY <3>1, <3>2
  <2>5. g = [i \in 0 .. m |-> Layer(p, g, i)]
    BY <2>4 DEF g
  <2> QED BY <1>1, <2>5
<1> QED BY <1>2, <1>3

LEMMA LayersAgree ==
  ASSUME NEW p, NEW n \in Nat, NEW m \in Nat, n <= m,
         NEW f, \A k \in 0 .. n : f[k] = Layer(p, f, k),
         NEW g, \A k \in 0 .. m : g[k] = Layer(p, g, k)
  PROVE  \A k \in 0 .. n : f[k] = g[k]
<1> DEFINE Differ == {k \in 0 .. n : f[k] # g[k]}
<1> SUFFICES ASSUME Differ # {} PROVE FALSE
  OBVIOUS
<1>1. PICK d \in Differ : \A k \in Differ : d <= k
  <2>1. Differ \subseteq Nat
    OBVIOUS
  <2> QED BY <2>1, LeastNumber
<1>2. d \in 0 .. n /\ d \in 0 .. m /\ f[d] # g[d]
  BY <1>1
<1>3. f[d] = Layer(p, f, d) /\ g[d] = Layer(p, g, d)
  BY <1>2
<1>4. CASE d = 0
  BY <1>2, <1>3, <1>4 DEF Layer
<1>5. CASE d # 0
  <2>1. d - 1 \in 0 .. n /\ ~ (d <= d - 1)
    BY <1>2, <1>5
  <2>2. f[d - 1] = g[d - 1]
    BY <1>1, <2>1
  <2> QED BY <1>2, <1>3, <1>5, <2>2 DEF Layer
<1> QED BY <1>4, <1>5

LEMMA WithinIsLayer ==
  ASSUME NEW p, NEW n \in Nat, NEW g, \A k \in 0 .. n : g[k] = Layer(p, g, k)
  PROVE  Within(p, n) = g[n]
<1>1. PICK f : f = CHOOSE h : h = [k \in 0 .. n |-> Layer(p, h, k)]
  OBVIOUS
<1>2. f = [k \in 0 .. n |-> Layer(p, f, k)]
  BY <1>1, LayersExist
<1>3. Within(p, n) = f[n]
  BY <1>1 DEF Within, Layer
<1>4. \A k \in 0 .. n : f[k] = Layer(p, f, k)
  BY <1>2
<1>5. n <= n /\ n \in 0 .. n
  OBVIOUS
<1>6. \A k \in 0 .. n : f[k] = g[k]
  BY <1>4, <1>5, LayersAgree
<1> QED BY <1>3, <1>5, <1>6

LEMMA WithinUnfolds ==
  ASSUME NEW p, NEW n \in Nat
  PROVE  /\ Within(p, 0) = p.initial
         /\ Within(p, n + 1) = Within(p, n) \cup Post(p, Within(p, n))
<1>1. PICK z : z = [k \in 0 .. 0 |-> Layer(p, z, k)]
  <2>1. \E f : f = [k \in 0 .. 0 |-> Layer(p, f, k)]
    BY 0 \in Nat, LayersExist, Zenon
  <2> QED BY <2>1, Zenon
<1>2. z[0] = p.initial /\ \A k \in 0 .. 0 : z[k] = Layer(p, z, k)
  BY <1>1 DEF Layer
<1>3. Within(p, 0) = p.initial
  BY <1>2, WithinIsLayer
<1>4. n + 1 \in Nat /\ n <= n + 1 /\ n \in 0 .. n
  OBVIOUS
<1>5. PICK f : f = [k \in 0 .. n |-> Layer(p, f, k)]
  BY LayersExist
<1>6. PICK g : g = [k \in 0 .. n + 1 |-> Layer(p, g, k)]
  BY <1>4, LayersExist, Zenon
<1>7. /\ \A k \in 0 .. n : f[k] = Layer(p, f, k)
      /\ \A k \in 0 .. n + 1 : g[k] = Layer(p, g, k)
  BY <1>5, <1>6
<1>8. Within(p, n) = f[n] /\ Within(p, n + 1) = g[n + 1]
  BY <1>4, <1>7, WithinIsLayer
<1>9. f[n] = g[n]
  BY <1>4, <1>7, LayersAgree
<1>10. g[n + 1] = g[n] \cup Post(p, g[n])
  <2>1. g[n + 1] = Layer(p, g, n + 1)
    BY <1>7
  <2> QED BY <2>1 DEF Layer
<1> QED BY <1>3, <1>8, <1>9, <1>10

(* Breadth first: nothing in the queue is nearer than what is before it,   *)
(* nor more than one step farther than what is behind it.                  *)
OrderInv ==
  pc = "loop" =>
    \A k \in Nat : \A i, j \in DOMAIN frontier :
      frontier[i] \in Within(plant, k) =>
        frontier[j] \in Within(plant, IF j <= i THEN k ELSE k + 1)

(* A state is one step farther than the one it was discovered from.        *)
DepthInv ==
  pc \in {"loop", "rebuild"} =>
    \A l \in DOMAIN parent : \A k \in Nat :
      parent[l].dst \in Within(plant, k + 1) => parent[l].src \in Within(plant, k)

(* The bad state found is a nearest one, and a path of n edges back from   *)
(* it has come n steps nearer.                                             *)
NearestInv ==
  /\ pc = "rebuild" =>
       /\ \A k \in Nat :
            Head(frontier) \notin Within(plant, k) => Within(plant, k) \cap plant.bad = {}
       /\ path # << >> => \A k \in Nat :
            Head(frontier) \in Within(plant, k + Len(path) - 1) =>
              path[1].dst \in Within(plant, k)
  /\ pc \in {"report", "done"} /\ path # << >> =>
       Within(plant, Len(path) - 1) \cap plant.bad = {}

ShortInv == OrderInv /\ DepthInv /\ NearestInv

(* Nearer states than the head of the queue are done with.                 *)
LEMMA NearerIsDone ==
  ASSUME IInv, OrderInv, pc = "loop", frontier # << >>,
         NEW n \in Nat, Head(frontier) \notin Within(plant, n)
  PROVE  /\ Within(plant, n + 1) \subseteq seen
         /\ Within(plant, n) \cap plant.bad = {}
<1> DEFINE h == Head(frontier)
           W(k) == Within(plant, k)
           Fails == {k \in Nat : h \notin W(k) /\ ~ (W(k + 1) \subseteq seen)}
<1>1. /\ frontier \in Seq(seen)
      /\ \A q \in seen : q \in Elems(frontier)
                       \/ (q \notin plant.bad /\ Post(plant, {q}) \subseteq seen)
      /\ plant.initial \subseteq seen
  BY DEF IInv, QueueInv, ParentInv
<1>2. /\ DOMAIN frontier = 1 .. Len(frontier) /\ 1 \in DOMAIN frontier /\ h = frontier[1]
      /\ \A i \in DOMAIN frontier : 1 <= i
  BY <1>1
<1>3. /\ W(0) = plant.initial
      /\ \A k \in Nat : W(k + 1) = W(k) \cup Post(plant, W(k))
  BY WithinUnfolds
<1>4. ASSUME NEW k \in Nat, h \notin W(k) PROVE W(k) \cap Elems(frontier) = {}
  <2> SUFFICES ASSUME NEW i \in DOMAIN frontier, frontier[i] \in W(k) PROVE FALSE
    BY DEF Elems
  <2>1. frontier[1] \in Within(plant, IF 1 <= i THEN k ELSE k + 1)
    BY <1>2 DEF OrderInv
  <2> QED BY <1>2, <1>4, <2>1
<1>5. ASSUME NEW k \in Nat, h \notin W(k), W(k) \subseteq seen
      PROVE  W(k + 1) \subseteq seen /\ W(k) \cap plant.bad = {}
  <2>1. \A q \in W(k) : q \notin plant.bad /\ Post(plant, {q}) \subseteq seen
    BY <1>1, <1>4, <1>5
  <2>2. Post(plant, W(k)) \subseteq seen
    BY <2>1 DEF Post
  <2> QED BY <1>3, <1>5, <2>1, <2>2
<1> HIDE DEF W, h
<1>6. Fails = {}
  <2> SUFFICES ASSUME Fails # {} PROVE FALSE
    OBVIOUS
  <2>1. PICK m \in Fails : \A k \in Fails : m <= k
    BY LeastNumber
  <2>2. m \in Nat /\ h \notin W(m) /\ ~ (W(m + 1) \subseteq seen)
    BY <2>1
  <2>3. W(m) \subseteq seen
    <3>1. CASE m = 0
      BY <1>1, <1>3, <3>1
    <3>2. CASE m # 0
      <4>1. m - 1 \in Nat /\ (m - 1) + 1 = m /\ ~ (m <= m - 1)
        BY <2>2, <3>2
      <4>2. h \notin W(m - 1)
        BY <1>3, <2>2, <4>1
      <4> QED BY <2>1, <4>1, <4>2
    <3> QED BY <3>1, <3>2
  <2> QED BY <1>5, <2>2, <2>3
<1>7. h \notin W(n)
  BY DEF h, W
<1>8. W(n + 1) \subseteq seen /\ W(n) \subseteq W(n + 1)
  BY <1>3, <1>6, <1>7
<1> QED BY <1>5, <1>7, <1>8 DEF W

LEMMA InitShortInv == Init => ShortInv
BY DEF Init, ShortInv, OrderInv, DepthInv, NearestInv

(* The initial states are all at distance 0. *)
LEMMA StartShortInv == IInv /\ input \in Inputs /\ Start => ShortInv'
<1> SUFFICES ASSUME IInv, input \in Inputs, Start PROVE ShortInv'
  OBVIOUS
<1>1. parent' = << >> /\ path' = << >> /\ pc' # "rebuild" /\ plant' = plant
  BY DEF Start, IInv, ReportInv, plant
<1>2. OrderInv'
  <2> SUFFICES ASSUME pc' = "loop", NEW k \in Nat, NEW i \in DOMAIN frontier',
                      NEW j \in DOMAIN frontier', frontier'[i] \in Within(plant, k)
               PROVE  frontier'[j] \in Within(plant, IF j <= i THEN k ELSE k + 1)
    BY <1>1 DEF OrderInv
  <2> DEFINE Starts == {n \in Nat : ~ (plant.initial \subseteq Within(plant, n))}
  <2>1. frontier' = input.initialList
    BY DEF Start
  <2>2. frontier'[j] \in plant.initial
    BY <2>1, InputFacts
  <2>3. /\ Within(plant, 0) = plant.initial
        /\ \A n \in Nat : Within(plant, n) \subseteq Within(plant, n + 1)
    BY WithinUnfolds
  <2>4. Starts = {}
    <3> SUFFICES ASSUME Starts # {} PROVE FALSE
      OBVIOUS
    <3>1. PICK m \in Starts : \A n \in Starts : m <= n
      BY LeastNumber
    <3>2. m # 0 /\ m \in Nat
      BY <2>3, <3>1
    <3>3. m - 1 \in Nat /\ (m - 1) + 1 = m /\ ~ (m <= m - 1)
      BY <3>2
    <3> QED BY <2>3, <3>1, <3>3
  <2>5. (IF j <= i THEN k ELSE k + 1) \in Nat
    OBVIOUS
  <2> QED BY <2>2, <2>4, <2>5
<1>3. DepthInv' /\ NearestInv'
  BY <1>1 DEF DepthInv, NearestInv
<1> QED BY <1>2, <1>3 DEF ShortInv

(* What one expansion discovers is one step farther than what is expanded. *)
LEMMA TargetsAreNext ==
  ASSUME IInv, OrderInv, pc = "loop", frontier # << >>, input \in Inputs,
         NEW e \in plant.edges, e.src = Head(frontier), e.dst \notin seen, NEW k \in Nat
  PROVE  /\ e.src \in Within(plant, k) => e.dst \in Within(plant, k + 1)
         /\ e.dst \in Within(plant, k) => k # 0 /\ e.src \in Within(plant, k - 1)
<1>1. ASSUME e.src \in Within(plant, k) PROVE e.dst \in Within(plant, k + 1)
  <2>1. e.dst \in Post(plant, Within(plant, k))
    BY <1>1 DEF Post
  <2> QED BY <2>1, WithinUnfolds
<1>2. ASSUME e.dst \in Within(plant, k) PROVE k # 0
  <2>1. Within(plant, 0) = plant.initial /\ plant.initial \subseteq seen
    BY WithinUnfolds DEF IInv, ParentInv
  <2> QED BY <1>2, <2>1
<1>3. ASSUME e.dst \in Within(plant, k) PROVE e.src \in Within(plant, k - 1)
  <2>1. k - 1 \in Nat /\ (k - 1) + 1 = k
    BY <1>2, <1>3
  <2>2. ~ (Within(plant, (k - 1) + 1) \subseteq seen)
    BY <1>3, <2>1
  <2> QED BY <2>1, <2>2, NearerIsDone
<1> QED BY <1>1, <1>2, <1>3

LEMMA ExpandShortInv == ShortInv /\ IInv /\ input \in Inputs /\ Expand => ShortInv'
<1> SUFFICES ASSUME ShortInv, IInv, input \in Inputs, Expand PROVE ShortInv'
  OBVIOUS
<1> DEFINE h == Head(frontier)
           out == NewEdges(h)
           rest == Tail(frontier)
           W(k) == Within(plant, k)
<1>1. /\ pc = "loop" /\ pc' = "loop" /\ plant' = plant /\ frontier # << >>
      /\ frontier' = rest \o Targets(out) /\ parent' = parent \o out
  BY DEF Expand, plant
<1>2. frontier \in Seq(seen) /\ parent \in Seq(plant.edges)
  BY <1>1 DEF IInv, QueueInv, ParentInv
<1>3. /\ out \in Seq(plant.edges)
      /\ Elems(out) = {e \in plant.edges : e.src = h /\ e.dst \notin seen}
      /\ Targets(out) \in Seq(States(plant))
      /\ Elems(Targets(out)) = {e.dst : e \in Elems(out)}
  BY NewEdgesFacts
<1>4. ASSUME NEW x \in Elems(Targets(out)), NEW k \in Nat
      PROVE  /\ h \in W(k) => x \in W(k + 1)
             /\ x \in W(k) => k # 0 /\ k - 1 \in Nat /\ h \in W(k - 1)
  <2>1. PICK e \in plant.edges : e.src = h /\ e.dst \notin seen /\ e.dst = x
    BY <1>3, <1>4
  <2>2. /\ e.src \in Within(plant, k) => e.dst \in Within(plant, k + 1)
        /\ e.dst \in Within(plant, k) => k # 0 /\ e.src \in Within(plant, k - 1)
    BY <1>1, <2>1, TargetsAreNext DEF ShortInv
  <2>3. k # 0 => k - 1 \in Nat
    OBVIOUS
  <2> QED BY <2>1, <2>2, <2>3
<1>5. \A k \in Nat : W(k) \subseteq W(k + 1)
  BY WithinUnfolds
<1>6. \A k \in Nat : \A i, j \in DOMAIN frontier :
        frontier[i] \in W(k) => frontier[j] \in W(IF j <= i THEN k ELSE k + 1)
  BY <1>1 DEF ShortInv, OrderInv
<1> HIDE DEF out, W
<1>7. DepthInv'
  <2> SUFFICES ASSUME NEW l \in DOMAIN parent', NEW k \in Nat, parent'[l].dst \in W(k + 1)
               PROVE  parent'[l].src \in W(k)
    BY <1>1 DEF DepthInv, W
  <2>1. /\ DOMAIN parent = 1 .. Len(parent) /\ Len(parent) \in Nat
        /\ DOMAIN out = 1 .. Len(out) /\ Len(out) \in Nat
        /\ DOMAIN parent' = 1 .. Len(parent) + Len(out)
        /\ \A m \in 1 .. Len(parent) : parent'[m] = parent[m]
        /\ \A m \in 1 .. Len(out) : parent'[Len(parent) + m] = out[m]
    BY <1>1, <1>2, <1>3
  <2>2. CASE l \in 1 .. Len(parent)
    BY <1>1, <2>1, <2>2 DEF ShortInv, DepthInv, W
  <2>3. CASE l \notin 1 .. Len(parent)
    <3>1. l - Len(parent) \in 1 .. Len(out) /\ Len(parent) + (l - Len(parent)) = l
      BY <2>1, <2>3
    <3>2. parent'[l] \in Elems(out)
      BY <2>1, <3>1 DEF Elems
    <3>3. parent'[l].src = h /\ parent'[l].dst \in Elems(Targets(out))
      BY <1>3, <3>2
    <3>4. k + 1 \in Nat /\ (k + 1) - 1 = k
      OBVIOUS
    <3> QED BY <1>4, <3>3, <3>4
  <2> QED BY <2>2, <2>3
<1>8. OrderInv'
  <2> SUFFICES ASSUME NEW k \in Nat, NEW i \in DOMAIN frontier', NEW j \in DOMAIN frontier',
                      frontier'[i] \in W(k)
               PROVE  frontier'[j] \in W(IF j <= i THEN k ELSE k + 1)
    BY <1>1 DEF OrderInv, W
  <2> DEFINE n == Len(rest)
  <2>1. /\ Len(frontier) \in Nat /\ Len(frontier) = n + 1 /\ n \in Nat
        /\ DOMAIN frontier = 1 .. n + 1 /\ h = frontier[1]
        /\ \A m \in 1 .. n : rest[m] = frontier[m + 1]
    BY <1>1, <1>2
  <2>2. /\ Len(Targets(out)) \in Nat /\ DOMAIN Targets(out) = 1 .. Len(Targets(out))
        /\ DOMAIN frontier' = 1 .. n + Len(Targets(out))
        /\ \A m \in 1 .. n : frontier'[m] = rest[m]
        /\ \A m \in 1 .. Len(Targets(out)) : frontier'[n + m] = Targets(out)[m]
    <3>1. rest \in Seq(seen)
      BY <1>1, <1>2
    <3>2. \A s \in Seq(seen), u \in Seq(States(plant)) :
            /\ DOMAIN (s \o u) = 1 .. Len(s) + Len(u)
            /\ \A m \in 1 .. Len(s) : (s \o u)[m] = s[m]
            /\ \A m \in 1 .. Len(u) : (s \o u)[Len(s) + m] = u[m]
      OBVIOUS
    <3> HIDE DEF rest
    <3> QED BY <1>1, <1>3, <3>1, <3>2
  <2> HIDE DEF n, rest, h
  <2>3. \A m \in 1 .. n : frontier'[m] = frontier[m + 1] /\ m + 1 \in DOMAIN frontier
    BY <2>1, <2>2
  <2>4. ASSUME NEW m \in DOMAIN frontier', m \notin 1 .. n
        PROVE  frontier'[m] \in Elems(Targets(out)) /\ n < m
    <3>1. m - n \in 1 .. Len(Targets(out)) /\ n + (m - n) = m
      BY <2>1, <2>2, <2>4
    <3> QED BY <2>1, <2>2, <2>4, <3>1 DEF Elems
  <2>5. i \in Nat /\ j \in Nat /\ 1 \in DOMAIN frontier
    BY <2>1, <2>2
  <2>6. CASE i \in 1 .. n /\ j \in 1 .. n
    <3>1. frontier[j + 1] \in W(IF j + 1 <= i + 1 THEN k ELSE k + 1)
      BY <1>6, <2>3, <2>6
    <3>2. j + 1 <= i + 1 <=> j <= i
      BY <2>5
    <3> QED BY <2>3, <2>6, <3>1, <3>2
  <2>7. CASE i \in 1 .. n /\ j \notin 1 .. n
    <3>1. frontier[1] \in W(IF 1 <= i + 1 THEN k ELSE k + 1)
      BY <1>6, <2>3, <2>5, <2>7
    <3>2. h \in W(k)
      BY <2>1, <2>5, <3>1
    <3>3. frontier'[j] \in W(k + 1) /\ ~ (j <= i)
      BY <1>4, <2>1, <2>4, <2>5, <2>7, <3>2
    <3> QED BY <3>3
  <2>8. CASE i \notin 1 .. n
    <3>1. k - 1 \in Nat /\ h \in W(k - 1) /\ (k - 1) + 1 = k
      BY <1>4, <2>4, <2>8
    <3>2. frontier'[j] \in W(k)
      <4>1. CASE j \in 1 .. n
        <5>1. frontier[j + 1] \in W(IF j + 1 <= 1 THEN k - 1 ELSE (k - 1) + 1)
          BY <1>6, <2>1, <2>3, <2>5, <3>1, <4>1
        <5>2. ~ (j + 1 <= 1)
          BY <2>1, <4>1
        <5> QED BY <2>3, <3>1, <4>1, <5>1, <5>2
      <4>2. CASE j \notin 1 .. n
        <5>1. frontier'[j] \in Elems(Targets(out))
          BY <2>4, <4>2
        <5> QED BY <1>4, <3>1, <5>1
      <4> QED BY <4>1, <4>2
    <3> QED BY <1>5, <3>2
  <2> QED BY <2>6, <2>7, <2>8
<1>9. NearestInv'
  BY <1>1 DEF NearestInv
<1> QED BY <1>7, <1>8, <1>9 DEF ShortInv

LEMMA ReachBadShortInv == ShortInv /\ IInv /\ ReachBad => ShortInv'
<1> SUFFICES ASSUME ShortInv, IInv, ReachBad PROVE ShortInv'
  OBVIOUS
<1>1. /\ pc = "loop" /\ pc' = "rebuild" /\ plant' = plant /\ frontier # << >>
      /\ frontier' = frontier /\ parent' = parent /\ path' = path
  BY DEF ReachBad, plant
<1>2. path = << >>
  BY <1>1 DEF IInv, QueueInv
<1>3. \A k \in Nat :
        Head(frontier) \notin Within(plant, k) => Within(plant, k) \cap plant.bad = {}
  BY <1>1, NearerIsDone DEF ShortInv
<1> QED BY <1>1, <1>2, <1>3 DEF ShortInv, OrderInv, DepthInv, NearestInv

LEMMA GiveUpShortInv == ShortInv /\ IInv /\ GiveUp => ShortInv'
<1> SUFFICES ASSUME ShortInv, IInv, GiveUp PROVE ShortInv'
  OBVIOUS
<1>1. pc = "loop" /\ pc' = "report" /\ path' = path
  BY DEF GiveUp
<1>2. path = << >>
  BY <1>1 DEF IInv, QueueInv
<1> QED BY <1>1, <1>2 DEF ShortInv, OrderInv, DepthInv, NearestInv

(* The edge put in front is the one that discovered where the path began.  *)
LEMMA RebuildStepShortInv == ShortInv /\ IInv /\ RebuildStep => ShortInv'
<1> SUFFICES ASSUME ShortInv, IInv, RebuildStep PROVE ShortInv'
  OBVIOUS
<1>1. PICK e : e = FirstDiscovery
  OBVIOUS
<1>2. /\ pc = "rebuild" /\ pc' = "rebuild" /\ path' = <<e>> \o path /\ Discoveries # {}
      /\ frontier' = frontier /\ parent' = parent /\ plant' = plant
  BY <1>1 DEF RebuildStep, Rebuilds, plant
<1>3. parent \in Seq(plant.edges) /\ DOMAIN parent = 1 .. Len(parent)
  BY <1>2 DEF IInv, ParentInv
<1>4. PICK d \in Discoveries : e = parent[d]
  <2>1. Discoveries \subseteq Nat
    BY <1>3 DEF Discoveries
  <2>2. \E d \in Discoveries : \A l \in Discoveries : d <= l
    BY <1>2, <2>1, LeastNumber
  <2> HIDE DEF Discoveries
  <2> QED BY <1>1, <2>2 DEF FirstDiscovery
<1>5. e \in plant.edges /\ e.dst = At
  BY <1>3, <1>4 DEF Discoveries
<1>6. \A k \in Nat : Head(frontier) \in Within(plant, k + Len(path') - 1) =>
                     path'[1].dst \in Within(plant, k)
  <2> SUFFICES ASSUME NEW k \in Nat, Head(frontier) \in Within(plant, k + Len(path') - 1)
               PROVE  path'[1].dst \in Within(plant, k)
    OBVIOUS
  <2>1. CASE path = << >>
    <3>1. path' = <<e>> /\ Len(path') = 1 /\ path'[1] = e
      BY <1>2, <2>1
    <3>2. k + Len(path') - 1 = k
      BY <3>1
    <3> QED BY <1>5, <2>1, <3>1, <3>2 DEF At
  <2>2. CASE path # << >>
    <3>1. /\ path \in Seq(plant.edges)
          /\ \E m \in DOMAIN parent : path[1] = parent[m]
      BY <1>2, <2>2 DEF IInv, RebuildInv, LeadsToBad
    <3>2. Len(path) \in Nat
      BY <3>1
    <3>3. Len(path') = Len(path) + 1 /\ path'[1] = e
      BY <1>2, <1>5, <3>1, EdgePutInFront
    <3>4. k + 1 \in Nat /\ k + Len(path') - 1 = (k + 1) + Len(path) - 1
      BY <3>2, <3>3
    <3>5. path[1].dst \in Within(plant, k + 1)
      BY <1>2, <2>2, <3>4 DEF ShortInv, NearestInv
    <3>6. path[1].src \in Within(plant, k)
      BY <1>2, <3>1, <3>5 DEF ShortInv, DepthInv
    <3> QED BY <1>5, <2>2, <3>3, <3>6 DEF At
  <2> QED BY <2>1, <2>2
<1> QED BY <1>2, <1>6 DEF ShortInv, OrderInv, DepthInv, NearestInv

(* What was discovered is not initial, so the path is no longer than the   *)
(* distance of the state it leads to.                                      *)
LEMMA RebuildStopShortInv == ShortInv /\ IInv /\ RebuildStop => ShortInv'
<1> SUFFICES ASSUME ShortInv, IInv, RebuildStop PROVE ShortInv'
  OBVIOUS
<1>1. pc = "rebuild" /\ pc' = "report" /\ path' = path /\ plant' = plant
  BY DEF RebuildStop, plant
<1>2. ASSUME path # << >> PROVE Within(plant, Len(path) - 1) \cap plant.bad = {}
  <2>1. /\ path \in Seq(plant.edges)
        /\ \E m \in DOMAIN parent : path[1] = parent[m]
    BY <1>1, <1>2 DEF IInv, RebuildInv, LeadsToBad
  <2>2. path[1].dst \notin plant.initial
    BY <1>1, <2>1 DEF IInv, ParentInv
  <2>3. path[1].dst \notin Within(plant, 0)
    BY <2>2, WithinUnfolds
  <2>4. Len(path) - 1 \in Nat /\ 0 + Len(path) - 1 = Len(path) - 1 /\ 0 \in Nat
    BY <1>2, <2>1
  <2>5. Head(frontier) \notin Within(plant, Len(path) - 1)
    BY <1>1, <1>2, <2>3, <2>4 DEF ShortInv, NearestInv
  <2> QED BY <1>1, <2>4, <2>5 DEF ShortInv, NearestInv
<1> QED BY <1>1, <1>2 DEF ShortInv, OrderInv, DepthInv, NearestInv

LEMMA ReportShortInv == ShortInv /\ Report => ShortInv'
BY DEF Report, ShortInv, OrderInv, DepthInv, NearestInv, plant

LEMMA StepShortInv ==
  ShortInv /\ IInv /\ input \in Inputs /\ [Next]_vars => ShortInv'
<1>1. ASSUME ShortInv, UNCHANGED vars PROVE ShortInv'
  <2>1. pc' = pc /\ frontier' = frontier /\ parent' = parent /\ path' = path /\ plant' = plant
    BY <1>1 DEF vars, plant
  <2> QED BY <1>1, <2>1 DEF ShortInv, OrderInv, DepthInv, NearestInv
<1> QED BY <1>1, StartShortInv, ExpandShortInv, ReachBadShortInv, GiveUpShortInv,
           RebuildStepShortInv, RebuildStopShortInv, ReportShortInv DEF Next

(* The counterexample shown is a shortest one, whatever the order of the   *)
(* edge list and however often an edge or an initial state is repeated.    *)
THEOREM PathAlwaysShortest == Spec => []ShortestPath
<1>1. ShortInv => ShortestPath
  BY DEF ShortInv, NearestInv, ShortestPath
<1> QED BY InitShortInv, StepShortInv, <1>1, SearchInvariant, InputStays, PTL DEF Spec
=============================================================================
