-------------------------- MODULE AbstractionProofs --------------------------
(***************************************************************************)
(* Sets of words kept as ranges, and the partition of a domain built from  *)
(* them, for words of every size; then the models that a contract's walks  *)
(* are written into, for every contract and every way of walking it, what  *)
(* the search over forks leaves out and that it ends; then what a path     *)
(* takes for granted, for every path and its order facts.                  *)
(***************************************************************************)
EXTENDS Partition, ModelBuilder, PathFacts, SequenceTheorems, FiniteSetTheorems,
        WellFoundedInduction, TLAPS

Span == (0 .. Top) \X (0 .. Top)
Spans == Seq(Span)
Sets == {s \in Spans : Canonical(s)}

-----------------------------------------------------------------------------
(* Every nonempty set of numbers has a least one; it stands in for         *)
(* induction here, as the first place where a claim fails.                 *)
LEMMA FirstNumber ==
  ASSUME NEW S, S \subseteq Nat, S # {}
  PROVE  \E m \in S : \A k \in S : m <= k
<1>1. PICK m \in S : \A k \in S : ~ (<<k, m>> \in OpToRel(<, Nat))
  BY NatLessThanWellFounded, WFMin
<1>2. \A k \in S : ~ (k < m)
  BY <1>1 DEF OpToRel
<1>3. \A k \in S : m <= k
  BY <1>2
<1> QED BY <1>3

LEMMA MinIsLeast ==
  ASSUME NEW S, S \subseteq Nat, S # {}
  PROVE  Min(S) \in S /\ \A y \in S : Min(S) <= y
<1>1. \E x \in S : \A y \in S : x <= y
  BY FirstNumber
<1> QED BY <1>1 DEF Min

LEMMA MaxIsGreatest ==
  ASSUME NEW b \in Nat, NEW S, S \subseteq 0 .. b, S # {}
  PROVE  Max(S) \in S /\ \A y \in S : y <= Max(S)
<1> DEFINE R == {b - y : y \in S}
<1>1. R \subseteq Nat /\ R # {}
  <2>1. \A y \in S : b - y \in Nat
    <3> TAKE y \in S
    <3>1. y \in Int /\ 0 <= y /\ y <= b
      OBVIOUS
    <3> QED BY <3>1
  <2> QED BY <2>1
<1>2. PICK r \in R : \A k \in R : r <= k
  BY <1>1, FirstNumber
<1>3. PICK x \in S : r = b - x
  BY <1>2
<1>4. \A y \in S : x >= y
  BY <1>2, <1>3
<1>5. \E z \in S : \A y \in S : z >= y
  BY <1>4
<1>6. Max(S) \in S /\ \A y \in S : Max(S) >= y
  BY <1>5 DEF Max
<1> QED BY <1>6

(* The loops over ranges and edges, by name, so that one lemma speaks of   *)
(* them all.                                                               *)
Following(seen, edges) == seen \cup {e[2] : e \in {f \in edges : f[1] \in seen}}
Body(loop, s, t, k, prev) ==
  CASE loop = "sort" -> Sorting(s, prev, k)
    [] loop = "merge" -> Absorb(prev, s[k])
    [] loop = "meet" -> Meeting(s, t, prev)
    [] loop = "gaps" -> Gaps(s, prev, k)
    [] loop = "reach" -> Following(prev, s)
LoopStep(loop, s, t, start, f, k) ==
  IF k = 0 THEN start ELSE Body(loop, s, t, k, f[k - 1])

LEMMA LoopExists ==
  ASSUME NEW loop, NEW s, NEW t, NEW start, NEW n \in Nat
  PROVE  \E f : f = [k \in 0 .. n |-> LoopStep(loop, s, t, start, f, k)]
<1> DEFINE Fails == {k \in Nat :
             ~ \E f : f = [i \in 0 .. k |-> LoopStep(loop, s, t, start, f, i)]}
<1> SUFFICES ASSUME Fails # {} PROVE FALSE
  OBVIOUS
<1>1. PICK m \in Fails : \A k \in Fails : m <= k
  BY FirstNumber
<1>2. CASE m = 0
  <2> DEFINE g == [i \in 0 .. 0 |-> start]
  <2>1. g = [i \in 0 .. 0 |-> LoopStep(loop, s, t, start, g, i)]
    BY DEF LoopStep
  <2> QED BY <1>1, <1>2, <2>1
<1>3. CASE m # 0
  <2>1. m - 1 \in Nat /\ m - 1 \notin Fails
    BY <1>1, <1>3
  <2>2. PICK f : f = [i \in 0 .. m - 1 |-> LoopStep(loop, s, t, start, f, i)]
    BY <2>1
  <2> DEFINE g == [i \in 0 .. m |-> LoopStep(loop, s, t, start, f, i)]
  <2>3. \A i \in 0 .. m - 1 : g[i] = f[i]
    BY <2>1, <2>2
  <2> HIDE DEF g
  <2>4. ASSUME NEW i \in 0 .. m
        PROVE  LoopStep(loop, s, t, start, g, i) = LoopStep(loop, s, t, start, f, i)
    <3>1. CASE i = 0
      BY <3>1 DEF LoopStep
    <3>2. CASE i # 0
      <4>1. i - 1 \in 0 .. m - 1
        BY <3>2, <2>1
      <4> QED BY <3>2, <4>1, <2>3 DEF LoopStep
    <3> QED BY <3>1, <3>2
  <2>5. g = [i \in 0 .. m |-> LoopStep(loop, s, t, start, g, i)]
    BY <2>4 DEF g
  <2> QED BY <1>1, <2>5
<1> QED BY <1>2, <1>3

(* A loop that has run k times, for each k: what each definition computes. *)
Runs(f, loop, s, t, start, n) ==
  /\ f[0] = start
  /\ \A k \in 1 .. n : f[k] = Body(loop, s, t, k, f[k - 1])

LEMMA LoopRuns ==
  ASSUME NEW loop, NEW s, NEW t, NEW start, NEW n \in Nat, NEW f,
         f = [k \in 0 .. n |-> LoopStep(loop, s, t, start, f, k)]
  PROVE  Runs(f, loop, s, t, start, n)
<1>1. f[0] = start
  BY DEF LoopStep
<1>2. ASSUME NEW k \in 1 .. n PROVE f[k] = Body(loop, s, t, k, f[k - 1])
  BY k \in 0 .. n, k # 0 DEF LoopStep
<1> QED BY <1>1, <1>2 DEF Runs

LEMMA SortedRuns ==
  ASSUME NEW s, Len(s) \in Nat
  PROVE  \E f : Runs(f, "sort", s, 0, Empty, Len(s)) /\ Sorted(s) = f[Len(s)]
<1> DEFINE f == CHOOSE f : f = [k \in 0 .. Len(s) |-> LoopStep("sort", s, 0, Empty, f, k)]
<1>1. f = [k \in 0 .. Len(s) |-> LoopStep("sort", s, 0, Empty, f, k)]
  BY LoopExists
<1>2. Sorted(s) = f[Len(s)]
  BY DEF Sorted, LoopStep, Body
<1> HIDE DEF f
<1>3. Runs(f, "sort", s, 0, Empty, Len(s))
  BY <1>1, LoopRuns
<1> QED BY <1>2, <1>3

LEMMA MergedRuns ==
  ASSUME NEW s, Len(s) \in Nat
  PROVE  \E f : Runs(f, "merge", s, 0, Empty, Len(s)) /\ Merged(s) = f[Len(s)]
<1> DEFINE f == CHOOSE f : f = [k \in 0 .. Len(s) |-> LoopStep("merge", s, 0, Empty, f, k)]
<1>1. f = [k \in 0 .. Len(s) |-> LoopStep("merge", s, 0, Empty, f, k)]
  BY LoopExists
<1>2. Merged(s) = f[Len(s)]
  BY DEF Merged, LoopStep, Body
<1> HIDE DEF f
<1>3. Runs(f, "merge", s, 0, Empty, Len(s))
  BY <1>1, LoopRuns
<1> QED BY <1>2, <1>3

Start == [i |-> 1, j |-> 1, out |-> Empty]
LEMMA MeetRuns ==
  ASSUME NEW s, NEW t, Len(s) + Len(t) \in Nat
  PROVE  \E f : /\ Runs(f, "meet", s, t, Start, Len(s) + Len(t))
                /\ Meet(s, t) = f[Len(s) + Len(t)].out
<1> DEFINE n == Len(s) + Len(t)
           f == CHOOSE f : f = [k \in 0 .. n |-> LoopStep("meet", s, t, Start, f, k)]
<1>1. f = [k \in 0 .. n |-> LoopStep("meet", s, t, Start, f, k)]
  BY LoopExists
<1>2. Meet(s, t) = f[n].out
  BY DEF Meet, LoopStep, Body, Start
<1> HIDE DEF f
<1>3. Runs(f, "meet", s, t, Start, Len(s) + Len(t))
  BY <1>1, LoopRuns
<1> QED BY <1>2, <1>3

LEMMA ComplementRuns ==
  ASSUME NEW s, Len(s) \in Nat
  PROVE  \E f : /\ Runs(f, "gaps", s, 0, Empty, Len(s) + 1)
                /\ Complement(s) = f[Len(s) + 1]
<1> DEFINE n == Len(s) + 1
           f == CHOOSE f : f = [k \in 0 .. n |-> LoopStep("gaps", s, 0, Empty, f, k)]
<1>1. f = [k \in 0 .. n |-> LoopStep("gaps", s, 0, Empty, f, k)]
  BY LoopExists
<1>2. Complement(s) = f[n]
  BY DEF Complement, LoopStep, Body
<1> HIDE DEF f
<1>3. Runs(f, "gaps", s, 0, Empty, Len(s) + 1)
  BY <1>1, LoopRuns
<1> QED BY <1>2, <1>3

-----------------------------------------------------------------------------
(* Ranges and the words they hold.                                         *)
LEMMA SpanAt ==
  ASSUME NEW s \in Spans, NEW i \in 1 .. Len(s)
  PROVE  /\ s[i] \in Span /\ s[i] = <<s[i][1], s[i][2]>>
         /\ s[i][1] \in 0 .. Top /\ s[i][2] \in 0 .. Top
         /\ s[i][1] \in Int /\ s[i][2] \in Int
         /\ 0 <= s[i][1] /\ s[i][1] <= Top /\ 0 <= s[i][2] /\ s[i][2] <= Top
<1>1. s[i] \in Span
  BY DEF Spans
<1> QED BY <1>1, TopAssumption DEF Span

LEMMA MemberAt ==
  ASSUME NEW s \in Spans
  PROVE  \A x : x \in Members(s)
                 <=> \E i \in 1 .. Len(s) : x \in s[i][1] .. s[i][2]
<1>1. DOMAIN s = 1 .. Len(s)
  BY DEF Spans
<1> QED BY <1>1 DEF Members

LEMMA MembersAreWords ==
  ASSUME NEW s \in Spans
  PROVE  Members(s) \subseteq 0 .. Top
<1> SUFFICES ASSUME NEW x \in Members(s) PROVE x \in 0 .. Top
  OBVIOUS
<1>1. PICK i \in 1 .. Len(s) : x \in s[i][1] .. s[i][2]
  BY MemberAt
<1>2. s[i][1] \in 0 .. Top /\ s[i][2] \in 0 .. Top
  BY SpanAt
<1> QED BY <1>1, <1>2, TopAssumption

(* The ranges of a canonical set lie apart and in order, next or not.      *)
LEMMA RangesApart ==
  ASSUME NEW s \in Sets, NEW i \in 1 .. Len(s), NEW j \in 1 .. Len(s), i < j
  PROVE  s[i][2] + 1 < s[j][1]
<1>0. s \in Spans /\ Canonical(s) /\ Len(s) \in Nat
  BY DEF Sets, Spans
<1> DEFINE Fails == {k \in Nat : k > i /\ k <= Len(s) /\ ~ (s[i][2] + 1 < s[k][1])}
<1> SUFFICES ASSUME Fails # {} PROVE FALSE
  BY <1>0
<1>1. PICK m \in Fails : \A k \in Fails : m <= k
  BY FirstNumber
<1>2. m - 1 \in 1 .. Len(s) - 1 /\ m \in 1 .. Len(s) /\ (m - 1) + 1 = m
  BY <1>0, <1>1
<1>3. s[m - 1][2] + 1 < s[m][1] /\ s[m - 1][1] <= s[m - 1][2]
  BY <1>0, <1>2 DEF Canonical
<1>4. /\ s[m - 1][2] \in Int /\ s[m - 1][1] \in Int /\ s[m][1] \in Int /\ s[i][2] \in Int
  <2>1. m - 1 \in 1 .. Len(s)
    BY <1>0, <1>2
  <2>2. s[m - 1][1] \in Int /\ s[m - 1][2] \in Int
    BY <1>0, <2>1, SpanAt
  <2>3. s[m][1] \in Int
    BY <1>0, <1>2, SpanAt
  <2>4. s[i][2] \in Int
    BY <1>0, SpanAt
  <2> QED BY <2>2, <2>3, <2>4
<1>5. CASE m - 1 = i
  BY <1>1, <1>3, <1>5
<1>6. CASE m - 1 # i
  <2>1. m \in Nat /\ ~ (m <= m - 1) /\ m - 1 > i /\ m - 1 \in Nat /\ m - 1 <= Len(s)
    BY <1>0, <1>1, <1>2, <1>6
  <2>2. m - 1 \notin Fails
    <3> HIDE DEF Fails
    <3> QED BY <2>1, <1>1
  <2>3. s[i][2] + 1 < s[m - 1][1]
    BY <2>1, <2>2
  <2>4. ~ (s[i][2] + 1 < s[m][1])
    BY <1>1
  <2>5. \A a, b, c, d \in Int : a + 1 < b /\ b <= c /\ c + 1 < d => a + 1 < d
    OBVIOUS
  <2> HIDE DEF Fails
  <2> QED BY <2>3, <2>4, <2>5, <1>3, <1>4
<1> QED BY <1>5, <1>6

(* A canonical set is told by its words: where two of them first differ,   *)
(* one of the words at the ends of a range is missing from the other.      *)
LEMMA EndsTold ==
  ASSUME NEW s \in Sets, NEW t \in Sets, Members(s) = Members(t),
         NEW m \in 1 .. Len(s), NEW n \in Nat, m = n + 1, n <= Len(t),
         \A i \in 1 .. n : s[i] = t[i]
  PROVE  m \in 1 .. Len(t) /\ s[m][1] >= t[m][1]
<1>0. s \in Spans /\ t \in Spans /\ Canonical(s) /\ Len(s) \in Nat /\ Len(t) \in Nat
  BY DEF Sets, Spans
<1>1. s[m][1] \in s[m][1] .. s[m][2]
  BY <1>0, SpanAt DEF Canonical
<1>2. PICK j \in 1 .. Len(t) : s[m][1] \in t[j][1] .. t[j][2]
  BY <1>0, <1>1, MemberAt
<1>3. /\ s[m][1] \in Int /\ t[j][1] \in Int /\ t[j][2] \in Int
      /\ t[j][1] <= s[m][1] /\ s[m][1] <= t[j][2]
  BY <1>0, <1>2, SpanAt
<1>4. ~ (j < m)
  <2> SUFFICES ASSUME j < m PROVE FALSE
    OBVIOUS
  <2>1. j \in 1 .. n /\ j \in 1 .. Len(s)
    BY <1>0, <1>2
  <2>2. s[j] = t[j] /\ s[j][2] + 1 < s[m][1]
    BY <2>1, RangesApart
  <2> QED BY <2>2, <1>3
<1>5. CASE j = m
  BY <1>5, <1>2, <1>3
<1>6. CASE j > m
  <2>1. m \in 1 .. Len(t)
    BY <1>0, <1>2, <1>6
  <2>2. t[m][2] + 1 < t[j][1] /\ t[m][1] <= t[m][2] /\ t[m][1] \in Int /\ t[m][2] \in Int
    <3>1. t[m][2] + 1 < t[j][1]
      BY <2>1, <1>6, RangesApart
    <3> QED BY <3>1, <2>1, <1>0, SpanAt DEF Canonical, Sets
  <2> QED BY <2>1, <2>2, <1>3
<1> QED BY <1>0, <1>4, <1>5, <1>6

LEMMA TopsTold ==
  ASSUME NEW s \in Sets, NEW t \in Sets, Members(s) = Members(t),
         NEW m \in 1 .. Len(s), m \in 1 .. Len(t), s[m][1] = t[m][1]
  PROVE  s[m][2] >= t[m][2]
<1> SUFFICES ASSUME ~ (s[m][2] >= t[m][2]) PROVE FALSE
  OBVIOUS
<1>0. s \in Spans /\ t \in Spans /\ Canonical(s) /\ Canonical(t)
      /\ Len(s) \in Nat /\ Len(t) \in Nat
  BY DEF Sets, Spans
<1>1. /\ s[m][1] \in Int /\ s[m][2] \in Int /\ t[m][2] \in Int
      /\ s[m][1] <= s[m][2] /\ s[m][2] < t[m][2]
  BY <1>0, SpanAt DEF Canonical
<1>2. s[m][2] + 1 \in t[m][1] .. t[m][2]
  BY <1>1
<1>3. PICK j \in 1 .. Len(s) : s[m][2] + 1 \in s[j][1] .. s[j][2]
  BY <1>0, <1>2, MemberAt
<1>4. /\ s[j][1] \in Int /\ s[j][2] \in Int
      /\ s[j][1] <= s[m][2] + 1 /\ s[m][2] + 1 <= s[j][2]
  BY <1>0, <1>3, SpanAt
<1>5. CASE j < m
  <2>1. s[j][2] + 1 < s[m][1]
    BY <1>5, RangesApart
  <2> QED BY <2>1, <1>1, <1>4
<1>6. CASE j = m
  BY <1>6, <1>1, <1>4
<1>7. CASE j > m
  <2>1. s[m][2] + 1 < s[j][1]
    BY <1>7, RangesApart
  <2> QED BY <2>1, <1>1, <1>4
<1> QED BY <1>5, <1>6, <1>7

(* interval.rs:10: two sets have the same ranges exactly when they hold    *)
(* the same words, so comparing ranges compares sets.                      *)
THEOREM CanonicalUnique ==
  ASSUME NEW s \in Sets, NEW t \in Sets, Members(s) = Members(t)
  PROVE  s = t
<1>0. s \in Spans /\ t \in Spans /\ Len(s) \in Nat /\ Len(t) \in Nat
  BY DEF Sets, Spans
<1> DEFINE Differ == {k \in Nat : /\ k >= 1
                                  /\ \/ k \in 1 .. Len(s) /\ ~ (k \in 1 .. Len(t) /\ s[k] = t[k])
                                     \/ k \in 1 .. Len(t) /\ ~ (k \in 1 .. Len(s) /\ s[k] = t[k])}
<1>1. Differ = {}
  <2> SUFFICES ASSUME Differ # {} PROVE FALSE
    OBVIOUS
  <2>1. PICK m \in Differ : \A k \in Differ : m <= k
    BY FirstNumber
  <2>2. m - 1 \in Nat /\ m = (m - 1) + 1
    BY <2>1
  <2>3. m - 1 <= Len(s) /\ m - 1 <= Len(t)
        /\ \A i \in 1 .. m - 1 : s[i] = t[i]
    <3>1. \A i \in 1 .. m - 1 : i \in Nat /\ i >= 1 /\ i \notin Differ
      BY <2>1, <2>2
    <3>2. \A i \in 1 .. m - 1 : (i \in 1 .. Len(s) <=> i \in 1 .. Len(t))
      BY <3>1
    <3>3. m - 1 <= Len(s) \/ m - 1 <= Len(t)
      BY <2>1, <1>0
    <3>4. m - 1 <= Len(s) /\ m - 1 <= Len(t)
      BY <3>2, <3>3, <2>2, <1>0
    <3>5. \A i \in 1 .. m - 1 : i \in 1 .. Len(s)
      BY <3>4, <2>2, <1>0
    <3> QED BY <3>1, <3>4, <3>5
  <2>4. m \in 1 .. Len(s) /\ m \in 1 .. Len(t)
    <3>1. CASE m \in 1 .. Len(s)
      BY <3>1, <2>2, <2>3, EndsTold
    <3>2. CASE m \in 1 .. Len(t)
      BY <3>2, <2>2, <2>3, EndsTold
    <3> QED BY <3>1, <3>2, <2>1
  <2>5. s[m][1] >= t[m][1] /\ t[m][1] >= s[m][1]
    BY <2>2, <2>3, <2>4, EndsTold
  <2>6. /\ s[m][1] \in Int /\ t[m][1] \in Int /\ s[m][2] \in Int /\ t[m][2] \in Int
        /\ s[m] = <<s[m][1], s[m][2]>> /\ t[m] = <<t[m][1], t[m][2]>>
    BY <1>0, <2>4, SpanAt
  <2>7. s[m][1] = t[m][1]
    BY <2>5, <2>6
  <2>8. s[m][2] >= t[m][2] /\ t[m][2] >= s[m][2]
    BY <2>4, <2>7, TopsTold
  <2>9. s[m] = t[m]
    BY <2>6, <2>7, <2>8
  <2> QED BY <2>1, <2>4, <2>9
<1>2. \A k \in Nat : k >= 1 => (k \in 1 .. Len(s) <=> k \in 1 .. Len(t))
  BY <1>1
<1>3. Len(s) = Len(t)
  <2> HIDE DEF Differ
  <2>1. Len(s) > Len(t) => Len(s) >= 1
    BY <1>0
  <2>2. Len(t) > Len(s) => Len(t) >= 1
    BY <1>0
  <2>3. ~ (Len(s) > Len(t)) /\ ~ (Len(t) > Len(s))
    BY <1>0, <1>2, <2>1, <2>2
  <2> QED BY <1>0, <2>3
<1>4. \A k \in 1 .. Len(s) : s[k] = t[k]
  BY <1>0, <1>1
<1> QED BY <1>0, <1>3, <1>4 DEF Spans

-----------------------------------------------------------------------------
(* The last word of a set that is not empty.                               *)
End(s) == s[Len(s)][2]

LEMMA EndIsWord ==
  ASSUME NEW s \in Sets, s # Empty
  PROVE  End(s) \in 0 .. Top /\ End(s) \in Int
<1>1. s \in Spans /\ Len(s) \in 1 .. Len(s)
  BY DEF Sets, Spans, Empty
<1> QED BY <1>1, SpanAt DEF End

Room(s, lo, hi) ==
  lo <= hi => /\ 0 <= lo /\ hi <= Top
              /\ s # Empty => End(s) + 1 < lo
Extended(s, lo, hi, u) ==
  /\ u \in Sets
  /\ Members(u) = Members(s) \cup lo .. hi
  /\ lo > hi => u = s
  /\ lo <= hi => u # Empty /\ End(u) = hi

(* A range put at the end of a canonical set, apart from its last one.     *)
LEMMA RangeAppended ==
  ASSUME NEW s \in Sets, NEW lo \in 0 .. Top, NEW hi \in 0 .. Top, lo <= hi,
         Room(s, lo, hi), NEW u, u = Append(s, <<lo, hi>>)
  PROVE  Extended(s, lo, hi, u)
<1> DEFINE n == Len(s)
<1>0. s \in Spans /\ Canonical(s) /\ n \in Nat /\ <<lo, hi>> \in Span
  BY DEF Sets, Spans, Span
<1>1. /\ u \in Spans /\ Len(u) = n + 1 /\ u[n + 1] = <<lo, hi>>
      /\ \A i \in 1 .. n : u[i] = s[i]
      /\ u # Empty
  <2>1. /\ u \in Spans /\ Len(u) = n + 1 /\ u[n + 1] = <<lo, hi>>
        /\ \A i \in 1 .. n : u[i] = s[i]
    BY <1>0 DEF Spans
  <2>2. Len(Empty) = 0 /\ n + 1 # 0
    BY <1>0 DEF Empty
  <2> QED BY <2>1, <2>2
<1>2. s # Empty <=> n >= 1
  BY <1>0 DEF Spans, Empty
<1>3. Canonical(u)
  <2>1. \A i \in 1 .. n + 1 : u[i][1] <= u[i][2]
    <3> SUFFICES ASSUME NEW i \in 1 .. n + 1 PROVE u[i][1] <= u[i][2]
      OBVIOUS
    <3>1. CASE i = n + 1
      BY <3>1, <1>1
    <3>2. CASE i # n + 1
      BY <3>2, <1>0, <1>1, i \in 1 .. n DEF Canonical
    <3> QED BY <3>1, <3>2
  <2>2. \A i \in 1 .. n : u[i][2] + 1 < u[i + 1][1]
    <3> SUFFICES ASSUME NEW i \in 1 .. n PROVE u[i][2] + 1 < u[i + 1][1]
      OBVIOUS
    <3>1. CASE i = n
      <4>1. s # Empty /\ n \in 1 .. n
        BY <3>1, <1>0, <1>2
      <4>2. s[n][2] + 1 < lo
        BY <4>1 DEF Room, End
      <4>3. u[i] = s[n] /\ u[i + 1] = <<lo, hi>>
        BY <3>1, <4>1, <1>1
      <4> QED BY <4>2, <4>3
    <3>2. CASE i # n
      BY <3>2, <1>0, <1>1, i \in 1 .. n - 1, i + 1 \in 1 .. n DEF Canonical
    <3> QED BY <3>1, <3>2
  <2>3. 1 .. Len(u) = 1 .. n + 1 /\ 1 .. Len(u) - 1 = 1 .. n
    BY <1>0, <1>1
  <2> QED BY <2>1, <2>2, <2>3 DEF Canonical
<1>4. Members(u) = Members(s) \cup lo .. hi
  <2>1. ASSUME NEW x \in Members(u) PROVE x \in Members(s) \cup lo .. hi
    <3>1. PICK i \in 1 .. n + 1 : x \in u[i][1] .. u[i][2]
      BY <1>1, MemberAt
    <3>2. CASE i = n + 1
      BY <3>1, <3>2, <1>1
    <3>3. CASE i # n + 1
      BY <3>1, <3>3, <1>0, <1>1, i \in 1 .. n, MemberAt
    <3> QED BY <3>2, <3>3
  <2>2. ASSUME NEW x \in Members(s) PROVE x \in Members(u)
    <3>1. PICK i \in 1 .. n : x \in s[i][1] .. s[i][2]
      BY <1>0, MemberAt
    <3>2. i \in 1 .. n + 1
      BY <1>0
    <3> QED BY <3>1, <3>2, <1>1, MemberAt
  <2>3. ASSUME NEW x \in lo .. hi PROVE x \in Members(u)
    <3>1. n + 1 \in 1 .. n + 1
      BY <1>0
    <3>2. x \in u[n + 1][1] .. u[n + 1][2]
      BY <1>1
    <3> QED BY <3>1, <3>2, <1>1, MemberAt
  <2> QED BY <2>1, <2>2, <2>3
<1>5. u \in Sets
  BY <1>1, <1>3 DEF Sets
<1>6. End(u) = hi /\ ~ (lo > hi)
  BY <1>1 DEF End
<1> QED BY <1>1, <1>4, <1>5, <1>6 DEF Extended

LEMMA BetweenAppended ==
  ASSUME NEW s \in Sets, NEW lo \in Int, NEW hi \in Int, Room(s, lo, hi)
  PROVE  Extended(s, lo, hi, s \o Between(lo, hi))
<1> DEFINE u == s \o Between(lo, hi)
<1>0. s \in Seq(Span)
  BY DEF Sets, Spans
<1>1. CASE lo > hi
  <2>1. u = s /\ lo .. hi = {} /\ ~ (lo <= hi)
    BY <1>0, <1>1 DEF Between, Empty
  <2> HIDE DEF u
  <2>2. Extended(s, lo, hi, u)
    BY <1>1, <2>1 DEF Extended
  <2> QED BY <2>2 DEF u
<1>2. CASE lo <= hi
  <2>1. lo \in 0 .. Top /\ hi \in 0 .. Top /\ <<lo, hi>> \in Span /\ ~ (lo > hi)
    BY <1>2, TopAssumption DEF Span, Room
  <2>2. u = Append(s, <<lo, hi>>)
    <3>1. Between(lo, hi) = << <<lo, hi>> >>
      BY <1>2 DEF Between
    <3>2. s \o << <<lo, hi>> >> = Append(s, <<lo, hi>>)
      BY <1>0, <2>1
    <3> QED BY <3>1, <3>2
  <2> HIDE DEF u
  <2>3. Extended(s, lo, hi, u)
    BY <1>2, <2>1, <2>2, RangeAppended
  <2> QED BY <2>3 DEF u
<1> QED BY <1>1, <1>2

-----------------------------------------------------------------------------
(* intersect: what is still to come of each sequence, and what is done.    *)
Rest(s, i) == UNION {s[q][1] .. s[q][2] : q \in i .. Len(s)}

Standing(s, t, i, j, out, both) ==
  /\ out \in Sets
  /\ Members(out) \cup (Rest(s, i) \cap Rest(t, j)) = both
  /\ out # Empty => \/ i > Len(s) \/ j > Len(t)
                    \/ End(out) + 1 < s[i][1] \/ End(out) + 1 < t[j][1]

MeetInv(s, t, k, at) ==
  /\ at = [i |-> at.i, j |-> at.j, out |-> at.out]
  /\ at.i \in 1 .. Len(s) + 1 /\ at.j \in 1 .. Len(t) + 1
  /\ at.i > Len(s) \/ at.j > Len(t) \/ at.i + at.j = k + 2
  /\ Standing(s, t, at.i, at.j, at.out, Members(s) \cap Members(t))

Higher(a, b) == IF a > b THEN a ELSE b

LEMMA RestSplits ==
  ASSUME NEW s \in Spans, NEW i \in 1 .. Len(s)
  PROVE  Rest(s, i) = (s[i][1] .. s[i][2]) \cup Rest(s, i + 1)
<1>1. Len(s) \in Nat
  BY DEF Spans
<1>2. i .. Len(s) = {i} \cup (i + 1 .. Len(s))
  BY <1>1
<1> QED BY <1>2 DEF Rest

(* The words still to come lie above the range that stands.                *)
LEMMA RestAbove ==
  ASSUME NEW s \in Sets, NEW i \in 1 .. Len(s), NEW x \in Rest(s, i + 1)
  PROVE  x \in Int /\ s[i][2] + 1 < x
<1>0. s \in Spans /\ Len(s) \in Nat
  BY DEF Sets, Spans
<1>1. PICK q \in i + 1 .. Len(s) : x \in s[q][1] .. s[q][2]
  BY DEF Rest
<1>2. q \in 1 .. Len(s) /\ i < q
  BY <1>0
<1>3. s[i][2] + 1 < s[q][1] /\ s[q][1] \in Int /\ s[q][2] \in Int /\ s[i][2] \in Int
  BY <1>0, <1>2, RangesApart, SpanAt
<1> QED BY <1>1, <1>3

(* One step of the loop, seen from the sequence that moves on.             *)
LEMMA MeetAdvance ==
  ASSUME NEW s \in Sets, NEW t \in Sets, NEW i \in 1 .. Len(s), NEW j \in 1 .. Len(t),
         NEW out, NEW both, Standing(s, t, i, j, out, both), s[i][2] <= t[j][2]
  PROVE  Standing(s, t, i + 1, j, out \o Between(Higher(s[i][1], t[j][1]), s[i][2]), both)
<1>0. s \in Spans /\ t \in Spans /\ Len(s) \in Nat /\ Len(t) \in Nat /\ out \in Sets
  BY DEF Sets, Spans, Standing
<1>1. PICK a1 \in Int, a2 \in Int :
        s[i] = <<a1, a2>> /\ a1 = s[i][1] /\ a2 = s[i][2] /\ 0 <= a1 /\ a2 <= Top /\ a1 <= a2
  BY <1>0, SpanAt DEF Sets, Canonical
<1>2. PICK b1 \in Int, b2 \in Int :
        t[j] = <<b1, b2>> /\ b1 = t[j][1] /\ b2 = t[j][2] /\ 0 <= b1 /\ b2 <= Top /\ b1 <= b2
  BY <1>0, SpanAt DEF Sets, Canonical
<1>3. PICK lo \in Int : lo = Higher(a1, b1)
  BY DEF Higher
<1>4. 0 <= lo /\ lo >= a1 /\ lo >= b1 /\ (lo = a1 \/ lo = b1) /\ a2 <= b2
  BY <1>1, <1>2, <1>3 DEF Higher
<1>5. PICK new : new = out \o Between(lo, a2)
  OBVIOUS
<1>6. ASSUME out # Empty PROVE End(out) \in Int /\ End(out) + 1 < lo
  <2>1. End(out) \in Int
    BY <1>0, <1>6, EndIsWord
  <2>2. End(out) + 1 < a1 \/ End(out) + 1 < b1
    BY <1>0, <1>1, <1>2, <1>6 DEF Standing
  <2> QED BY <2>1, <2>2, <1>4
<1>7. Extended(out, lo, a2, new)
  <2>1. Room(out, lo, a2)
    BY <1>1, <1>4, <1>6 DEF Room
  <2> QED BY <1>0, <1>5, <2>1, BetweenAppended
<1>8. lo .. a2 = (a1 .. a2) \cap (b1 .. b2)
  BY <1>4
<1>9. Rest(s, i) = (a1 .. a2) \cup Rest(s, i + 1)
  BY <1>0, <1>1, RestSplits
<1>10. Rest(t, j) = (b1 .. b2) \cup Rest(t, j + 1)
  BY <1>0, <1>2, RestSplits
<1>11. (a1 .. a2) \cap Rest(t, j + 1) = {}
  <2> SUFFICES ASSUME NEW x \in a1 .. a2, x \in Rest(t, j + 1) PROVE FALSE
    OBVIOUS
  <2>1. x \in Int /\ b2 + 1 < x
    BY <1>2, RestAbove
  <2> QED BY <2>1, <1>4
<1>12. Members(new) \cup (Rest(s, i + 1) \cap Rest(t, j)) = both
  <2>1. Members(new) = Members(out) \cup ((a1 .. a2) \cap (b1 .. b2))
    BY <1>7, <1>8 DEF Extended
  <2>2. \A P, Q, R, S, T : (P \cap S) = {} =>
            (T \cup (P \cap Q)) \cup (R \cap (Q \cup S)) = T \cup ((P \cup R) \cap (Q \cup S))
    OBVIOUS
  <2>3. Members(out) \cup (Rest(s, i) \cap Rest(t, j)) = both
    BY DEF Standing
  <2> QED BY <2>1, <2>2, <2>3, <1>9, <1>10, <1>11
<1>13. ASSUME new # Empty, i + 1 <= Len(s)
       PROVE  End(new) + 1 < s[i + 1][1] \/ End(new) + 1 < t[j][1]
  <2>1. i + 1 \in 1 .. Len(s) /\ i < i + 1
    BY <1>0, <1>13
  <2>2. a2 + 1 < s[i + 1][1]
    BY <1>1, <2>1, RangesApart
  <2>3. CASE lo <= a2
    <3>1. End(new) = a2
      BY <1>7, <2>3 DEF Extended
    <3> QED BY <3>1, <2>2
  <2>4. CASE lo > a2
    <3>1. new = out
      BY <1>7, <2>4 DEF Extended
    <3>2. lo = b1
      BY <1>1, <1>4, <2>4
    <3> QED BY <3>1, <3>2, <1>2, <1>6, <1>13
  <2> QED BY <2>3, <2>4
<1>14. i + 1 > Len(s) \/ i + 1 <= Len(s)
  BY <1>0
<1>15. new \in Sets
  BY <1>7 DEF Extended
<1>16. Standing(s, t, i + 1, j, new, both)
  BY <1>12, <1>13, <1>14, <1>15 DEF Standing
<1> QED BY <1>16, <1>1, <1>2, <1>3, <1>5

LEMMA StandingSwapped ==
  ASSUME NEW s, NEW t, NEW i, NEW j, NEW out, NEW both, Standing(s, t, i, j, out, both)
  PROVE  Standing(t, s, j, i, out, both)
<1>1. Rest(t, j) \cap Rest(s, i) = Rest(s, i) \cap Rest(t, j)
  OBVIOUS
<1> QED BY <1>1 DEF Standing

LEMMA MeetStep ==
  ASSUME NEW s \in Sets, NEW t \in Sets, NEW k \in Nat, NEW at, MeetInv(s, t, k, at)
  PROVE  MeetInv(s, t, k + 1, Meeting(s, t, at))
<1>0. /\ s \in Spans /\ t \in Spans /\ Len(s) \in Nat /\ Len(t) \in Nat
      /\ at.i \in Nat /\ at.j \in Nat
  BY DEF Sets, Spans, MeetInv
<1>1. CASE at.i > Len(s) \/ at.j > Len(t)
  <2>1. Meeting(s, t, at) = at
    BY <1>1 DEF Meeting
  <2>2. MeetInv(s, t, k + 1, at)
    BY <1>1 DEF MeetInv
  <2> QED BY <2>1, <2>2
<1>2. CASE ~ (at.i > Len(s) \/ at.j > Len(t))
  <2>1. PICK i, j, out, both : i = at.i /\ j = at.j /\ out = at.out /\ both = Members(s) \cap Members(t)
    OBVIOUS
  <2>2. i \in 1 .. Len(s) /\ j \in 1 .. Len(t) /\ i + j = k + 2
    BY <1>0, <1>2, <2>1 DEF MeetInv
  <2>3. Standing(s, t, i, j, out, both)
    BY <2>1 DEF MeetInv
  <2>4. /\ s[i][1] \in Int /\ s[i][2] \in Int /\ t[j][1] \in Int /\ t[j][2] \in Int
    BY <1>0, <2>2, SpanAt
  <2>5. PICK new, next : /\ next = Meeting(s, t, at)
                         /\ new = out \o Between(Higher(s[i][1], t[j][1]),
                                     IF s[i][2] < t[j][2] THEN s[i][2] ELSE t[j][2])
    OBVIOUS
  <2>6. next = [i |-> IF s[i][2] < t[j][2] THEN i + 1 ELSE i,
                j |-> IF s[i][2] < t[j][2] THEN j ELSE j + 1, out |-> new]
    BY <1>2, <2>1, <2>5 DEF Meeting, Higher
  <2>7. CASE s[i][2] < t[j][2]
    <3>1. s[i][2] <= t[j][2] /\ new = out \o Between(Higher(s[i][1], t[j][1]), s[i][2])
      BY <2>4, <2>5, <2>7
    <3>2. Standing(s, t, i + 1, j, new, both)
      BY <2>2, <2>3, <3>1, MeetAdvance
    <3>3. /\ next = [i |-> next.i, j |-> next.j, out |-> next.out]
          /\ next.i = i + 1 /\ next.j = j /\ next.out = new
      BY <2>6, <2>7
    <3>4. i + 1 \in 1 .. Len(s) + 1 /\ j \in 1 .. Len(t) + 1 /\ (i + 1) + j = (k + 1) + 2
      BY <1>0, <2>2
    <3>5. MeetInv(s, t, k + 1, next)
      BY <2>1, <3>2, <3>3, <3>4 DEF MeetInv
    <3> QED BY <2>5, <3>5
  <2>8. CASE ~ (s[i][2] < t[j][2])
    <3>1. t[j][2] <= s[i][2] /\ new = out \o Between(Higher(t[j][1], s[i][1]), t[j][2])
      <4>1. t[j][2] <= s[i][2]
        BY <2>4, <2>8
      <4>2. Higher(s[i][1], t[j][1]) = Higher(t[j][1], s[i][1])
        BY <2>4 DEF Higher
      <4>3. new = out \o Between(Higher(s[i][1], t[j][1]), t[j][2])
        BY <2>5, <2>8, Zenon
      <4> QED BY <4>1, <4>2, <4>3, Zenon
    <3>2. Standing(t, s, j, i, out, both)
      BY <2>3, StandingSwapped
    <3>3. Standing(t, s, j + 1, i, new, both)
      BY <2>2, <3>1, <3>2, MeetAdvance
    <3>4. Standing(s, t, i, j + 1, new, both)
      BY <3>3, StandingSwapped
    <3>5. /\ next = [i |-> next.i, j |-> next.j, out |-> next.out]
          /\ next.i = i /\ next.j = j + 1 /\ next.out = new
      BY <2>6, <2>8
    <3>6. i \in 1 .. Len(s) + 1 /\ j + 1 \in 1 .. Len(t) + 1 /\ i + (j + 1) = (k + 1) + 2
      BY <1>0, <2>2
    <3>7. MeetInv(s, t, k + 1, next)
      BY <2>1, <3>4, <3>5, <3>6 DEF MeetInv
    <3> QED BY <2>5, <3>7
  <2> QED BY <2>7, <2>8
<1> QED BY <1>1, <1>2

(* intersect of two canonical sets is canonical, and holds the words both  *)
(* hold.                                                                   *)
THEOREM MeetIsIntersection ==
  ASSUME NEW s \in Sets, NEW t \in Sets
  PROVE  Meet(s, t) \in Sets /\ Members(Meet(s, t)) = Members(s) \cap Members(t)
<1>0. s \in Spans /\ t \in Spans /\ Len(s) \in Nat /\ Len(t) \in Nat
  BY DEF Sets, Spans
<1> DEFINE n == Len(s) + Len(t)
<1>1. n \in Nat
  BY <1>0
<1>2. PICK f : Runs(f, "meet", s, t, Start, n) /\ Meet(s, t) = f[n].out
  BY <1>1, MeetRuns
<1>3. \A k \in 1 .. n : f[k] = Meeting(s, t, f[k - 1])
  BY <1>2 DEF Runs, Body
<1> DEFINE Fails == {k \in 0 .. n : ~ MeetInv(s, t, k, f[k])}
<1>4. Fails = {}
  <2> SUFFICES ASSUME Fails # {} PROVE FALSE
    OBVIOUS
  <2>0. Fails \subseteq Nat
    BY <1>1
  <2>1. PICK m \in Fails : \A k \in Fails : m <= k
    <3> HIDE DEF Fails
    <3> QED BY <2>0, FirstNumber
  <2>2. CASE m = 0
    <3>1. f[0] = Start /\ Start.i = 1 /\ Start.j = 1 /\ Start.out = Empty
      BY <1>2 DEF Runs, Start
    <3>2. Empty \in Sets /\ Members(Empty) = {}
      BY DEF Sets, Spans, Empty, Canonical, Members
    <3>3. Rest(s, 1) = Members(s) /\ Rest(t, 1) = Members(t)
      <4>1. DOMAIN s = 1 .. Len(s) /\ DOMAIN t = 1 .. Len(t)
        BY <1>0 DEF Spans
      <4> QED BY <4>1 DEF Rest, Members
    <3>4. MeetInv(s, t, 0, Start)
      BY <3>1, <3>2, <3>3, <1>0 DEF MeetInv, Start, Standing
    <3> QED BY <2>1, <2>2, <3>1, <3>4
  <2>3. CASE m # 0
    <3>1. m \in 1 .. n /\ m - 1 \in 0 .. n /\ m - 1 \in Nat /\ (m - 1) + 1 = m
          /\ ~ (m <= m - 1)
      BY <1>1, <2>1, <2>3
    <3>2. MeetInv(s, t, m - 1, f[m - 1])
      BY <2>1, <3>1
    <3>3. MeetInv(s, t, m, f[m])
      BY <3>1, <3>2, <1>3, MeetStep
    <3> QED BY <2>1, <3>3
  <2> QED BY <2>2, <2>3
<1>5. MeetInv(s, t, n, f[n])
  BY <1>1, <1>4
<1>6. f[n].i > Len(s) \/ f[n].j > Len(t)
  BY <1>0, <1>5 DEF MeetInv
<1>7. Rest(s, f[n].i) \cap Rest(t, f[n].j) = {}
  <2>1. f[n].i .. Len(s) = {} \/ f[n].j .. Len(t) = {}
    BY <1>0, <1>5, <1>6 DEF MeetInv
  <2> QED BY <2>1 DEF Rest
<1> QED BY <1>2, <1>5, <1>7 DEF MeetInv, Standing

-----------------------------------------------------------------------------
(* complement: after k gaps the words below the k-th range are settled.    *)
Bound(s, k) == IF k = 0 THEN 0 ELSE IF k <= Len(s) THEN s[k][1] ELSE Top + 1

GapsInv(s, k, out) ==
  /\ out \in Sets
  /\ Members(out) = (0 .. Bound(s, k) - 1) \ Members(s)
  /\ out # Empty => End(out) < Bound(s, k)

(* No word of the set lies between two ranges, before or after them.       *)
LEMMA NoneBetween ==
  ASSUME NEW s \in Sets, NEW k \in 0 .. Len(s)
  PROVE  /\ Bound(s, k) \in Int /\ Bound(s, k + 1) \in Int /\ Cursor(s, k + 1) \in Int
         /\ 0 <= Cursor(s, k + 1) /\ Bound(s, k + 1) - 1 <= Top /\ 0 <= Bound(s, k)
         /\ Cursor(s, k + 1) <= Bound(s, k + 1)
         /\ Bound(s, k) <= Cursor(s, k + 1)
         /\ k # 0 => Bound(s, k) < Cursor(s, k + 1)
         /\ Bound(s, k) .. Cursor(s, k + 1) - 1 \subseteq Members(s)
         /\ (Cursor(s, k + 1) .. Bound(s, k + 1) - 1) \cap Members(s) = {}
<1>0. s \in Spans /\ Len(s) \in Nat /\ Top \in Nat
  BY TopAssumption DEF Sets, Spans
<1>1. CASE k = 0
  <2>1. Bound(s, k) = 0 /\ Cursor(s, k + 1) = 0
    BY <1>1 DEF Bound, Cursor
  <2>2. PICK b \in Int : b = Bound(s, k + 1) /\ 0 <= b /\ b - 1 <= Top
    <3>1. CASE Len(s) = 0
      BY <1>0, <1>1, <3>1 DEF Bound
    <3>2. CASE Len(s) # 0
      <4>1. 1 \in 1 .. Len(s)
        BY <1>0, <3>2
      <4>2. Bound(s, 1) = s[1][1]
        BY <1>0, <4>1 DEF Bound
      <4> QED BY <1>0, <1>1, <4>1, <4>2, SpanAt
    <3> QED BY <3>1, <3>2
  <2>3. (0 .. b - 1) \cap Members(s) = {}
    <3> SUFFICES ASSUME NEW x \in 0 .. b - 1, x \in Members(s) PROVE FALSE
      OBVIOUS
    <3>1. PICK i \in 1 .. Len(s) : x \in s[i][1] .. s[i][2]
      BY <1>0, MemberAt
    <3>2. 1 \in 1 .. Len(s) /\ b = s[1][1]
      BY <1>0, <1>1, <2>2, <3>1 DEF Bound
    <3>3. s[i][1] \in Int /\ s[i][2] \in Int /\ s[1][1] \in Int /\ s[1][2] \in Int /\ s[1][1] <= s[1][2]
      BY <1>0, <3>1, <3>2, SpanAt DEF Sets, Canonical
    <3>4. i = 1 \/ s[1][2] + 1 < s[i][1]
      BY <1>0, <3>2, RangesApart
    <3> QED BY <3>1, <3>2, <3>3, <3>4
  <2> QED BY <1>0, <1>1, <2>1, <2>2, <2>3
<1>2. CASE k # 0
  <2>0. k \in 1 .. Len(s)
    BY <1>2
  <2>1. PICK a1 \in Int, a2 \in Int :
          a1 = s[k][1] /\ a2 = s[k][2] /\ 0 <= a1 /\ a2 <= Top /\ a1 <= a2
    BY <1>0, <2>0, SpanAt DEF Sets, Canonical
  <2>2. Bound(s, k) = a1 /\ Cursor(s, k + 1) = a2 + 1
    BY <1>0, <1>2, <2>0, <2>1 DEF Bound, Cursor
  <2>3. PICK b \in Int : b = Bound(s, k + 1) /\ a2 + 1 <= b /\ b - 1 <= Top
    <3>1. CASE k = Len(s)
      BY <1>0, <2>1, <3>1 DEF Bound
    <3>2. CASE k # Len(s)
      <4>1. k + 1 \in 1 .. Len(s) /\ k < k + 1
        BY <1>0, <2>0, <3>2
      <4>2. Bound(s, k + 1) = s[k + 1][1]
        BY <1>0, <4>1 DEF Bound
      <4>3. a2 + 1 < s[k + 1][1]
        BY <2>0, <2>1, <4>1, RangesApart
      <4>4. s[k + 1][1] \in Int /\ s[k + 1][1] <= Top
        BY <1>0, <4>1, SpanAt
      <4> QED BY <1>0, <4>2, <4>3, <4>4
    <3> QED BY <3>1, <3>2
  <2>4. a1 .. a2 \subseteq Members(s)
    BY <1>0, <2>0, <2>1, MemberAt
  <2>5. (a2 + 1 .. b - 1) \cap Members(s) = {}
    <3> SUFFICES ASSUME NEW x \in a2 + 1 .. b - 1, x \in Members(s) PROVE FALSE
      OBVIOUS
    <3>1. PICK i \in 1 .. Len(s) : x \in s[i][1] .. s[i][2]
      BY <1>0, MemberAt
    <3>2. s[i][1] \in Int /\ s[i][2] \in Int
      BY <1>0, <3>1, SpanAt
    <3>3. CASE i <= k
      <4>1. CASE i = k
        BY <4>1, <2>1, <3>1, <3>2
      <4>2. CASE i # k
        <5>1. i < k
          BY <4>2, <3>3, <2>0, <3>1
        <5>2. s[i][2] + 1 < s[k][1]
          BY <5>1, <2>0, RangesApart
        <5>3. PICK top \in Int : top = s[i][2]
          BY <3>2
        <5>4. top + 1 < a1
          BY <5>2, <5>3, <2>1
        <5>5. x <= top
          BY <5>3, <3>1, <3>2
        <5> QED BY <5>4, <5>5, <2>1
      <4> QED BY <4>1, <4>2
    <3>4. CASE i > k
      <4>1. k + 1 \in 1 .. Len(s) /\ (k + 1 = i \/ k + 1 < i)
        BY <1>0, <2>0, <3>1, <3>4
      <4>2. b = s[k + 1][1]
        BY <1>0, <2>3, <4>1 DEF Bound
      <4>3. CASE k + 1 = i
        BY <4>2, <4>3, <3>1, <3>2
      <4>4. CASE k + 1 < i
        <5>1. s[k + 1][2] + 1 < s[i][1] /\ s[k + 1][1] <= s[k + 1][2] /\ s[k + 1][2] \in Int
          BY <1>0, <4>1, <4>4, RangesApart, SpanAt DEF Sets, Canonical
        <5>2. b + 1 < s[i][1]
          <6>1. PICK m \in Int, top \in Int : m = s[i][1] /\ top = s[k + 1][2]
            BY <3>2, <5>1, Zenon
          <6>2. top + 1 < m /\ b <= top
            BY <6>1, <5>1, <4>2, Zenon
          <6>3. b + 1 < m
            BY <6>2
          <6> QED BY <6>1, <6>3, Zenon
        <5>3. s[i][1] <= x
          BY <3>1, <3>2
        <5> QED BY <5>2, <5>3, <3>2
      <4> QED BY <4>1, <4>3, <4>4
    <3>5. i <= k \/ i > k
      BY <1>0, <2>0, <3>1
    <3> QED BY <3>3, <3>4, <3>5, Zenon
  <2>6. /\ a2 + 1 \in Int /\ 0 <= a2 + 1 /\ a1 <= a2 + 1 /\ a1 < a2 + 1
        /\ a1 .. (a2 + 1) - 1 \subseteq Members(s)
    <3>1. (a2 + 1) - 1 = a2
      BY <2>1
    <3>2. a1 .. (a2 + 1) - 1 \subseteq Members(s)
      BY <2>4, <3>1, Zenon
    <3>3. a2 + 1 \in Int /\ 0 <= a2 + 1 /\ a1 <= a2 + 1 /\ a1 < a2 + 1
      BY <2>1
    <3> QED BY <3>2, <3>3
  <2>7. Bound(s, k) \in Int /\ Bound(s, k + 1) \in Int /\ Cursor(s, k + 1) \in Int
    BY <2>1, <2>2, <2>3, <2>6
  <2> QED BY <2>1, <2>2, <2>3, <2>5, <2>6, <2>7
<1> QED BY <1>1, <1>2

LEMMA GapsStep ==
  ASSUME NEW s \in Sets, NEW k \in 0 .. Len(s), NEW out, GapsInv(s, k, out)
  PROVE  GapsInv(s, k + 1, Gaps(s, out, k + 1))
<1>0. s \in Spans /\ Len(s) \in Nat /\ Top \in Nat /\ out \in Sets
  BY TopAssumption DEF Sets, Spans, GapsInv
<1>1. PICK a \in Int, lo \in Int, b \in Int :
        /\ a = Bound(s, k) /\ lo = Cursor(s, k + 1) /\ b = Bound(s, k + 1)
        /\ 0 <= lo /\ b - 1 <= Top /\ 0 <= a /\ lo <= b /\ a <= lo /\ (k # 0 => a < lo)
        /\ a .. lo - 1 \subseteq Members(s) /\ (lo .. b - 1) \cap Members(s) = {}
  BY NoneBetween
<1>2. PICK hi \in Int : hi = b - 1
  OBVIOUS
<1>3. PICK new : new = out \o Between(lo, hi)
  OBVIOUS
<1>4. Gaps(s, out, k + 1) = new
  <2>1. (IF k + 1 > Len(s) THEN Top ELSE s[k + 1][1] - 1) = hi
    <3>1. CASE k + 1 > Len(s)
      BY <1>0, <1>1, <1>2, <3>1 DEF Bound
    <3>2. CASE ~ (k + 1 > Len(s))
      BY <1>0, <1>1, <1>2, <3>2 DEF Bound
    <3> QED BY <3>1, <3>2
  <2> QED BY <2>1, <1>1, <1>3 DEF Gaps
<1>5. Room(out, lo, hi)
  <2>1. ASSUME out # Empty PROVE End(out) + 1 < lo
    <3>1. End(out) \in Int /\ End(out) < a /\ 0 <= End(out)
      BY <1>0, <1>1, <2>1, EndIsWord DEF GapsInv
    <3>2. k # 0
      BY <3>1, <1>1 DEF Bound
    <3> QED BY <3>1, <3>2, <1>1
  <2> QED BY <2>1, <1>1, <1>2 DEF Room
<1>6. Extended(out, lo, hi, new)
  BY <1>0, <1>3, <1>5, BetweenAppended
<1>7. Members(new) = (0 .. b - 1) \ Members(s)
  <2>1. Members(new) = ((0 .. a - 1) \ Members(s)) \cup (lo .. b - 1)
    BY <1>1, <1>2, <1>6 DEF Extended, GapsInv
  <2>2. 0 .. b - 1 = (0 .. a - 1) \cup (a .. lo - 1) \cup (lo .. b - 1)
    BY <1>1
  <2> QED BY <2>1, <2>2, <1>1
<1>8. ASSUME new # Empty PROVE End(new) < b
  <2>1. CASE lo <= hi
    BY <2>1, <1>2, <1>6 DEF Extended
  <2>2. CASE lo > hi
    <3>1. new = out
      BY <2>2, <1>6 DEF Extended
    <3>2. End(out) \in Int /\ End(out) < a
      BY <1>0, <1>1, <1>8, <3>1, EndIsWord DEF GapsInv
    <3> QED BY <3>1, <3>2, <1>1
  <2> QED BY <2>1, <2>2
<1>9. new \in Sets
  BY <1>6 DEF Extended
<1> QED BY <1>1, <1>4, <1>7, <1>8, <1>9 DEF GapsInv

(* complement of a canonical set is canonical, and holds the other words.  *)
THEOREM ComplementIsComplement ==
  ASSUME NEW s \in Sets
  PROVE  Complement(s) \in Sets /\ Members(Complement(s)) = (0 .. Top) \ Members(s)
<1>0. s \in Spans /\ Len(s) \in Nat /\ Top \in Nat
  BY TopAssumption DEF Sets, Spans
<1>1. PICK n \in Nat : n = Len(s) + 1
  BY <1>0
<1>2. PICK f : Runs(f, "gaps", s, 0, Empty, n) /\ Complement(s) = f[n]
  BY <1>0, <1>1, ComplementRuns
<1>3. \A k \in 1 .. n : f[k] = Gaps(s, f[k - 1], k)
  BY <1>2 DEF Runs, Body
<1> DEFINE Fails == {k \in 0 .. n : ~ GapsInv(s, k, f[k])}
<1>4. Fails = {}
  <2> SUFFICES ASSUME Fails # {} PROVE FALSE
    OBVIOUS
  <2>0. Fails \subseteq Nat
    BY <1>1
  <2>1. PICK m \in Fails : \A k \in Fails : m <= k
    <3> HIDE DEF Fails
    <3> QED BY <2>0, FirstNumber
  <2>2. CASE m = 0
    <3>1. f[0] = Empty
      BY <1>2 DEF Runs
    <3>2. Empty \in Sets /\ Members(Empty) = {}
      BY DEF Sets, Spans, Empty, Canonical, Members
    <3>3. Bound(s, 0) = 0
      BY DEF Bound
    <3>4. GapsInv(s, 0, Empty)
      BY <3>2, <3>3 DEF GapsInv
    <3> QED BY <2>1, <2>2, <3>1, <3>4
  <2>3. CASE m # 0
    <3>1. m \in 1 .. n /\ m - 1 \in 0 .. Len(s) /\ m - 1 \in 0 .. n /\ (m - 1) + 1 = m
          /\ ~ (m <= m - 1)
      BY <1>0, <1>1, <2>1, <2>3
    <3>2. GapsInv(s, m - 1, f[m - 1])
      BY <2>1, <3>1
    <3>3. GapsInv(s, (m - 1) + 1, Gaps(s, f[m - 1], (m - 1) + 1))
      BY <3>1, <3>2, GapsStep
    <3>4. GapsInv(s, m, f[m])
      BY <3>1, <3>3, <1>3
    <3> QED BY <2>1, <3>4
  <2> QED BY <2>2, <2>3
<1>5. GapsInv(s, n, f[n])
  BY <1>1, <1>4
<1>6. Bound(s, n) - 1 = Top
  BY <1>0, <1>1 DEF Bound
<1> QED BY <1>2, <1>5, <1>6 DEF GapsInv

(* difference, and what the comparisons answer.                            *)
THEOREM DifferenceIsDifference ==
  ASSUME NEW s \in Sets, NEW t \in Sets
  PROVE  Difference(s, t) \in Sets /\ Members(Difference(s, t)) = Members(s) \ Members(t)
<1>1. Complement(t) \in Sets /\ Members(Complement(t)) = (0 .. Top) \ Members(t)
  BY ComplementIsComplement
<1>2. /\ Meet(s, Complement(t)) \in Sets
      /\ Members(Meet(s, Complement(t))) = Members(s) \cap Members(Complement(t))
  BY <1>1, MeetIsIntersection
<1>3. Members(s) \subseteq 0 .. Top
  BY MembersAreWords DEF Sets
<1> QED BY <1>1, <1>2, <1>3 DEF Difference

LEMMA EmptyHoldsNothing ==
  ASSUME NEW s \in Sets
  PROVE  s = Empty <=> Members(s) = {}
<1>1. Empty \in Sets /\ Members(Empty) = {}
  BY DEF Sets, Spans, Empty, Canonical, Members
<1> QED BY <1>1, CanonicalUnique

(* subset_of and disjoint_from, which look at the ranges only, tell what   *)
(* is so of the words (interval.rs:226-234).                               *)
THEOREM ComparisonsTellWords ==
  ASSUME NEW s \in Sets, NEW t \in Sets
  PROVE  /\ s = t <=> Members(s) = Members(t)
         /\ SubsetOf(s, t) <=> Members(s) \subseteq Members(t)
         /\ DisjointFrom(s, t) <=> Members(s) \cap Members(t) = {}
<1>1. s = t <=> Members(s) = Members(t)
  BY CanonicalUnique
<1>2. SubsetOf(s, t) <=> Members(s) \subseteq Members(t)
  <2>1. Difference(s, t) = Empty <=> Members(s) \ Members(t) = {}
    BY DifferenceIsDifference, EmptyHoldsNothing
  <2> QED BY <2>1 DEF SubsetOf
<1>3. DisjointFrom(s, t) <=> Members(s) \cap Members(t) = {}
  <2>1. Meet(s, t) = Empty <=> Members(s) \cap Members(t) = {}
    BY MeetIsIntersection, EmptyHoldsNothing
  <2> QED BY <2>1 DEF DisjointFrom
<1> QED BY <1>1, <1>2, <1>3

-----------------------------------------------------------------------------
(* normalize: the words of the first k ranges of a list, in any order.     *)
Upto(s, k) == UNION {s[q][1] .. s[q][2] : q \in 1 .. k}

LEMMA UptoGrows ==
  ASSUME NEW s, NEW k \in Nat
  PROVE  Upto(s, k + 1) = Upto(s, k) \cup s[k + 1][1] .. s[k + 1][2]
<1>1. 1 .. k + 1 = (1 .. k) \cup {k + 1}
  OBVIOUS
<1> QED BY <1>1 DEF Upto

LEMMA UptoAll ==
  ASSUME NEW s \in Spans
  PROVE  Upto(s, Len(s)) = Members(s) /\ Upto(s, 0) = {}
<1>1. DOMAIN s = 1 .. Len(s) /\ 1 .. 0 = {}
  BY DEF Spans
<1> QED BY <1>1 DEF Upto, Members

(* Ranges that are not empty, by where they start.                         *)
Rising(s) ==
  /\ \A i \in 1 .. Len(s) : s[i][1] <= s[i][2]
  /\ \A i, j \in 1 .. Len(s) : i <= j => s[i][1] <= s[j][1]

Placed(s, r, at, u) ==
  /\ at \in 0 .. Len(s)
  /\ u = [i \in 1 .. Len(s) + 1 |->
            CASE i <= at -> s[i] [] i = at + 1 -> r [] OTHER -> s[i - 1]]
  /\ at = Len(s) \/ Before(r, s[at + 1])
  /\ \A q \in 0 .. at - 1 : ~ Before(r, s[q + 1])

LEMMA InsertPlaces ==
  ASSUME NEW s \in Spans, NEW r \in Span
  PROVE  \E at : Placed(s, r, at, Insert(s, r))
<1>0. Len(s) \in Nat
  BY DEF Spans
<1> DEFINE stops(p) == p = Len(s) \/ Before(r, s[p + 1])
           first(p) == stops(p) /\ \A q \in 0 .. p - 1 : ~ stops(q)
           at == CHOOSE p \in 0 .. Len(s) : first(p)
           Stops == {p \in 0 .. Len(s) : stops(p)}
<1>1. \E p \in 0 .. Len(s) : first(p)
  <2>1. Stops \subseteq Nat /\ Len(s) \in Stops
    BY <1>0
  <2>2. PICK m \in Stops : \A k \in Stops : m <= k
    <3> HIDE DEF Stops
    <3> QED BY <2>1, FirstNumber
  <2>3. ASSUME NEW q \in 0 .. m - 1 PROVE ~ stops(q)
    <3>1. q \in 0 .. Len(s) /\ ~ (m <= q)
      BY <1>0, <2>2
    <3> QED BY <2>2, <3>1
  <2> QED BY <2>2, <2>3
<1>2. at \in 0 .. Len(s) /\ first(at)
  <2> HIDE DEF first
  <2> QED BY <1>1
<1>3. Insert(s, r) = [i \in 1 .. Len(s) + 1 |->
                        CASE i <= at -> s[i] [] i = at + 1 -> r [] OTHER -> s[i - 1]]
  BY DEF Insert
<1> HIDE DEF at
<1> QED BY <1>2, <1>3 DEF Placed

LEMMA PlacedReads ==
  ASSUME NEW s \in Spans, NEW r \in Span, NEW at, NEW u, Placed(s, r, at, u)
  PROVE  /\ u \in Spans /\ Len(u) = Len(s) + 1 /\ Len(s) \in Nat /\ at \in 0 .. Len(s)
         /\ u[at + 1] = r
         /\ \A i \in 1 .. at : u[i] = s[i]
         /\ \A i \in at + 1 .. Len(s) : u[i + 1] = s[i]
         /\ \A i \in 1 .. Len(s) + 1 : \/ i \in 1 .. at \/ i = at + 1
                                        \/ i - 1 \in at + 1 .. Len(s)
<1>0. Len(s) \in Nat /\ at \in 0 .. Len(s) /\ at \in Nat
      /\ \A i \in 1 .. Len(s) : s[i] \in Span
  BY DEF Spans, Placed
<1>1. u = [i \in 1 .. Len(s) + 1 |->
            CASE i <= at -> s[i] [] i = at + 1 -> r [] OTHER -> s[i - 1]]
  BY DEF Placed
<1>2. u[at + 1] = r
  BY <1>0, <1>1
<1>3. ASSUME NEW i \in 1 .. at PROVE u[i] = s[i]
  BY <1>0, <1>1
<1>4. ASSUME NEW i \in at + 1 .. Len(s) PROVE u[i + 1] = s[i]
  <2>1. i + 1 \in 1 .. Len(s) + 1 /\ ~ (i + 1 <= at) /\ i + 1 # at + 1 /\ (i + 1) - 1 = i
    BY <1>0
  <2> QED BY <1>1, <2>1
<1>5. ASSUME NEW i \in 1 .. Len(s) + 1
      PROVE  i \in 1 .. at \/ i = at + 1 \/ i - 1 \in at + 1 .. Len(s)
  BY <1>0
<1>6. ASSUME NEW i \in 1 .. Len(s) + 1 PROVE u[i] \in Span
  <2>1. CASE i \in 1 .. at
    BY <2>1, <1>0, <1>3
  <2>2. CASE i = at + 1
    BY <2>2, <1>2
  <2>3. CASE i - 1 \in at + 1 .. Len(s)
    <3>1. u[(i - 1) + 1] = s[i - 1] /\ i - 1 \in 1 .. Len(s) /\ (i - 1) + 1 = i
      BY <2>3, <1>0, <1>4
    <3> QED BY <3>1, <1>0
  <2> QED BY <1>5, <2>1, <2>2, <2>3
<1>7. u \in [1 .. Len(s) + 1 -> Span] /\ Len(s) + 1 \in Nat
  BY <1>0, <1>1, <1>6
<1>8. u \in Seq(Span) /\ Len(u) = Len(s) + 1
  BY <1>7
<1> QED BY <1>0, <1>2, <1>3, <1>4, <1>5, <1>8 DEF Spans

(* An insertion keeps the order and gains the words of the range.          *)
LEMMA InsertRises ==
  ASSUME NEW s \in Spans, Rising(s), NEW r \in Span, r[1] <= r[2]
  PROVE  /\ Insert(s, r) \in Spans /\ Rising(Insert(s, r))
         /\ Members(Insert(s, r)) = Members(s) \cup r[1] .. r[2]
<1>1. PICK at, u : u = Insert(s, r) /\ Placed(s, r, at, u)
  BY InsertPlaces
<1>2. /\ u \in Spans /\ Len(u) = Len(s) + 1 /\ Len(s) \in Nat /\ at \in 0 .. Len(s)
      /\ u[at + 1] = r
      /\ \A i \in 1 .. at : u[i] = s[i]
      /\ \A i \in at + 1 .. Len(s) : u[i + 1] = s[i]
      /\ \A i \in 1 .. Len(s) + 1 : \/ i \in 1 .. at \/ i = at + 1
                                     \/ i - 1 \in at + 1 .. Len(s)
  BY <1>1, PlacedReads
<1>3. PICK lo \in Int, hi \in Int : lo = r[1] /\ hi = r[2]
  BY DEF Span
<1>4. \A i \in 1 .. Len(s) : s[i][1] \in Int /\ s[i][2] \in Int /\ s[i][1] <= s[i][2]
  BY SpanAt DEF Rising
<1>5. ASSUME NEW i \in 1 .. at PROVE s[i][1] <= lo
  <2>1. i - 1 \in 0 .. at - 1 /\ (i - 1) + 1 = i /\ i \in 1 .. Len(s)
    BY <1>2
  <2>2. ~ Before(r, s[i])
    BY <1>1, <2>1 DEF Placed
  <2>3. ~ (lo < s[i][1])
    BY <2>2, <1>3 DEF Before
  <2> QED BY <2>1, <2>3, <1>3, <1>4
<1>6. ASSUME NEW i \in at + 1 .. Len(s) PROVE lo <= s[i][1]
  <2>1. at + 1 \in 1 .. Len(s) /\ i \in 1 .. Len(s) /\ at + 1 <= i /\ at # Len(s)
    BY <1>2
  <2>2. Before(r, s[at + 1])
    BY <1>1, <2>1 DEF Placed
  <2>3. lo <= s[at + 1][1]
    BY <2>1, <2>2, <1>3, <1>4 DEF Before
  <2>4. s[at + 1][1] <= s[i][1]
    BY <2>1 DEF Rising
  <2> QED BY <2>1, <2>3, <2>4, <1>4
<1>7. \A i \in 1 .. Len(u) : u[i][1] <= u[i][2]
  <2> SUFFICES ASSUME NEW i \in 1 .. Len(s) + 1 PROVE u[i][1] <= u[i][2]
    BY <1>2
  <2>1. CASE i \in 1 .. at
    BY <2>1, <1>2, <1>4
  <2>2. CASE i = at + 1
    BY <2>2, <1>2
  <2>3. CASE i - 1 \in at + 1 .. Len(s)
    <3>1. i - 1 \in 1 .. Len(s) /\ (i - 1) + 1 = i
      BY <2>3, <1>2
    <3> QED BY <3>1, <2>3, <1>2, <1>4
  <2> QED BY <2>1, <2>2, <2>3, <1>2
<1>8. ASSUME NEW i \in 1 .. Len(s) + 1, NEW j \in 1 .. Len(s) + 1, i < j
      PROVE  u[i][1] <= u[j][1]
  <2>1. CASE i \in 1 .. at /\ j \in 1 .. at
    <3>1. i \in 1 .. Len(s) /\ j \in 1 .. Len(s) /\ i <= j
      BY <2>1, <1>2, <1>8
    <3> QED BY <3>1, <2>1, <1>2 DEF Rising
  <2>2. CASE i \in 1 .. at /\ j = at + 1
    BY <2>2, <1>2, <1>3, <1>5
  <2>3. CASE i \in 1 .. at /\ j - 1 \in at + 1 .. Len(s)
    <3>1. i \in 1 .. Len(s) /\ j - 1 \in 1 .. Len(s) /\ i <= j - 1 /\ (j - 1) + 1 = j
      BY <2>3, <1>2
    <3>2. s[i][1] <= s[j - 1][1]
      BY <3>1 DEF Rising
    <3> QED BY <3>1, <3>2, <2>3, <1>2
  <2>4. CASE i = at + 1 /\ j - 1 \in at + 1 .. Len(s)
    <3>1. u[j] = s[j - 1]
      BY <2>4, <1>2, (j - 1) + 1 = j
    <3> QED BY <3>1, <2>4, <1>2, <1>3, <1>6
  <2>5. CASE i - 1 \in at + 1 .. Len(s) /\ j - 1 \in at + 1 .. Len(s)
    <3>1. /\ i - 1 \in 1 .. Len(s) /\ j - 1 \in 1 .. Len(s) /\ i - 1 <= j - 1
          /\ (j - 1) + 1 = j /\ (i - 1) + 1 = i
      BY <2>5, <1>2, <1>8
    <3>2. s[i - 1][1] <= s[j - 1][1]
      BY <3>1 DEF Rising
    <3> QED BY <3>1, <3>2, <2>5, <1>2
  <2> QED BY <2>1, <2>2, <2>3, <2>4, <2>5, <1>2, <1>8
<1>9. Rising(u)
  <2> SUFFICES ASSUME NEW i \in 1 .. Len(u), NEW j \in 1 .. Len(u), i <= j
               PROVE  u[i][1] <= u[j][1]
    BY <1>7 DEF Rising
  <2>1. CASE i = j
    BY <2>1, <1>2, SpanAt
  <2>2. CASE i # j
    BY <2>2, <1>2, <1>8
  <2> QED BY <2>1, <2>2
<1>10. Members(u) = Members(s) \cup lo .. hi
  <2>1. ASSUME NEW x \in Members(u) PROVE x \in Members(s) \cup lo .. hi
    <3>1. PICK i \in 1 .. Len(s) + 1 : x \in u[i][1] .. u[i][2]
      BY <1>2, MemberAt
    <3>2. CASE i \in 1 .. at
      BY <3>1, <3>2, <1>2, i \in 1 .. Len(s), MemberAt
    <3>3. CASE i = at + 1
      BY <3>1, <3>3, <1>2, <1>3
    <3>4. CASE i - 1 \in at + 1 .. Len(s)
      <4>1. i - 1 \in 1 .. Len(s) /\ (i - 1) + 1 = i
        BY <3>4, <1>2
      <4>2. u[(i - 1) + 1] = s[i - 1]
        BY <3>4, <1>2
      <4>3. x \in s[i - 1][1] .. s[i - 1][2]
        BY <4>1, <4>2, <3>1, Zenon
      <4> QED BY <4>1, <4>3, MemberAt
    <3> QED BY <3>2, <3>3, <3>4, <1>2
  <2>2. ASSUME NEW x \in Members(s) PROVE x \in Members(u)
    <3>1. PICK i \in 1 .. Len(s) : x \in s[i][1] .. s[i][2]
      BY MemberAt
    <3>2. CASE i <= at
      <4>1. i \in 1 .. Len(u) /\ u[i] = s[i]
        BY <3>2, <1>2
      <4> QED BY <4>1, <3>1, <1>2, MemberAt
    <3>3. CASE i > at
      <4>1. i + 1 \in 1 .. Len(u) /\ u[i + 1] = s[i]
        BY <3>3, <1>2
      <4> QED BY <4>1, <3>1, <1>2, MemberAt
    <3> QED BY <3>2, <3>3, <1>2
  <2>3. ASSUME NEW x \in lo .. hi PROVE x \in Members(u)
    <3>1. at + 1 \in 1 .. Len(u) /\ x \in u[at + 1][1] .. u[at + 1][2]
      BY <1>2, <1>3
    <3> QED BY <3>1, <1>2, MemberAt
  <2> QED BY <2>1, <2>2, <2>3
<1> QED BY <1>1, <1>2, <1>3, <1>9, <1>10

SortInv(raw, k, out) == out \in Spans /\ Rising(out) /\ Members(out) = Upto(raw, k)

LEMMA SortedRises ==
  ASSUME NEW raw \in Spans
  PROVE  SortInv(raw, Len(raw), Sorted(raw))
<1>0. Len(raw) \in Nat /\ \A i \in 1 .. Len(raw) : raw[i] \in Span
  BY DEF Spans
<1>1. PICK n \in Nat : n = Len(raw)
  BY <1>0
<1>2. PICK f : Runs(f, "sort", raw, 0, Empty, n) /\ Sorted(raw) = f[n]
  BY <1>0, <1>1, SortedRuns
<1>3. \A k \in 1 .. n : f[k] = Sorting(raw, f[k - 1], k)
  BY <1>2 DEF Runs, Body
<1> DEFINE Fails == {k \in 0 .. n : ~ SortInv(raw, k, f[k])}
<1>4. Fails = {}
  <2> SUFFICES ASSUME Fails # {} PROVE FALSE
    OBVIOUS
  <2>0. Fails \subseteq Nat
    BY <1>1
  <2>1. PICK m \in Fails : \A k \in Fails : m <= k
    <3> HIDE DEF Fails
    <3> QED BY <2>0, FirstNumber
  <2>2. CASE m = 0
    <3>1. f[0] = Empty
      BY <1>2 DEF Runs
    <3>2. Empty \in Spans /\ Members(Empty) = {} /\ Rising(Empty)
      BY DEF Spans, Empty, Rising, Members
    <3>3. SortInv(raw, 0, Empty)
      BY <3>2, UptoAll DEF SortInv
    <3> QED BY <2>1, <2>2, <3>1, <3>3
  <2>3. CASE m # 0
    <3>1. m \in 1 .. n /\ m - 1 \in 0 .. n /\ m - 1 \in Nat /\ (m - 1) + 1 = m
          /\ ~ (m <= m - 1)
      BY <1>1, <2>1, <2>3
    <3>2. SortInv(raw, m - 1, f[m - 1])
      BY <2>1, <3>1
    <3>3. raw[m] \in Span /\ raw[m][1] \in Int /\ raw[m][2] \in Int
      BY <1>1, <3>1, SpanAt
    <3>4. Upto(raw, m) = Upto(raw, m - 1) \cup raw[m][1] .. raw[m][2]
      BY <3>1, UptoGrows
    <3>5. CASE raw[m][1] > raw[m][2]
      <4>1. f[m] = f[m - 1] /\ raw[m][1] .. raw[m][2] = {}
        BY <1>3, <3>1, <3>3, <3>5 DEF Sorting
      <4> QED BY <2>1, <4>1, <3>2, <3>4 DEF SortInv
    <3>6. CASE ~ (raw[m][1] > raw[m][2])
      <4>1. f[m] = Insert(f[m - 1], raw[m]) /\ raw[m][1] <= raw[m][2]
        BY <1>3, <3>1, <3>3, <3>6 DEF Sorting
      <4>2. SortInv(raw, m, f[m])
        BY <4>1, <3>2, <3>3, <3>4, InsertRises DEF SortInv
      <4> QED BY <2>1, <4>2
    <3> QED BY <3>5, <3>6
  <2> QED BY <2>2, <2>3
<1> QED BY <1>1, <1>2, <1>4

(* Absorbing a range that starts no earlier than the last one.             *)
Absorbed(out, r, new) ==
  /\ new \in Sets /\ new # Empty
  /\ Members(new) = Members(out) \cup r[1] .. r[2]
  /\ new[Len(new)][1] <= r[1]

LEMMA AbsorbKeeps ==
  ASSUME NEW out \in Sets, NEW r \in Span, r[1] <= r[2],
         out # Empty => out[Len(out)][1] <= r[1]
  PROVE  Absorbed(out, r, Absorb(out, r))
<1>0. out \in Spans /\ Canonical(out) /\ Len(out) \in Nat /\ Top \in Nat
  BY TopAssumption DEF Sets, Spans
<1>1. PICK n \in Nat : n = Len(out)
  BY <1>0
<1>2. PICK lo \in 0 .. Top, hi \in 0 .. Top :
        lo = r[1] /\ hi = r[2] /\ r = <<lo, hi>> /\ lo <= hi
  BY DEF Span
<1>3. CASE out # Empty /\ Touches(out[n], r)
  <2>1. n \in 1 .. n
    BY <1>0, <1>1, <1>3 DEF Spans, Empty
  <2>2. PICK a \in 0 .. Top, b \in 0 .. Top :
          a = out[n][1] /\ b = out[n][2] /\ out[n] = <<a, b>> /\ a <= b /\ a <= lo
    BY <1>0, <1>1, <1>2, <1>3, <2>1, SpanAt DEF Canonical
  <2>3. lo <= b \/ lo = b + 1
    BY <1>2, <1>3, <2>2 DEF Touches, Follows
  <2>4. PICK c \in 0 .. Top : c = Higher(hi, b)
    BY DEF Higher
  <2>5. b <= c /\ a <= c /\ a .. c = (a .. b) \cup (lo .. hi)
    <3>1. /\ a \in Int /\ b \in Int /\ c \in Int /\ lo \in Int /\ hi \in Int
          /\ a <= b /\ a <= lo /\ lo <= hi /\ (lo <= b \/ lo = b + 1)
          /\ b <= c /\ hi <= c /\ (c = hi \/ c = b)
      BY <1>2, <2>2, <2>3, <2>4 DEF Higher
    <3>2. \A x : x \in a .. c <=> x \in a .. b \/ x \in lo .. hi
      BY <3>1
    <3> QED BY <3>1, <3>2
  <2>6. PICK new : new = [out EXCEPT ![n] = <<a, c>>]
    OBVIOUS
  <2>7. Absorb(out, r) = new
    BY <1>1, <1>2, <1>3, <2>2, <2>4, <2>6 DEF Absorb, Higher
  <2>8. /\ new \in Spans /\ Len(new) = n /\ new[n] = <<a, c>>
        /\ \A i \in 1 .. n : i # n => new[i] = out[i]
    <3>1. <<a, c>> \in Span
      BY <2>2, <2>4 DEF Span
    <3> QED BY <3>1, <1>0, <1>1, <2>1, <2>6 DEF Spans
  <2>9. Canonical(new)
    <3>1. ASSUME NEW i \in 1 .. n PROVE new[i][1] <= new[i][2]
      <4>1. CASE i = n
        BY <4>1, <2>5, <2>8
      <4>2. CASE i # n
        BY <4>2, <2>8, <1>0, <1>1 DEF Canonical
      <4> QED BY <4>1, <4>2
    <3>2. ASSUME NEW i \in 1 .. n - 1 PROVE new[i][2] + 1 < new[i + 1][1]
      <4>1. i \in 1 .. n /\ i # n /\ i + 1 \in 1 .. n /\ new[i] = out[i]
        BY <2>8, <1>1
      <4>2. out[i][2] + 1 < out[i + 1][1]
        BY <1>0, <1>1 DEF Canonical
      <4>3. new[i + 1][1] = out[i + 1][1]
        <5>1. CASE i + 1 = n
          BY <5>1, <2>2, <2>8
        <5>2. CASE i + 1 # n
          BY <5>2, <4>1, <2>8
        <5> QED BY <5>1, <5>2
      <4> QED BY <4>1, <4>2, <4>3
    <3> QED BY <3>1, <3>2, <2>8 DEF Canonical
  <2>10. Members(new) = Members(out) \cup lo .. hi
    <3>1. ASSUME NEW x \in Members(new) PROVE x \in Members(out) \cup lo .. hi
      <4>1. PICK i \in 1 .. n : x \in new[i][1] .. new[i][2]
        BY <2>8, MemberAt
      <4>2. CASE i = n
        <5>0. x \in a .. c
          BY <4>1, <4>2, <2>8
        <5>1. x \in (a .. b) \cup (lo .. hi)
          BY <5>0, <2>5
        <5>2. a .. b \subseteq Members(out)
          BY <1>0, <1>1, <2>1, <2>2, MemberAt
        <5> QED BY <5>1, <5>2
      <4>3. CASE i # n
        BY <4>1, <4>3, <2>8, <1>0, <1>1, MemberAt
      <4> QED BY <4>2, <4>3
    <3>2. ASSUME NEW x \in Members(out) PROVE x \in Members(new)
      <4>1. PICK i \in 1 .. n : x \in out[i][1] .. out[i][2]
        BY <1>0, <1>1, MemberAt
      <4>2. CASE i = n
        <5>1. x \in a .. c
          BY <4>1, <4>2, <2>2, <2>5
        <5> QED BY <5>1, <2>1, <2>8, MemberAt
      <4>3. CASE i # n
        BY <4>1, <4>3, <2>8, MemberAt
      <4> QED BY <4>2, <4>3
    <3>3. ASSUME NEW x \in lo .. hi PROVE x \in Members(new)
      <4>1. x \in a .. c
        BY <2>5
      <4> QED BY <4>1, <2>1, <2>8, MemberAt
    <3> QED BY <3>1, <3>2, <3>3
  <2>11. new # Empty /\ new[Len(new)][1] <= lo
    <3>1. Len(Empty) = 0 /\ Len(new) # 0
      BY <2>1, <2>8 DEF Empty
    <3> QED BY <3>1, <2>2, <2>8
  <2>12. Absorbed(out, r, new)
    BY <1>2, <2>8, <2>9, <2>10, <2>11 DEF Absorbed, Sets
  <2> QED BY <2>7, <2>12
<1>4. CASE ~ (out # Empty /\ Touches(out[n], r))
  <2>1. Absorb(out, r) = Append(out, r)
    BY <1>1, <1>4 DEF Absorb
  <2>2. PICK new : new = Append(out, <<lo, hi>>)
    OBVIOUS
  <2>3. Room(out, lo, hi)
    <3>1. ASSUME out # Empty PROVE End(out) + 1 < lo
      <4>1. End(out) \in 0 .. Top /\ End(out) \in Int
        BY <3>1, EndIsWord
      <4>2. ~ (lo <= End(out)) /\ ~ (End(out) < Top /\ End(out) + 1 = lo)
        BY <1>1, <1>2, <1>4, <3>1 DEF Touches, Follows, End
      <4> QED BY <4>1, <4>2, <1>0
    <3> QED BY <3>1 DEF Room
  <2>4. Extended(out, lo, hi, new)
    BY <1>2, <2>2, <2>3, RangeAppended
  <2>5. new[Len(new)][1] <= lo
    <3>1. Len(new) = n + 1 /\ new[n + 1] = <<lo, hi>>
      BY <1>0, <1>1, <2>2, <1>2 DEF Spans
    <3> QED BY <3>1
  <2>6. Absorbed(out, r, new)
    BY <1>2, <2>4, <2>5 DEF Absorbed, Extended
  <2> QED BY <1>2, <2>1, <2>2, <2>6
<1> QED BY <1>3, <1>4

MergeInv(s, k, out) ==
  /\ out \in Sets /\ Members(out) = Upto(s, k)
  /\ out # Empty => k # 0 /\ out[Len(out)][1] <= s[k][1]

LEMMA MergedKeeps ==
  ASSUME NEW s \in Spans, Rising(s)
  PROVE  Merged(s) \in Sets /\ Members(Merged(s)) = Members(s)
<1>0. Len(s) \in Nat /\ \A i \in 1 .. Len(s) : s[i] \in Span
  BY DEF Spans
<1>1. PICK n \in Nat : n = Len(s)
  BY <1>0
<1>2. PICK f : Runs(f, "merge", s, 0, Empty, n) /\ Merged(s) = f[n]
  BY <1>0, <1>1, MergedRuns
<1>3. \A k \in 1 .. n : f[k] = Absorb(f[k - 1], s[k])
  BY <1>2 DEF Runs, Body
<1> DEFINE Fails == {k \in 0 .. n : ~ MergeInv(s, k, f[k])}
<1>4. Fails = {}
  <2> SUFFICES ASSUME Fails # {} PROVE FALSE
    OBVIOUS
  <2>0. Fails \subseteq Nat
    BY <1>1
  <2>1. PICK m \in Fails : \A k \in Fails : m <= k
    <3> HIDE DEF Fails
    <3> QED BY <2>0, FirstNumber
  <2>2. CASE m = 0
    <3>1. f[0] = Empty
      BY <1>2 DEF Runs
    <3>2. Empty \in Sets /\ Members(Empty) = {}
      BY DEF Sets, Spans, Empty, Canonical, Members
    <3>3. MergeInv(s, 0, Empty)
      BY <3>2, UptoAll DEF MergeInv
    <3> QED BY <2>1, <2>2, <3>1, <3>3
  <2>3. CASE m # 0
    <3>1. m \in 1 .. n /\ m - 1 \in 0 .. n /\ m - 1 \in Nat /\ (m - 1) + 1 = m
          /\ ~ (m <= m - 1)
      BY <1>1, <2>1, <2>3
    <3>2. MergeInv(s, m - 1, f[m - 1])
      BY <2>1, <3>1
    <3>3. PICK out : out = f[m - 1] /\ f[m] = Absorb(out, s[m]) /\ out \in Sets
      BY <1>3, <3>1, <3>2 DEF MergeInv
    <3>4. s[m] \in Span /\ s[m][1] \in Int /\ s[m][1] <= s[m][2]
      BY <1>1, <3>1, SpanAt DEF Rising
    <3>5. ASSUME out # Empty PROVE out[Len(out)][1] <= s[m][1]
      <4>1. m - 1 \in 1 .. Len(s) /\ m \in 1 .. Len(s) /\ m - 1 <= m
        BY <1>1, <3>1, <3>2, <3>3, <3>5 DEF MergeInv
      <4>2. out[Len(out)][1] <= s[m - 1][1] /\ s[m - 1][1] <= s[m][1]
        BY <3>2, <3>3, <3>5, <4>1 DEF MergeInv, Rising
      <4>3. s[m - 1][1] \in Int
        BY <4>1, SpanAt
      <4>4. Len(out) \in 1 .. Len(out) /\ out \in Spans
        BY <3>3, <3>5 DEF Sets, Spans, Empty
      <4>5. out[Len(out)][1] \in Int
        BY <4>4, SpanAt
      <4> QED BY <4>2, <4>3, <4>5, <3>4
    <3>6. Absorbed(out, s[m], f[m])
      BY <3>3, <3>4, <3>5, AbsorbKeeps
    <3>7. Upto(s, m) = Upto(s, m - 1) \cup s[m][1] .. s[m][2]
      BY <3>1, UptoGrows
    <3>8. MergeInv(s, m, f[m])
      BY <2>3, <3>2, <3>3, <3>6, <3>7 DEF MergeInv, Absorbed
    <3> QED BY <2>1, <3>8
  <2> QED BY <2>2, <2>3
<1>5. MergeInv(s, n, f[n])
  BY <1>4
<1> QED BY <1>1, <1>2, <1>5, UptoAll DEF MergeInv

(* normalize, "the only constructor that establishes the invariant"        *)
(* (interval.rs:154-155), for any list of ranges: canonical, same words.   *)
THEOREM NormalizeEstablishes ==
  ASSUME NEW raw \in Spans
  PROVE  Normalize(raw) \in Sets /\ Members(Normalize(raw)) = Members(raw)
<1>1. SortInv(raw, Len(raw), Sorted(raw))
  BY SortedRises
<1> QED BY <1>1, MergedKeeps, UptoAll DEF SortInv, Normalize

(* union.                                                                  *)
THEOREM JoinIsUnion ==
  ASSUME NEW s \in Sets, NEW t \in Sets
  PROVE  Join(s, t) \in Sets /\ Members(Join(s, t)) = Members(s) \cup Members(t)
<1>0. s \in Seq(Span) /\ t \in Seq(Span)
  BY DEF Sets, Spans
<1>1. PICK u : u = s \o t /\ u \in Seq(Span)
  <2>1. s \o t \in Seq(Span)
    BY <1>0
  <2> QED BY <2>1
<1>2. /\ Len(s) \in Nat /\ Len(t) \in Nat /\ Len(u) = Len(s) + Len(t)
      /\ \A i \in 1 .. Len(s) : u[i] = s[i]
      /\ \A i \in 1 .. Len(t) : u[Len(s) + i] = t[i]
  BY <1>0, <1>1
<1> u \in Spans /\ s \in Spans /\ t \in Spans
  BY <1>0, <1>1 DEF Spans
<1>3. Members(u) = Members(s) \cup Members(t)
  <2>1. ASSUME NEW x \in Members(u) PROVE x \in Members(s) \cup Members(t)
    <3>1. PICK i \in 1 .. Len(s) + Len(t) : x \in u[i][1] .. u[i][2]
      BY <1>2, MemberAt
    <3>2. CASE i <= Len(s)
      <4>1. i \in 1 .. Len(s) /\ u[i] = s[i]
        BY <3>2, <1>2
      <4> QED BY <4>1, <3>1, <1>0, MemberAt
    <3>3. CASE i > Len(s)
      <4>1. i - Len(s) \in 1 .. Len(t) /\ Len(s) + (i - Len(s)) = i
        BY <3>3, <1>2
      <4>2. u[i] = t[i - Len(s)]
        BY <4>1, <1>2
      <4> QED BY <4>1, <4>2, <3>1, <1>0, MemberAt
    <3> QED BY <3>2, <3>3, <1>2
  <2>2. ASSUME NEW x \in Members(s) PROVE x \in Members(u)
    <3>1. PICK i \in 1 .. Len(s) : x \in s[i][1] .. s[i][2]
      BY <1>0, MemberAt
    <3>2. i \in 1 .. Len(u) /\ u[i] = s[i]
      BY <1>2
    <3> QED BY <3>1, <3>2, MemberAt
  <2>3. ASSUME NEW x \in Members(t) PROVE x \in Members(u)
    <3>1. PICK i \in 1 .. Len(t) : x \in t[i][1] .. t[i][2]
      BY <1>0, MemberAt
    <3>2. Len(s) + i \in 1 .. Len(u) /\ u[Len(s) + i] = t[i]
      BY <1>2
    <3> QED BY <3>1, <3>2, MemberAt
  <2> QED BY <2>1, <2>2, <2>3
<1> QED BY <1>1, <1>3, NormalizeEstablishes DEF Join, Spans

(* The set a predicate names, in its canonical form.                       *)
LEMMA RangesOfExact ==
  ASSUME NEW S \in SUBSET (0 .. Top)
  PROVE  RangesOf(S) \in Sets /\ Members(RangesOf(S)) = S
<1>0. Top \in Nat /\ Top >= 1
  BY TopAssumption
<1> DEFINE raw == [i \in 1 .. Top + 1 |-> IF i - 1 \in S THEN <<i - 1, i - 1>> ELSE <<1, 0>>]
<1>1. ASSUME NEW i \in 1 .. Top + 1 PROVE raw[i] \in Span
  BY <1>0 DEF Span
<1>2. raw \in Spans /\ Len(raw) = Top + 1
  <2>1. raw \in [1 .. Top + 1 -> Span] /\ Top + 1 \in Nat
    BY <1>0, <1>1
  <2> HIDE DEF raw
  <2> QED BY <2>1 DEF Spans
<1>3. Members(raw) = S
  <2>1. ASSUME NEW x \in Members(raw) PROVE x \in S
    <3>1. PICK i \in 1 .. Top + 1 : x \in raw[i][1] .. raw[i][2]
      <4> HIDE DEF raw
      <4> QED BY <1>2, MemberAt
    <3>2. CASE i - 1 \in S
      <4>1. raw[i] = <<i - 1, i - 1>>
        BY <3>2
      <4>2. x \in i - 1 .. i - 1
        BY <3>1, <4>1
      <4> QED BY <4>2, <3>2
    <3>3. CASE i - 1 \notin S
      <4>1. raw[i] = <<1, 0>>
        BY <3>3
      <4>2. x \in 1 .. 0
        BY <3>1, <4>1
      <4> QED BY <4>2
    <3> QED BY <3>2, <3>3
  <2>2. ASSUME NEW x \in S PROVE x \in Members(raw)
    <3>1. x + 1 \in 1 .. Top + 1 /\ (x + 1) - 1 = x
      BY <1>0
    <3>2. raw[x + 1] = <<x, x>> /\ x \in x .. x
      BY <3>1
    <3> HIDE DEF raw
    <3> QED BY <3>1, <3>2, <1>2, MemberAt
  <2> QED BY <2>1, <2>2
<1>4. RangesOf(S) = Normalize(raw)
  BY DEF RangesOf
<1> HIDE DEF raw
<1> QED BY <1>2, <1>3, <1>4, NormalizeEstablishes

-----------------------------------------------------------------------------
(* The partition of the domains.                                           *)
PartInv ==
  /\ domains \in [Vars -> Sets] /\ regions \in [Vars -> Sets]
  /\ RegionIsCut

LEMMA PartInitInv == PartInit => PartInv
<1> SUFFICES ASSUME PartInit PROVE PartInv
  OBVIOUS
<1>1. PICK raw \in Loaded : domains = [v \in Vars |-> Normalize(raw[v])]
  BY DEF PartInit
<1>2. ASSUME NEW v \in Vars PROVE Normalize(raw[v]) \in Sets
  BY <1>1, LoadedAssumption, NormalizeEstablishes DEF Spans, Span
<1>3. domains \in [Vars -> Sets] /\ regions = domains /\ cuts = {}
  BY <1>1, <1>2 DEF PartInit
<1> QED BY <1>3 DEF PartInv, RegionIsCut

LEMMA PieceExact ==
  ASSUME NEW region \in Sets, NEW S \in SUBSET (0 .. Top), NEW side \in BOOLEAN
  PROVE  /\ Piece(region, RangesOf(S), side) \in Sets
         /\ Members(Piece(region, RangesOf(S), side))
              = {x \in Members(region) : (x \in S) = side}
<1>1. RangesOf(S) \in Sets /\ Members(RangesOf(S)) = S
  BY RangesOfExact
<1>2. CASE side = TRUE
  <2>1. Piece(region, RangesOf(S), side) = Meet(region, RangesOf(S))
    BY <1>2 DEF Piece
  <2>2. {x \in Members(region) : (x \in S) = side} = Members(region) \cap S
    BY <1>2
  <2> QED BY <1>1, <2>1, <2>2, MeetIsIntersection
<1>3. CASE side = FALSE
  <2>1. Piece(region, RangesOf(S), side) = Difference(region, RangesOf(S))
    BY <1>3 DEF Piece
  <2>2. {x \in Members(region) : (x \in S) = side} = Members(region) \ S
    BY <1>3
  <2> QED BY <1>1, <2>1, <2>2, DifferenceIsDifference
<1> QED BY <1>2, <1>3

LEMMA PartStepInv ==
  ASSUME PartInv, [PartNext]_partVars
  PROVE  PartInv'
<1>1. CASE UNCHANGED partVars
  BY <1>1 DEF PartInv, RegionIsCut, partVars
<1>2. CASE PartNext
  <2>1. PICK v \in Vars, S \in SUBSET (0 .. Top), side \in BOOLEAN : Cut(v, S, side)
    BY <1>2 DEF PartNext
  <2>2. PICK piece : piece = Piece(regions[v], RangesOf(S), side)
    OBVIOUS
  <2>3. /\ regions' = [regions EXCEPT ![v] = piece]
        /\ cuts' = cuts \cup {<<v, S, side>>} /\ domains' = domains
    BY <2>1, <2>2 DEF Cut
  <2>4. piece \in Sets /\ Members(piece) = {x \in Members(regions[v]) : (x \in S) = side}
    BY <2>2, PieceExact DEF PartInv
  <2>5. domains' \in [Vars -> Sets] /\ regions' \in [Vars -> Sets]
    BY <2>3, <2>4 DEF PartInv
  <2>6. ASSUME NEW w \in Vars
        PROVE  Members(regions'[w]) =
                 {x \in Members(domains'[w]) :
                    \A cut \in cuts' : cut[1] = w => (x \in cut[2]) = cut[3]}
    <3>1. Members(regions[w]) =
            {x \in Members(domains[w]) :
               \A cut \in cuts : cut[1] = w => (x \in cut[2]) = cut[3]}
      BY DEF PartInv, RegionIsCut
    <3>2. CASE w = v
      <4>1. regions'[w] = piece
        BY <2>3, <3>2 DEF PartInv
      <4>2. ASSUME NEW x
            PROVE  (\A cut \in cuts' : cut[1] = w => (x \in cut[2]) = cut[3])
                     <=> /\ \A cut \in cuts : cut[1] = w => (x \in cut[2]) = cut[3]
                         /\ (x \in S) = side
        <5> DEFINE goes(cut) == cut[1] = w => (x \in cut[2]) = cut[3]
        <5>1. goes(<<v, S, side>>) <=> (x \in S) = side
          BY <3>2
        <5> HIDE DEF goes
        <5>2. (\A cut \in cuts' : goes(cut)) <=> (\A cut \in cuts : goes(cut)) /\ goes(<<v, S, side>>)
          BY <2>3
        <5>3. (\A cut \in cuts' : goes(cut)) <=> (\A cut \in cuts : goes(cut)) /\ (x \in S) = side
          BY <5>1, <5>2
        <5> QED BY <5>3 DEF goes
      <4> QED BY <4>1, <4>2, <2>3, <2>4, <3>1, <3>2
    <3>3. CASE w # v
      <4>1. regions'[w] = regions[w]
        BY <2>3, <3>3 DEF PartInv
      <4>2. ASSUME NEW x
            PROVE  (\A cut \in cuts' : cut[1] = w => (x \in cut[2]) = cut[3])
                     <=> \A cut \in cuts : cut[1] = w => (x \in cut[2]) = cut[3]
        <5> DEFINE goes(cut) == cut[1] = w => (x \in cut[2]) = cut[3]
        <5>1. goes(<<v, S, side>>)
          BY <3>3
        <5> HIDE DEF goes
        <5>2. (\A cut \in cuts' : goes(cut)) <=> (\A cut \in cuts : goes(cut))
          BY <5>1, <2>3
        <5> QED BY <5>2 DEF goes
      <4> QED BY <4>1, <4>2, <2>3, <3>1
    <3> QED BY <3>2, <3>3
  <2>7. RegionIsCut'
    BY <2>6 DEF RegionIsCut
  <2> QED BY <2>5, <2>7 DEF PartInv
<1> QED BY <1>1, <1>2

LEMMA PartInvAlways == PartSpec => []PartInv
<1>1. PartInit => PartInv
  BY PartInitInv
<1>2. PartInv /\ [PartNext]_partVars => PartInv'
  BY PartStepInv
<1> QED BY <1>1, <1>2, PTL DEF PartSpec

(* Every region of every partition is in the one canonical form, whatever  *)
(* ranges the domain was read back from and however it was cut.            *)
THEOREM RegionsAlwaysCanonical == PartSpec => []RegionsCanonical
<1>1. PartInv => RegionsCanonical
  BY DEF PartInv, RegionsCanonical, Sets
<1> QED BY <1>1, PartInvAlways, PTL

(* A region holds the values of its domain that lie on its side of every   *)
(* set that cut it, and no others.                                         *)
THEOREM RegionsAlwaysCut == PartSpec => []RegionIsCut
<1>1. PartInv => RegionIsCut
  BY DEF PartInv
<1> QED BY <1>1, PartInvAlways, PTL

(* Comparing two regions by their ranges compares the sets of values.      *)
THEOREM RangesAlwaysTell == PartSpec => []RangesTellValues
<1>1. PartInv => RangesTellValues
  <2> SUFFICES ASSUME PartInv, NEW v \in Vars, NEW w \in Vars
               PROVE  LET s == regions[v]
                          t == regions[w]
                      IN  /\ s = t <=> Members(s) = Members(t)
                          /\ SubsetOf(s, t) <=> Members(s) \subseteq Members(t)
                          /\ DisjointFrom(s, t) <=> Members(s) \cap Members(t) = {}
    BY DEF RangesTellValues
  <2>1. regions[v] \in Sets /\ regions[w] \in Sets
    BY DEF PartInv
  <2> QED BY <2>1, ComparisonsTellWords
<1> QED BY <1>1, PartInvAlways, PTL

-----------------------------------------------------------------------------
(***************************************************************************)
(* The models of a contract that its walks are written into (ModelBuilder).*)
(* Nothing is used of a walk but that entrypoints have names of their own  *)
(* and a storage is a function: not how paths are found, divided or cut.   *)
(***************************************************************************)

(* The greatest of a set of numbers.                                      *)
LEMMA MaxIs ==
  ASSUME NEW S, NEW m \in S, m \in Int, \A x \in S : x \in Int /\ x <= m
  PROVE  Max(S) = m
  <1>1. \A y \in S : m >= y
    OBVIOUS
  <1>2. \A x \in S : (\A y \in S : x >= y) => x = m
    OBVIOUS
  <1>3. Max(S) = CHOOSE x \in S : \A y \in S : x >= y
    BY DEF Max
  <1>4. QED
    BY <1>1, <1>2, <1>3

(* Where steps leave the storage: nowhere else before the first, and each  *)
(* store where it says.                                                    *)
LEMMA AfterNone ==
  ASSUME NEW steps, NEW s, s = [v \in DOMAIN s |-> s[v]]
  PROVE  After(steps, s, 0) = s
  <1>1. \A v : {k \in 1 .. 0 : steps[k][1] = "store" /\ steps[k][2] = v} = {}
    OBVIOUS
  <1>2. QED
    BY <1>1 DEF After

LEMMA AfterStep ==
  ASSUME NEW steps, NEW s, NEW i \in 1 .. Len(steps), i \in Int, i >= 1
  PROVE  After(steps, s, i) =
           IF steps[i][1] = "store"
           THEN [After(steps, s, i - 1) EXCEPT ![steps[i][2]] = steps[i][3]]
           ELSE After(steps, s, i - 1)
  <1> DEFINE stores(j, v) == {k \in 1 .. j : steps[k][1] = "store" /\ steps[k][2] = v}
             value(j, v) == IF stores(j, v) = {} THEN s[v] ELSE steps[Max(stores(j, v))][3]
  <1>1. \A j : After(steps, s, j) = [v \in DOMAIN s |-> value(j, v)]
    BY DEF After
  <1>2. 1 .. i = (1 .. (i - 1)) \cup {i}
    OBVIOUS
  <1>3. ASSUME steps[i][1] # "store" PROVE \A v : stores(i, v) = stores(i - 1, v)
    BY <1>2, <1>3
  <1>4. ASSUME NEW v, steps[i][2] # v PROVE stores(i, v) = stores(i - 1, v)
    BY <1>2, <1>4
  <1>5. ASSUME steps[i][1] = "store" PROVE value(i, steps[i][2]) = steps[i][3]
    <2>1. i \in stores(i, steps[i][2])
      BY <1>5
    <2>2. \A k \in stores(i, steps[i][2]) : k \in Int /\ k <= i
      OBVIOUS
    <2>3. Max(stores(i, steps[i][2])) = i
      BY <2>1, <2>2, MaxIs
    <2>4. QED
      BY <2>1, <2>3
  <1> HIDE DEF stores
  <1>6. CASE steps[i][1] = "store"
    <2>1. \A v \in DOMAIN s : value(i, v) = IF v = steps[i][2] THEN steps[i][3] ELSE value(i - 1, v)
      BY <1>4, <1>5, <1>6
    <2>2. QED
      BY <1>1, <1>6, <2>1
  <1>7. CASE steps[i][1] # "store"
    BY <1>1, <1>3, <1>7
  <1>8. QED
    BY <1>6, <1>7

-----------------------------------------------------------------------------
(* A path written into the models.                                         *)
LEMMA PositionTells ==
  ASSUME NEW a, NEW s, NEW at
  PROVE  /\ StorageAt(Position(a, s, at)) = at
         /\ Position(a, s, at)[1] = a
         /\ Position(a, s, at)[2] = s
  BY DEF StorageAt, Position

(* A call's states, after i of its steps.                                  *)
ImplAt(e, s, a, w, i) == <<e.sig, "#", i, Position(a, s, After(w.steps, s, i))>>
PlantAt(e, s, a, w, i) == <<e.sig, "@", i, Position(a, s, After(w.steps, s, i))>>
Entered(e, s, a) == <<e.sig, "@e", 0, <<a, s>>>>

(* What the implementation's transitions of one path are.                  *)
Calls(e, s, a, w, t) == t = <<Idle(s), <<"call", e.sig, a>>, ImplAt(e, s, a, w, 0)>>
Passes(e, s, a, w, t, i) ==
  i \in PassedAt(w.steps) /\ t = <<ImplAt(e, s, a, w, i - 1), EventOf(w.steps[i]), ImplAt(e, s, a, w, i)>>
Fails(e, s, a, w, t, i) ==
  i \in StopsAt(w.steps) /\ t = <<ImplAt(e, s, a, w, i - 1), EventOf(w.steps[i]), <<e.sig, "#rev", s>>>>
ReturnsFrom(e, s, a, w, t) ==
  /\ FailedAt(w.steps) = {} /\ w.status = <<"return">>
  /\ t = <<ImplAt(e, s, a, w, Len(w.steps)), <<"return">>,
           <<e.sig, "#ret", After(w.steps, s, Len(w.steps))>>>>
RevertsFrom(e, s, a, w, t) ==
  /\ FailedAt(w.steps) = {} /\ w.status # <<"return">>
  /\ t = <<ImplAt(e, s, a, w, Len(w.steps)), <<"revert">>, <<e.sig, "#rev", s>>>>
Rests(e, s, t) == t = <<<<e.sig, "#rev", s>>, <<"next_tx">>, Idle(s)>>
Settles(e, s, w, b, t) ==
  LET now == After(w.steps, s, Len(w.steps))
  IN  /\ FailedAt(w.steps) = {} /\ w.status = <<"return">>
      /\ t = <<<<e.sig, "#ret", now>>, <<"next_tx">>, IF Broken(now, b) THEN Bad ELSE Idle(now)>>

LEMMA ImplShape ==
  ASSUME NEW e, NEW s, NEW a, NEW w, NEW b, NEW t \in ImplOf(e, s, a, w, b)
  PROVE  \/ Calls(e, s, a, w, t)
         \/ \E i \in 1 .. Len(w.steps) : Passes(e, s, a, w, t, i)
         \/ \E i \in 1 .. Len(w.steps) : Fails(e, s, a, w, t, i)
         \/ ReturnsFrom(e, s, a, w, t)
         \/ RevertsFrom(e, s, a, w, t)
         \/ Rests(e, s, t)
         \/ Settles(e, s, w, b, t)
  <1> DEFINE n == Len(w.steps)
             rev == <<e.sig, "#rev", s>>
             ret == <<e.sig, "#ret", After(w.steps, s, n)>>
             stops == {<<ImplAt(e, s, a, w, i - 1), EventOf(w.steps[i]), rev>> : i \in StopsAt(w.steps)}
  <1> DEFINE ending ==
               IF FailedAt(w.steps) # {} THEN stops \cup Boundary(rev, s, FALSE, b)
               ELSE IF w.status = <<"return">>
               THEN {<<ImplAt(e, s, a, w, n), <<"return">>, ret>>} \cup Boundary(ret, ret[3], TRUE, b)
               ELSE {<<ImplAt(e, s, a, w, n), <<"revert">>, rev>>} \cup Boundary(rev, s, FALSE, b)
             moves == {<<ImplAt(e, s, a, w, i - 1), EventOf(w.steps[i]), ImplAt(e, s, a, w, i)>>
                         : i \in PassedAt(w.steps)}
  <1>0. ImplOf(e, s, a, w, b)
          = {<<Idle(s), <<"call", e.sig, a>>, ImplAt(e, s, a, w, 0)>>} \cup moves \cup ending
    BY Zenon DEF ImplOf, ImplAt
  <1> HIDE DEF moves, stops, rev, ret, n
  <1>6. \/ FailedAt(w.steps) # {} /\ ending = stops \cup Boundary(rev, s, FALSE, b)
        \/ /\ FailedAt(w.steps) = {} /\ w.status = <<"return">>
           /\ ending = {<<ImplAt(e, s, a, w, n), <<"return">>, ret>>} \cup Boundary(ret, ret[3], TRUE, b)
        \/ /\ FailedAt(w.steps) = {} /\ w.status # <<"return">>
           /\ ending = {<<ImplAt(e, s, a, w, n), <<"revert">>, rev>>} \cup Boundary(rev, s, FALSE, b)
    OBVIOUS
  <1> HIDE DEF ending
  <1>1. \/ t = <<Idle(s), <<"call", e.sig, a>>, ImplAt(e, s, a, w, 0)>>
        \/ t \in moves
        \/ FailedAt(w.steps) # {} /\ t \in stops \cup Boundary(rev, s, FALSE, b)
        \/ /\ FailedAt(w.steps) = {} /\ w.status = <<"return">>
           /\ t \in {<<ImplAt(e, s, a, w, n), <<"return">>, ret>>} \cup Boundary(ret, ret[3], TRUE, b)
        \/ /\ FailedAt(w.steps) = {} /\ w.status # <<"return">>
           /\ t \in {<<ImplAt(e, s, a, w, n), <<"revert">>, rev>>} \cup Boundary(rev, s, FALSE, b)
    BY <1>0, <1>6
  <1> USE DEF moves, stops, rev, ret, n
  <1>2. PassedAt(w.steps) \subseteq 1 .. Len(w.steps) /\ StopsAt(w.steps) \subseteq 1 .. Len(w.steps)
    BY DEF PassedAt, StopsAt, FailedAt
  <1>3. Boundary(rev, s, FALSE, b) = {<<rev, <<"next_tx">>, Idle(s)>>}
    BY DEF Boundary
  <1>4. /\ ret[3] = After(w.steps, s, n)
        /\ Boundary(ret, ret[3], TRUE, b)
             = {<<ret, <<"next_tx">>, IF Broken(ret[3], b) THEN Bad ELSE Idle(ret[3])>>}
    BY DEF Boundary
  <1>5. QED
    BY <1>1, <1>2, <1>3, <1>4 DEF Calls, Passes, Fails, ReturnsFrom, RevertsFrom, Rests, Settles

(* A step of a path moves its position as its event says.                  *)
LEMMA MovedByStep ==
  ASSUME NEW steps, NEW a, NEW s, NEW i \in 1 .. Len(steps)
  PROVE  Moved(Position(a, s, After(steps, s, i - 1)), EventOf(steps[i]))
           = Position(a, s, After(steps, s, i))
  <1> DEFINE before == After(steps, s, i - 1)
             event == EventOf(steps[i])
  <1>1. StorageAt(Position(a, s, before)) = before
        /\ Position(a, s, before)[1] = a /\ Position(a, s, before)[2] = s
    BY PositionTells
  <1>2. i \in Int /\ i >= 1
    OBVIOUS
  <1>3. After(steps, s, i) = IF steps[i][1] = "store"
                             THEN [before EXCEPT ![steps[i][2]] = steps[i][3]] ELSE before
    BY <1>2, AfterStep
  <1> HIDE DEF before
  <1>4. CASE steps[i][1] = "store"
    <2>1. event = <<"store", steps[i][2], steps[i][3]>>
      BY <1>4 DEF EventOf
    <2>2. Moved(Position(a, s, before), event)
            = Position(a, s, [before EXCEPT ![steps[i][2]] = steps[i][3]])
      BY <1>1, <2>1 DEF Moved
    <2> QED
      BY <1>3, <1>4, <2>2 DEF before
  <1>5. CASE steps[i][1] # "store"
    <2>1. event[1] # "store"
      BY <1>5 DEF EventOf
    <2>2. Moved(Position(a, s, before), event) = Position(a, s, before)
      BY <2>1 DEF Moved
    <2> QED
      BY <1>3, <1>5, <2>2 DEF before
  <1> QED
    BY <1>4, <1>5

(* What a step of a path that passes, or fails, is called.                 *)
LEMMA PassedEvent ==
  ASSUME NEW steps, NEW i \in PassedAt(steps)
  PROVE  /\ i \in 1 .. Len(steps)
         /\ steps[i][1] = "check" => EventOf(steps[i]) = <<"pass", steps[i][2]>>
         /\ steps[i][1] # "check" => /\ EventOf(steps[i])[1] \in {"store", "external_call"}
  <1>1. i \in 1 .. Len(steps) /\ \A j \in FailedAt(steps) : j > i
    BY DEF PassedAt
  <1>2. i \notin FailedAt(steps)
    BY <1>1
  <1>3. steps[i][1] = "check" => steps[i][3]
    BY <1>1, <1>2 DEF FailedAt
  <1> QED
    BY <1>1, <1>3 DEF EventOf

LEMMA StoppedEvent ==
  ASSUME NEW steps, NEW i \in StopsAt(steps)
  PROVE  /\ i \in 1 .. Len(steps) /\ steps[i][1] = "check"
         /\ EventOf(steps[i]) = <<"fail", steps[i][2]>>
  BY DEF StopsAt, FailedAt, EventOf

(* Every transition of a path leads where its names say.                   *)
LEMMA ImplTargetOfPath ==
  ASSUME NEW e, NEW s, NEW a, NEW w, e.sig \notin {"idle", "bad"}, s = [v \in DOMAIN s |-> s[v]],
         NEW t \in ImplOf(e, s, a, w, B)
  PROVE  t[3] = ImplTarget(t[1], t[2])
  <1> DEFINE at(i) == Position(a, s, After(w.steps, s, i))
  <1>1. \A i : /\ StorageAt(at(i)) = After(w.steps, s, i)
               /\ at(i)[1] = a /\ at(i)[2] = s
    BY PositionTells
  <1>2. CASE Calls(e, s, a, w, t)
    <2>1. After(w.steps, s, 0) = s
      BY AfterNone
    <2>2. at(0) = <<a, s>>
      BY <2>1 DEF Position
    <2> QED
      BY <1>2, <2>2 DEF Calls, ImplAt, ImplTarget, Idle
  <1>3. ASSUME NEW i \in 1 .. Len(w.steps), Passes(e, s, a, w, t, i)
        PROVE  t[3] = ImplTarget(t[1], t[2])
    <2>1. EventOf(w.steps[i])[1] \in {"pass", "store", "external_call"}
      BY <1>3, PassedEvent DEF Passes
    <2>2. Moved(at(i - 1), EventOf(w.steps[i])) = at(i) /\ (i - 1) + 1 = i
      BY <1>3, MovedByStep
    <2> HIDE DEF at
    <2>3. t = <<<<e.sig, "#", i - 1, at(i - 1)>>, EventOf(w.steps[i]), <<e.sig, "#", i, at(i)>>>>
      BY <1>3 DEF Passes, ImplAt, at
    <2> QED
      BY <2>1, <2>2, <2>3 DEF ImplTarget
  <1>4. ASSUME NEW i \in 1 .. Len(w.steps), Fails(e, s, a, w, t, i)
        PROVE  t[3] = ImplTarget(t[1], t[2])
    <2>1. EventOf(w.steps[i])[1] = "fail"
      BY <1>4, StoppedEvent DEF Fails
    <2> HIDE DEF at
    <2>2. t = <<<<e.sig, "#", i - 1, at(i - 1)>>, EventOf(w.steps[i]), <<e.sig, "#rev", s>>>>
      BY <1>4 DEF Fails, ImplAt, at
    <2> QED
      BY <1>1, <2>1, <2>2 DEF ImplTarget
  <1>5. CASE ReturnsFrom(e, s, a, w, t)
    <2> DEFINE n == Len(w.steps)
    <2> HIDE DEF at
    <2>1. t = <<<<e.sig, "#", n, at(n)>>, <<"return">>, <<e.sig, "#ret", After(w.steps, s, n)>>>>
      BY <1>5 DEF ReturnsFrom, ImplAt, at
    <2> QED
      BY <1>1, <2>1 DEF ImplTarget
  <1>6. CASE RevertsFrom(e, s, a, w, t)
    <2> DEFINE n == Len(w.steps)
    <2> HIDE DEF at
    <2>1. t = <<<<e.sig, "#", n, at(n)>>, <<"revert">>, <<e.sig, "#rev", s>>>>
      BY <1>6 DEF RevertsFrom, ImplAt, at
    <2> QED
      BY <1>1, <2>1 DEF ImplTarget
  <1>7. CASE Rests(e, s, t)
    BY <1>7 DEF Rests, ImplTarget, Ended
  <1>8. CASE Settles(e, s, w, B, t)
    BY <1>8 DEF Settles, ImplTarget, Ended
  <1> QED
    BY <1>2, <1>3, <1>4, <1>5, <1>6, <1>7, <1>8, ImplShape

(* The plant's transitions of one path: what they are, and that it has     *)
(* them.                                                                   *)
PlantNode(e, s, a, w, i) ==
  IF i = 0 /\ Unguarded(w.steps) THEN Entered(e, s, a) ELSE PlantAt(e, s, a, w, i)
PlantEntry(e, s, a, w) ==
  IF Unguarded(w.steps)
  THEN {<<PlantAt(e, s, a, w, 0), <<"cont_entry", e.sig>>, Entered(e, s, a)>>,
        <<PlantAt(e, s, a, w, 0), <<"rej_entry", e.sig>>, <<e.sig, "@rev", s>>>>}
  ELSE {}
PlantMove(e, s, a, w, i) ==
  LET x == w.steps[i]
      from == PlantNode(e, s, a, w, i - 1)
      to == PlantNode(e, s, a, w, i)
  IN  IF x[1] = "check"
      THEN {<<from, <<"cont", x[2]>>, to>>, <<from, <<"rej", x[2]>>, <<e.sig, "@rev", s>>>>}
      ELSE {<<from, EventOf(x), to>>}
PlantEnding(e, s, a, w, b) ==
  LET n == Len(w.steps)
      ret == <<e.sig, "@ret", After(w.steps, s, n)>>
  IN  IF w.status = <<"return">>
      THEN {<<PlantNode(e, s, a, w, n), <<"return">>, ret>>} \cup Boundary(ret, ret[3], TRUE, b)
      ELSE {<<PlantNode(e, s, a, w, n), <<"revert">>, <<e.sig, "@rev", s>>>>}

LEMMA PlantShape ==
  ASSUME NEW e, NEW s, NEW a, NEW w, NEW b
  PROVE  PlantOf(e, s, a, w, b)
           = {<<Idle(s), <<"call", e.sig, a>>, PlantAt(e, s, a, w, 0)>>}
             \cup PlantEntry(e, s, a, w)
             \cup (UNION {PlantMove(e, s, a, w, i) : i \in 1 .. Len(w.steps)})
             \cup PlantEnding(e, s, a, w, b)
             \cup {<<<<e.sig, "@rev", s>>, <<"next_tx">>, Idle(s)>>}
  <1>1. Boundary(<<e.sig, "@rev", s>>, s, FALSE, b) = {<<<<e.sig, "@rev", s>>, <<"next_tx">>, Idle(s)>>}
    BY DEF Boundary
  <1>2. PlantOf(e, s, a, w, b)
          = {<<Idle(s), <<"call", e.sig, a>>, PlantAt(e, s, a, w, 0)>>}
             \cup PlantEntry(e, s, a, w)
             \cup (UNION {PlantMove(e, s, a, w, i) : i \in 1 .. Len(w.steps)})
             \cup PlantEnding(e, s, a, w, b)
             \cup Boundary(<<e.sig, "@rev", s>>, s, FALSE, b)
    BY Zenon DEF PlantOf, PlantAt, PlantNode, Entered, PlantEntry, PlantMove, PlantEnding, PlantPosition
  <1> QED
    BY <1>1, <1>2

LEMMA PlantTargetOfPath ==
  ASSUME NEW e, NEW s, NEW a, NEW w, e.sig \notin {"idle", "bad"}, s = [v \in DOMAIN s |-> s[v]],
         NEW t \in PlantOf(e, s, a, w, B)
  PROVE  t[3] = PlantTarget(t[1], t[2])
  <1> DEFINE at(i) == Position(a, s, After(w.steps, s, i))
             n == Len(w.steps)
             ret == <<e.sig, "@ret", After(w.steps, s, n)>>
             rev == <<e.sig, "@rev", s>>
  <1>1. \A i : /\ StorageAt(at(i)) = After(w.steps, s, i)
               /\ at(i)[1] = a /\ at(i)[2] = s
    BY PositionTells
  <1>2. After(w.steps, s, 0) = s
    BY AfterNone
  <1>3. at(0) = <<a, s>>
    BY <1>2 DEF Position
  <1>4. \A i : PlantAt(e, s, a, w, i) = <<e.sig, "@", i, at(i)>>
    BY DEF PlantAt
  <1> HIDE DEF at
  (* A node of the plant, entered or not, names where it is.               *)
  <1>5. ASSUME NEW i
        PROVE  /\ PlantNode(e, s, a, w, i) \in {<<e.sig, "@", i, at(i)>>, <<e.sig, "@e", i, at(i)>>}
    <2>1. CASE i = 0 /\ Unguarded(w.steps)
      BY <1>3, <2>1 DEF PlantNode, Entered
    <2>2. CASE ~ (i = 0 /\ Unguarded(w.steps))
      BY <1>4, <2>2 DEF PlantNode
    <2> QED
      BY <2>1, <2>2
  <1>6. CASE t = <<Idle(s), <<"call", e.sig, a>>, PlantAt(e, s, a, w, 0)>>
    BY <1>3, <1>4, <1>6 DEF PlantTarget, Idle
  <1>7. CASE t \in PlantEntry(e, s, a, w)
    <2>1. t \in {<<<<e.sig, "@", 0, at(0)>>, <<"cont_entry", e.sig>>, <<e.sig, "@e", 0, <<a, s>>>>>>,
                 <<<<e.sig, "@", 0, at(0)>>, <<"rej_entry", e.sig>>, rev>>}
      BY <1>4, <1>7 DEF PlantEntry, Entered
    <2> QED
      BY <1>3, <2>1 DEF PlantTarget
  <1>8. ASSUME NEW i \in 1 .. n, t \in PlantMove(e, s, a, w, i)
        PROVE  t[3] = PlantTarget(t[1], t[2])
    <2>1. Moved(at(i - 1), EventOf(w.steps[i])) = at(i) /\ (i - 1) + 1 = i /\ i # 0
      BY <1>8, MovedByStep DEF at
    <2>2. PlantNode(e, s, a, w, i) = <<e.sig, "@", i, at(i)>>
      BY <1>4, <2>1 DEF PlantNode
    <2>3. PICK from \in {"@", "@e"} : PlantNode(e, s, a, w, i - 1) = <<e.sig, from, i - 1, at(i - 1)>>
      BY <1>5
    <2>4. CASE w.steps[i][1] = "check"
      <3>1. at(i) = at(i - 1)
        BY <2>1, <2>4 DEF EventOf, Moved
      <3>2. Moved(at(i - 1), <<"cont", w.steps[i][2]>>) = at(i)
        BY <3>1 DEF Moved
      <3>3. t \in {<<<<e.sig, from, i - 1, at(i - 1)>>, <<"cont", w.steps[i][2]>>, <<e.sig, "@", i, at(i)>>>>,
                   <<<<e.sig, from, i - 1, at(i - 1)>>, <<"rej", w.steps[i][2]>>, rev>>}
        BY <1>8, <2>2, <2>3, <2>4 DEF PlantMove
      <3>4. CASE t = <<<<e.sig, from, i - 1, at(i - 1)>>, <<"cont", w.steps[i][2]>>, <<e.sig, "@", i, at(i)>>>>
        BY <1>1, <2>1, <3>2, <3>4 DEF PlantTarget
      <3>5. CASE t = <<<<e.sig, from, i - 1, at(i - 1)>>, <<"rej", w.steps[i][2]>>, rev>>
        BY <1>1, <2>1, <3>5 DEF PlantTarget
      <3> QED
        BY <3>3, <3>4, <3>5
    <2>5. CASE w.steps[i][1] # "check"
      <3>1. EventOf(w.steps[i])[1] \in {"store", "external_call"}
        BY <2>5 DEF EventOf
      <3>2. t = <<<<e.sig, from, i - 1, at(i - 1)>>, EventOf(w.steps[i]), <<e.sig, "@", i, at(i)>>>>
        BY <1>8, <2>2, <2>3, <2>5 DEF PlantMove
      <3> QED
        BY <2>1, <3>1, <3>2 DEF PlantTarget
    <2> QED
      BY <2>4, <2>5
  <1>9. CASE t \in PlantEnding(e, s, a, w, B)
    <2>1. PICK from \in {"@", "@e"} : PlantNode(e, s, a, w, n) = <<e.sig, from, n, at(n)>>
      BY <1>5
    <2>2. ret[3] = After(w.steps, s, n)
          /\ Boundary(ret, ret[3], TRUE, B)
               = {<<ret, <<"next_tx">>, IF Broken(ret[3], B) THEN Bad ELSE Idle(ret[3])>>}
      BY DEF Boundary
    <2>3. \/ t = <<<<e.sig, from, n, at(n)>>, <<"return">>, ret>>
          \/ t = <<ret, <<"next_tx">>, IF Broken(ret[3], B) THEN Bad ELSE Idle(ret[3])>>
          \/ t = <<<<e.sig, from, n, at(n)>>, <<"revert">>, rev>>
      BY <1>9, <2>1, <2>2 DEF PlantEnding
    <2> QED
      BY <1>1, <2>2, <2>3 DEF PlantTarget, Ended
  <1>10. CASE t = <<rev, <<"next_tx">>, Idle(s)>>
    BY <1>10 DEF PlantTarget, Ended
  <1>11. \/ t = <<Idle(s), <<"call", e.sig, a>>, PlantAt(e, s, a, w, 0)>>
         \/ t \in PlantEntry(e, s, a, w)
         \/ \E i \in 1 .. n : t \in PlantMove(e, s, a, w, i)
         \/ t \in PlantEnding(e, s, a, w, B)
         \/ t = <<rev, <<"next_tx">>, Idle(s)>>
    <2> DEFINE first == <<Idle(s), <<"call", e.sig, a>>, PlantAt(e, s, a, w, 0)>>
               last == <<rev, <<"next_tx">>, Idle(s)>>
               entry == PlantEntry(e, s, a, w)
               move(i) == PlantMove(e, s, a, w, i)
               ending == PlantEnding(e, s, a, w, B)
               moves == {move(i) : i \in 1 .. n}
    <2>1. t \in {first} \cup entry \cup (UNION moves) \cup ending \cup {last}
      BY Zenon, PlantShape
    <2> HIDE DEF first, last, entry, moves, ending
    <2>2. t = first \/ t \in entry \/ t \in (UNION moves) \/ t \in ending \/ t = last
      BY <2>1
    <2> HIDE DEF move
    <2>3. ASSUME t \in UNION moves PROVE \E i \in 1 .. n : t \in move(i)
      <3>1. PICK m \in moves : t \in m
        BY <2>3
      <3>2. PICK i \in 1 .. n : m = move(i)
        BY Zenon, <3>1 DEF moves
      <3> QED
        BY <3>1, <3>2
    <2> QED
      BY Zenon, <2>2, <2>3 DEF first, last, entry, move, ending
  <1> QED
    BY <1>6, <1>7, <1>8, <1>9, <1>10, <1>11

-----------------------------------------------------------------------------
(* The plant has what the implementation's path needs of it.               *)
FollowedIn(t, transitions) ==
  LET here == InPlant(t[1])
      follows(from) == <<from, EventInPlant(t[2]), InPlant(t[3])>> \in transitions
  IN  \/ follows(here)
      \/ /\ t[1][1] # "idle" /\ t[1][2] = "#"
         /\ <<here, <<"cont_entry", t[1][1]>>, PastEntry(t[1])>> \in transitions
         /\ follows(PastEntry(t[1]))

LEMMA PlantHas ==
  ASSUME NEW e, NEW s, NEW a, NEW w, NEW b
  PROVE  /\ <<Idle(s), <<"call", e.sig, a>>, PlantAt(e, s, a, w, 0)>> \in PlantOf(e, s, a, w, b)
         /\ PlantEntry(e, s, a, w) \subseteq PlantOf(e, s, a, w, b)
         /\ \A i \in 1 .. Len(w.steps) : PlantMove(e, s, a, w, i) \subseteq PlantOf(e, s, a, w, b)
         /\ PlantEnding(e, s, a, w, b) \subseteq PlantOf(e, s, a, w, b)
         /\ <<<<e.sig, "@rev", s>>, <<"next_tx">>, Idle(s)>> \in PlantOf(e, s, a, w, b)
  <1> DEFINE first == <<Idle(s), <<"call", e.sig, a>>, PlantAt(e, s, a, w, 0)>>
             last == <<<<e.sig, "@rev", s>>, <<"next_tx">>, Idle(s)>>
             entry == PlantEntry(e, s, a, w)
             move(i) == PlantMove(e, s, a, w, i)
             moves == {move(i) : i \in 1 .. Len(w.steps)}
             ending == PlantEnding(e, s, a, w, b)
             whole == PlantOf(e, s, a, w, b)
  <1>1. whole = {first} \cup entry \cup (UNION moves) \cup ending \cup {last}
    BY Zenon, PlantShape
  <1>2. \A i \in 1 .. Len(w.steps) : move(i) \in moves
    OBVIOUS
  <1> HIDE DEF first, last, entry, move, moves, ending, whole
  <1>3. /\ first \in whole /\ entry \subseteq whole /\ ending \subseteq whole /\ last \in whole
        /\ \A m \in moves : m \subseteq whole
    BY <1>1
  <1> QED
    BY Zenon, <1>2, <1>3 DEF first, last, entry, move, ending, whole

(* A path's nodes in the plant.                                            *)
Nodes(e, s, a, w) ==
  /\ \A i : /\ InPlant(ImplAt(e, s, a, w, i)) = PlantAt(e, s, a, w, i)
            /\ ImplAt(e, s, a, w, i)[1] = e.sig /\ ImplAt(e, s, a, w, i)[2] = "#"
  /\ PastEntry(ImplAt(e, s, a, w, 0)) = Entered(e, s, a)
  /\ InPlant(<<e.sig, "#rev", s>>) = <<e.sig, "@rev", s>>
  /\ \A at : /\ InPlant(<<e.sig, "#ret", at>>) = <<e.sig, "@ret", at>>
             /\ InPlant(Idle(at)) = Idle(at)
  /\ InPlant(Bad) = Bad

LEMMA NodesInPlant ==
  ASSUME NEW e, NEW s, NEW a, NEW w, e.sig \notin {"idle", "bad"}, s = [v \in DOMAIN s |-> s[v]]
  PROVE  Nodes(e, s, a, w)
  <1>1. After(w.steps, s, 0) = s
    BY AfterNone
  <1>2. Position(a, s, After(w.steps, s, 0)) = <<a, s>>
    BY <1>1 DEF Position
  <1> QED
    BY <1>2 DEF Nodes, InPlant, ImplAt, PlantAt, PastEntry, Entered, Idle, Bad

(* A step that the plant takes from a node of the path, once entry was     *)
(* allowed where the plant asks.                                           *)
LEMMA FollowedFromNode ==
  ASSUME NEW e, NEW s, NEW a, NEW w, NEW b, e.sig \notin {"idle", "bad"}, s = [v \in DOMAIN s |-> s[v]],
         NEW i, NEW t, t[1] = ImplAt(e, s, a, w, i),
         <<PlantNode(e, s, a, w, i), EventInPlant(t[2]), InPlant(t[3])>> \in PlantOf(e, s, a, w, b)
  PROVE  FollowedIn(t, PlantOf(e, s, a, w, b))
  <1>0. Nodes(e, s, a, w)
    BY NodesInPlant
  <1>1. CASE i = 0 /\ Unguarded(w.steps)
    <2>1. <<PlantAt(e, s, a, w, 0), <<"cont_entry", e.sig>>, Entered(e, s, a)>> \in PlantEntry(e, s, a, w)
      BY <1>1 DEF PlantEntry
    <2>2. <<PlantAt(e, s, a, w, 0), <<"cont_entry", e.sig>>, Entered(e, s, a)>> \in PlantOf(e, s, a, w, b)
      BY Zenon, <2>1, PlantHas
    <2>3. PlantNode(e, s, a, w, i) = Entered(e, s, a)
      BY <1>1 DEF PlantNode
    <2>4. /\ InPlant(t[1]) = PlantAt(e, s, a, w, 0) /\ PastEntry(t[1]) = Entered(e, s, a)
          /\ t[1][1] = e.sig /\ t[1][2] = "#"
      BY <1>1, <1>0 DEF Nodes
    <2> HIDE DEF PlantNode
    <2> QED
      BY <2>2, <2>3, <2>4 DEF FollowedIn
  <1>2. CASE ~ (i = 0 /\ Unguarded(w.steps))
    <2>1. PlantNode(e, s, a, w, i) = InPlant(t[1])
      BY <1>2, <1>0 DEF Nodes, PlantNode
    <2> QED
      BY <2>1 DEF FollowedIn
  <1> QED
    BY <1>1, <1>2

LEMMA PathFollowed ==
  ASSUME NEW e, NEW s, NEW a, NEW w, NEW b, e.sig \notin {"idle", "bad"}, s = [v \in DOMAIN s |-> s[v]],
         NEW t \in ImplOf(e, s, a, w, b)
  PROVE  FollowedIn(t, PlantOf(e, s, a, w, b))
  <1> DEFINE n == Len(w.steps)
             rev == <<e.sig, "@rev", s>>
             ret == <<e.sig, "@ret", After(w.steps, s, n)>>
  <1>0. Nodes(e, s, a, w)
    BY NodesInPlant
  <1>1. CASE Calls(e, s, a, w, t)
    <2>1. /\ t[1] = Idle(s) /\ t[2] = <<"call", e.sig, a>> /\ t[3] = ImplAt(e, s, a, w, 0)
      BY <1>1 DEF Calls
    <2>2. /\ InPlant(t[1]) = Idle(s) /\ EventInPlant(t[2]) = <<"call", e.sig, a>>
          /\ InPlant(t[3]) = PlantAt(e, s, a, w, 0)
      BY <2>1, <1>0 DEF Nodes, EventInPlant
    <2> QED
      BY <2>2, PlantHas DEF FollowedIn
  <1>2. ASSUME NEW i \in 1 .. n, Passes(e, s, a, w, t, i)
        PROVE  FollowedIn(t, PlantOf(e, s, a, w, b))
    <2>1. /\ i \in PassedAt(w.steps) /\ t[1] = ImplAt(e, s, a, w, i - 1)
          /\ t[2] = EventOf(w.steps[i]) /\ t[3] = ImplAt(e, s, a, w, i)
      BY <1>2 DEF Passes
    <2>2. InPlant(t[3]) = PlantNode(e, s, a, w, i)
      <3>1. i # 0
        OBVIOUS
      <3> QED
        BY <2>1, <3>1, <1>0 DEF Nodes, PlantNode
    <2>3. <<PlantNode(e, s, a, w, i - 1), EventInPlant(t[2]), InPlant(t[3])>> \in PlantMove(e, s, a, w, i)
      <3>1. CASE w.steps[i][1] = "check"
        <4>1. EventInPlant(t[2]) = <<"cont", w.steps[i][2]>>
          BY <2>1, <3>1, PassedEvent DEF EventInPlant
        <4> QED
          BY <2>2, <3>1, <4>1 DEF PlantMove
      <3>2. CASE w.steps[i][1] # "check"
        <4>1. EventInPlant(t[2]) = EventOf(w.steps[i])
          BY <2>1, <3>2, PassedEvent DEF EventInPlant
        <4> QED
          BY <2>2, <3>2, <4>1 DEF PlantMove
      <3> QED
        BY <3>1, <3>2
    <2>4. <<PlantNode(e, s, a, w, i - 1), EventInPlant(t[2]), InPlant(t[3])>> \in PlantOf(e, s, a, w, b)
      BY Zenon, <2>3, PlantHas
    <2> QED
      BY <2>1, <2>4, FollowedFromNode
  <1>3. ASSUME NEW i \in 1 .. n, Fails(e, s, a, w, t, i)
        PROVE  FollowedIn(t, PlantOf(e, s, a, w, b))
    <2>1. /\ i \in StopsAt(w.steps) /\ t[1] = ImplAt(e, s, a, w, i - 1)
          /\ t[2] = EventOf(w.steps[i]) /\ t[3] = <<e.sig, "#rev", s>>
      BY <1>3 DEF Fails
    <2>2. w.steps[i][1] = "check" /\ EventInPlant(t[2]) = <<"rej", w.steps[i][2]>>
      BY <2>1, StoppedEvent DEF EventInPlant
    <2>3. InPlant(t[3]) = rev
      BY <2>1, <1>0 DEF Nodes
    <2>4. <<PlantNode(e, s, a, w, i - 1), EventInPlant(t[2]), InPlant(t[3])>> \in PlantMove(e, s, a, w, i)
      BY <2>2, <2>3 DEF PlantMove
    <2>5. <<PlantNode(e, s, a, w, i - 1), EventInPlant(t[2]), InPlant(t[3])>> \in PlantOf(e, s, a, w, b)
      BY Zenon, <2>4, PlantHas
    <2> QED
      BY <2>1, <2>5, FollowedFromNode
  <1>4. CASE ReturnsFrom(e, s, a, w, t)
    <2>1. /\ w.status = <<"return">> /\ t[1] = ImplAt(e, s, a, w, n) /\ t[2] = <<"return">>
          /\ t[3] = <<e.sig, "#ret", After(w.steps, s, n)>>
      BY <1>4 DEF ReturnsFrom
    <2>2. EventInPlant(t[2]) = <<"return">> /\ InPlant(t[3]) = ret
      BY <2>1, <1>0 DEF Nodes, EventInPlant
    <2>3. <<PlantNode(e, s, a, w, n), EventInPlant(t[2]), InPlant(t[3])>> \in PlantEnding(e, s, a, w, b)
      BY <2>1, <2>2 DEF PlantEnding
    <2>4. <<PlantNode(e, s, a, w, n), EventInPlant(t[2]), InPlant(t[3])>> \in PlantOf(e, s, a, w, b)
      BY Zenon, <2>3, PlantHas
    <2> QED
      BY <2>1, <2>4, FollowedFromNode
  <1>5. CASE RevertsFrom(e, s, a, w, t)
    <2>1. /\ w.status # <<"return">> /\ t[1] = ImplAt(e, s, a, w, n) /\ t[2] = <<"revert">>
          /\ t[3] = <<e.sig, "#rev", s>>
      BY <1>5 DEF RevertsFrom
    <2>2. EventInPlant(t[2]) = <<"revert">> /\ InPlant(t[3]) = rev
      BY <2>1, <1>0 DEF Nodes, EventInPlant
    <2>3. <<PlantNode(e, s, a, w, n), EventInPlant(t[2]), InPlant(t[3])>> \in PlantEnding(e, s, a, w, b)
      BY <2>1, <2>2 DEF PlantEnding
    <2>4. <<PlantNode(e, s, a, w, n), EventInPlant(t[2]), InPlant(t[3])>> \in PlantOf(e, s, a, w, b)
      BY Zenon, <2>3, PlantHas
    <2> QED
      BY <2>1, <2>4, FollowedFromNode
  <1>6. CASE Rests(e, s, t)
    <2>1. InPlant(t[1]) = rev /\ EventInPlant(t[2]) = <<"next_tx">> /\ InPlant(t[3]) = Idle(s)
      BY <1>6, <1>0 DEF Nodes, Rests, EventInPlant
    <2> QED
      BY <2>1, PlantHas DEF FollowedIn
  <1>7. CASE Settles(e, s, w, b, t)
    <2> DEFINE now == After(w.steps, s, n)
               next == IF Broken(now, b) THEN Bad ELSE Idle(now)
    <2>1. w.status = <<"return">> /\ t = <<<<e.sig, "#ret", now>>, <<"next_tx">>, next>>
      BY <1>7 DEF Settles
    <2>2. InPlant(t[1]) = ret /\ EventInPlant(t[2]) = <<"next_tx">> /\ InPlant(t[3]) = next
      BY <2>1, <1>0 DEF Nodes, EventInPlant
    <2>3. ret[3] = now /\ Boundary(ret, ret[3], TRUE, b) = {<<ret, <<"next_tx">>, next>>}
      BY DEF Boundary
    <2>4. <<ret, <<"next_tx">>, next>> \in PlantEnding(e, s, a, w, b)
      BY <2>1, <2>3 DEF PlantEnding
    <2>5. <<ret, <<"next_tx">>, next>> \in PlantOf(e, s, a, w, b)
      BY Zenon, <2>4, PlantHas
    <2> QED
      BY <2>2, <2>5 DEF FollowedIn
  <1> QED
    BY <1>1, <1>2, <1>3, <1>4, <1>5, <1>6, <1>7, ImplShape

-----------------------------------------------------------------------------
(* A path's sites and its checks are the same.                             *)
SitePaired(x, transitions) ==
  \E t \in transitions : t[1] = x[3] /\ t[2] \in {<<"pass", x[1]>>, <<"fail", x[1]>>}
SiteDecided(x, transitions) ==
  /\ \E t \in transitions : t[1] = x[2] /\ t[2] = <<"cont", x[1]>>
  /\ \E t \in transitions : t[1] = x[2] /\ t[2] = <<"rej", x[1]>>
CheckListed(t, pairs) ==
  t[2][1] \in {"pass", "fail"} => \E x \in pairs : x[1] = t[2][2] /\ x[3] = t[1]

LEMMA SitesByNames ==
  SitesCorrespond <=> /\ \A x \in sites : SitePaired(x, impl) /\ SiteDecided(x, plant)
                      /\ \A t \in impl : CheckListed(t, sites)
  <1>1. ASSUME NEW x
        PROVE  SiteDecided(x, plant) <=>
                 {<<"cont", x[1]>>, <<"rej", x[1]>>} \subseteq {t[2] : t \in {u \in plant : u[1] = x[2]}}
    BY DEF SiteDecided
  <1>2. SitesCorrespond <=>
          /\ \A x \in sites :
               /\ SitePaired(x, impl)
               /\ {<<"cont", x[1]>>, <<"rej", x[1]>>} \subseteq {t[2] : t \in {u \in plant : u[1] = x[2]}}
          /\ \A t \in impl : CheckListed(t, sites)
    BY Zenon DEF SitesCorrespond, SitePaired, CheckListed
  <1> QED
    BY <1>1, <1>2, Zenon

LEMMA ImplHas ==
  ASSUME NEW e, NEW s, NEW a, NEW w, NEW b
  PROVE  /\ \A i \in PassedAt(w.steps) :
              <<ImplAt(e, s, a, w, i - 1), EventOf(w.steps[i]), ImplAt(e, s, a, w, i)>> \in ImplOf(e, s, a, w, b)
         /\ \A i \in StopsAt(w.steps) :
              <<ImplAt(e, s, a, w, i - 1), EventOf(w.steps[i]), <<e.sig, "#rev", s>>>> \in ImplOf(e, s, a, w, b)
  <1> DEFINE move(i, to) == <<ImplAt(e, s, a, w, i - 1), EventOf(w.steps[i]), to>>
             n == Len(w.steps)
             rev == <<e.sig, "#rev", s>>
             ret == <<e.sig, "#ret", After(w.steps, s, n)>>
             first == {<<Idle(s), <<"call", e.sig, a>>, ImplAt(e, s, a, w, 0)>>}
             moves == {move(i, ImplAt(e, s, a, w, i)) : i \in PassedAt(w.steps)}
             stops == {move(i, rev) : i \in StopsAt(w.steps)}
             ending == IF FailedAt(w.steps) # {} THEN stops \cup Boundary(rev, s, FALSE, b)
               ELSE IF w.status = <<"return">>
               THEN {<<ImplAt(e, s, a, w, n), <<"return">>, ret>>} \cup Boundary(ret, ret[3], TRUE, b)
               ELSE {<<ImplAt(e, s, a, w, n), <<"revert">>, rev>>} \cup Boundary(rev, s, FALSE, b)
  <1>1. ImplOf(e, s, a, w, b) = first \cup moves \cup ending
    BY Zenon DEF ImplOf, ImplAt
  <1>2. \A i \in PassedAt(w.steps) : move(i, ImplAt(e, s, a, w, i)) \in moves
    OBVIOUS
  <1>3. \A i \in StopsAt(w.steps) : move(i, rev) \in stops
    OBVIOUS
  <1>4. ASSUME NEW i \in StopsAt(w.steps) PROVE FailedAt(w.steps) # {}
    BY DEF StopsAt
  <1> HIDE DEF stops
  <1>5. FailedAt(w.steps) # {} => stops \subseteq ending
    OBVIOUS
  <1> HIDE DEF first, moves, ending
  <1>6. moves \subseteq ImplOf(e, s, a, w, b) /\ ending \subseteq ImplOf(e, s, a, w, b)
    BY <1>1
  <1> HIDE DEF move, rev
  <1>7. \A i \in StopsAt(w.steps) : move(i, rev) \in ImplOf(e, s, a, w, b)
    BY <1>3, <1>4, <1>5, <1>6
  <1>8. \A i \in PassedAt(w.steps) : move(i, ImplAt(e, s, a, w, i)) \in ImplOf(e, s, a, w, b)
    BY <1>2, <1>6
  <1> QED
    BY Zenon, <1>7, <1>8 DEF move, rev

LEMMA PathSites ==
  ASSUME NEW e, NEW s, NEW a, NEW w, NEW b,
         NEW x \in SitesOf(e, s, a, w)
  PROVE  SitePaired(x, ImplOf(e, s, a, w, b)) /\ SiteDecided(x, PlantOf(e, s, a, w, b))
  <1>1. PICK i \in CheckedAt(w.steps) :
          x = <<w.steps[i][2], PlantAt(e, s, a, w, i - 1), ImplAt(e, s, a, w, i - 1)>>
    BY DEF SitesOf, PlantAt, ImplAt, PlantPosition
  <1>2. /\ i \in 1 .. Len(w.steps) /\ w.steps[i][1] = "check"
        /\ \A j \in FailedAt(w.steps) : j \in Int /\ j >= i
    BY DEF CheckedAt, EveryCheck, FailedAt
  <1>3. SitePaired(x, ImplOf(e, s, a, w, b))
    <2>1. CASE i \in FailedAt(w.steps)
      <3>1. i \in StopsAt(w.steps)
        BY <1>2, <2>1 DEF StopsAt
      <3>2. EventOf(w.steps[i]) = <<"fail", w.steps[i][2]>>
        BY <3>1, StoppedEvent
      <3>3. <<ImplAt(e, s, a, w, i - 1), EventOf(w.steps[i]), <<e.sig, "#rev", s>>>> \in ImplOf(e, s, a, w, b)
        BY Zenon, <3>1, ImplHas
      <3> QED
        BY <1>1, <3>2, <3>3 DEF SitePaired
    <2>2. CASE i \notin FailedAt(w.steps)
      <3>1. i \in PassedAt(w.steps)
        BY <1>2, <2>2 DEF PassedAt
      <3>2. EventOf(w.steps[i]) = <<"pass", w.steps[i][2]>>
        BY <1>2, <3>1, PassedEvent
      <3>3. <<ImplAt(e, s, a, w, i - 1), EventOf(w.steps[i]), ImplAt(e, s, a, w, i)>> \in ImplOf(e, s, a, w, b)
        BY Zenon, <3>1, ImplHas
      <3> QED
        BY <1>1, <3>2, <3>3 DEF SitePaired
    <2> QED
      BY <2>1, <2>2
  <1>4. SiteDecided(x, PlantOf(e, s, a, w, b))
    <2>1. ~ Unguarded(w.steps)
      BY <1>2 DEF Unguarded
    <2>2. PlantNode(e, s, a, w, i - 1) = PlantAt(e, s, a, w, i - 1)
      BY <2>1 DEF PlantNode
    <2> DEFINE to == PlantNode(e, s, a, w, i)
    <2>3. PlantMove(e, s, a, w, i)
            = {<<PlantAt(e, s, a, w, i - 1), <<"cont", w.steps[i][2]>>, to>>,
               <<PlantAt(e, s, a, w, i - 1), <<"rej", w.steps[i][2]>>, <<e.sig, "@rev", s>>>>}
      BY <1>2, <2>2 DEF PlantMove
    <2>4. PlantMove(e, s, a, w, i) \subseteq PlantOf(e, s, a, w, b)
      BY Zenon, <1>2, PlantHas
    <2> HIDE DEF to
    <2>5. /\ <<PlantAt(e, s, a, w, i - 1), <<"cont", w.steps[i][2]>>, to>> \in PlantOf(e, s, a, w, b)
          /\ <<PlantAt(e, s, a, w, i - 1), <<"rej", w.steps[i][2]>>, <<e.sig, "@rev", s>>>>
               \in PlantOf(e, s, a, w, b)
      BY <2>3, <2>4
    <2> QED
      BY <1>1, <2>5 DEF SiteDecided
  <1> QED
    BY <1>3, <1>4

LEMMA PathChecks ==
  ASSUME NEW e, NEW s, NEW a, NEW w, NEW b, NEW t \in ImplOf(e, s, a, w, b)
  PROVE  CheckListed(t, SitesOf(e, s, a, w))
  <1> DEFINE site(i) == <<w.steps[i][2], PlantAt(e, s, a, w, i - 1), ImplAt(e, s, a, w, i - 1)>>
  <1>0. \A i \in CheckedAt(w.steps) : site(i) \in SitesOf(e, s, a, w)
    BY DEF SitesOf, PlantAt, ImplAt, PlantPosition
  <1>1. ASSUME NEW i \in CheckedAt(w.steps), t[1] = ImplAt(e, s, a, w, i - 1), t[2][2] = w.steps[i][2]
        PROVE  CheckListed(t, SitesOf(e, s, a, w))
    <2>1. site(i) \in SitesOf(e, s, a, w)
      BY <1>0
    <2>2. site(i)[1] = t[2][2] /\ site(i)[3] = t[1]
      BY <1>1
    <2> HIDE DEF site
    <2> QED
      BY <2>1, <2>2 DEF CheckListed
  <1>2. ASSUME NEW i \in 1 .. Len(w.steps), Passes(e, s, a, w, t, i)
        PROVE  CheckListed(t, SitesOf(e, s, a, w))
    <2>1. i \in PassedAt(w.steps) /\ t[1] = ImplAt(e, s, a, w, i - 1) /\ t[2] = EventOf(w.steps[i])
      BY <1>2 DEF Passes
    <2>2. CASE w.steps[i][1] = "check"
      <3>1. i \in CheckedAt(w.steps)
        <4>1. \A j \in FailedAt(w.steps) : j \in Int /\ j > i
          BY <2>1 DEF PassedAt, FailedAt
        <4> QED
          BY <2>2, <4>1 DEF CheckedAt, EveryCheck
      <3>2. t[2] = <<"pass", w.steps[i][2]>>
        BY <2>1, <2>2, PassedEvent
      <3> QED
        <4>1. t[2][2] = w.steps[i][2]
          BY <3>2
        <4> QED
          BY Zenon, <1>1, <2>1, <3>1, <4>1
    <2>3. CASE w.steps[i][1] # "check"
      <3>1. t[2][1] \in {"store", "external_call"}
        BY <2>1, <2>3, PassedEvent
      <3> QED
        BY <3>1 DEF CheckListed
    <2> QED
      BY <2>2, <2>3
  <1>3. ASSUME NEW i \in 1 .. Len(w.steps), Fails(e, s, a, w, t, i)
        PROVE  CheckListed(t, SitesOf(e, s, a, w))
    <2>1. i \in StopsAt(w.steps) /\ t[1] = ImplAt(e, s, a, w, i - 1) /\ t[2] = EventOf(w.steps[i])
      BY <1>3 DEF Fails
    <2>2. t[2] = <<"fail", w.steps[i][2]>> /\ w.steps[i][1] = "check"
      BY <2>1, StoppedEvent
    <2>3. i \in CheckedAt(w.steps)
      BY <2>1, <2>2 DEF CheckedAt, EveryCheck, StopsAt
    <2> QED
      <3>1. t[2][2] = w.steps[i][2]
        BY <2>2
      <3> QED
        BY Zenon, <1>1, <2>1, <2>3, <3>1
  <1>4. CASE Calls(e, s, a, w, t)
    BY <1>4 DEF Calls, CheckListed
  <1>5. CASE ReturnsFrom(e, s, a, w, t)
    BY <1>5 DEF ReturnsFrom, CheckListed
  <1>6. CASE RevertsFrom(e, s, a, w, t)
    BY <1>6 DEF RevertsFrom, CheckListed
  <1>7. CASE Rests(e, s, t)
    BY <1>7 DEF Rests, CheckListed
  <1>8. CASE Settles(e, s, w, b, t)
    BY <1>8 DEF Settles, CheckListed
  <1> QED
    BY <1>2, <1>3, <1>4, <1>5, <1>6, <1>7, <1>8, ImplShape

-----------------------------------------------------------------------------
(* The invariant, step by step.                                            *)
LEMMA FollowsByNames == PlantFollows <=> \A t \in impl : FollowedIn(t, plant)
  BY DEF PlantFollows, FollowedIn

LEMMA JobsAreReady ==
  ASSUME program \in DOMAIN Programs
  PROVE  /\ B.jobs \in Seq(Range(B.jobs))
         /\ \A job \in Range(B.jobs) :
              job[1].sig \notin {"idle", "bad"} /\ job[2] = [v \in DOMAIN job[2] |-> job[2][v]]
  <1>1. B.jobs \in Seq(Range(B.jobs)) /\ \A job \in Range(B.jobs) : IsJob(job, B)
    BY ReadAssumption DEF B
  <1> QED
    BY <1>1 DEF IsJob

LEMMA BuiltInit == Init => BuiltInv
  <1> SUFFICES ASSUME Init PROVE BuiltInv
    OBVIOUS
  <1>1. program \in DOMAIN Programs /\ todo = <<>> /\ impl = {} /\ plant = {} /\ sites = {}
    BY DEF Init
  <1> QED
    BY <1>1 DEF BuiltInv, TargetsAreNamed, SitesCorrespond, PlantFollows

(* A step that writes no path.                                             *)
LEMMA NothingWritten ==
  ASSUME BuiltInv, program' = program, built' = built, todo' \in Seq(Range(B.jobs))
  PROVE  BuiltInv'
  <1>1. B' = B /\ impl' = impl /\ plant' = plant /\ sites' = sites
    BY DEF B, built
  <1>2. \A n : Ended(n)' = Ended(n)
    BY <1>1 DEF Ended
  <1>3. TargetsAreNamed'
    BY <1>1, <1>2 DEF BuiltInv, TargetsAreNamed, ImplTarget, PlantTarget
  <1>4. SitesCorrespond' /\ PlantFollows'
    BY <1>1 DEF BuiltInv, SitesCorrespond, PlantFollows
  <1> QED
    BY <1>1, <1>3, <1>4 DEF BuiltInv

LEMMA BeginKeeps ==
  ASSUME BuiltInv, BeginRound
  PROVE  BuiltInv'
  <1>1. /\ program' = program /\ todo' = B.jobs
        /\ impl' = {} /\ plant' = {} /\ sites' = {}
    BY DEF BeginRound, Begin
  <1>2. B' = B /\ B.jobs \in Seq(Range(B.jobs))
    BY <1>1, JobsAreReady DEF B, BuiltInv
  <1> QED
    BY <1>1, <1>2 DEF BuiltInv, TargetsAreNamed, SitesCorrespond, PlantFollows

LEMMA PathKeeps ==
  ASSUME BuiltInv, NEW e, NEW s, NEW a, NEW w,
         e.sig \notin {"idle", "bad"}, s = [v \in DOMAIN s |-> s[v]],
         program' = program, todo' = todo,
         impl' = impl \cup ImplOf(e, s, a, w, B),
         plant' = plant \cup PlantOf(e, s, a, w, B),
         sites' = sites \cup SitesOf(e, s, a, w)
  PROVE  BuiltInv'
  <1>1. B' = B
    BY DEF B
  <1>2. TargetsAreNamed'
    <2>1. \A n : Ended(n)' = Ended(n)
      BY <1>1 DEF Ended
    <2>2. /\ \A n, event : ImplTarget(n, event)' = ImplTarget(n, event)
          /\ \A n, event : PlantTarget(n, event)' = PlantTarget(n, event)
      BY <2>1 DEF ImplTarget, PlantTarget
    <2>3. \A t \in ImplOf(e, s, a, w, B) : t[3] = ImplTarget(t[1], t[2])
      BY ImplTargetOfPath
    <2>4. \A t \in PlantOf(e, s, a, w, B) : t[3] = PlantTarget(t[1], t[2])
      BY PlantTargetOfPath
    <2> QED
      BY <2>2, <2>3, <2>4 DEF TargetsAreNamed, BuiltInv
  <1>3. SitesCorrespond'
    <2>1. \A x \in SitesOf(e, s, a, w) :
            SitePaired(x, ImplOf(e, s, a, w, B)) /\ SiteDecided(x, PlantOf(e, s, a, w, B))
      BY PathSites
    <2>2. \A t \in ImplOf(e, s, a, w, B) : CheckListed(t, SitesOf(e, s, a, w))
      BY PathChecks
    <2>3. /\ \A x \in sites : SitePaired(x, impl) /\ SiteDecided(x, plant)
          /\ \A t \in impl : CheckListed(t, sites)
      BY SitesByNames DEF BuiltInv
    <2>4. /\ \A x, S, T : S \subseteq T /\ SitePaired(x, S) => SitePaired(x, T)
          /\ \A x, S, T : S \subseteq T /\ SiteDecided(x, S) => SiteDecided(x, T)
          /\ \A t, S, T : S \subseteq T /\ CheckListed(t, S) => CheckListed(t, T)
      BY DEF SitePaired, SiteDecided, CheckListed
    <2>5. /\ \A x \in sites' : SitePaired(x, impl') /\ SiteDecided(x, plant')
          /\ \A t \in impl' : CheckListed(t, sites')
      BY <2>1, <2>2, <2>3, <2>4
    <2>6. (SitesCorrespond <=> /\ \A x \in sites : SitePaired(x, impl) /\ SiteDecided(x, plant)
                               /\ \A t \in impl : CheckListed(t, sites))'
      BY SitesByNames, PTL
    <2> QED
      BY <2>5, <2>6
  <1>4. PlantFollows'
    <2>1. \A t \in ImplOf(e, s, a, w, B) : FollowedIn(t, PlantOf(e, s, a, w, B))
      BY PathFollowed
    <2>2. \A t \in impl : FollowedIn(t, plant)
      BY FollowsByNames DEF BuiltInv
    <2>3. \A t, S, T : S \subseteq T /\ FollowedIn(t, S) => FollowedIn(t, T)
      BY DEF FollowedIn
    <2>4. \A t \in impl' : FollowedIn(t, plant')
      BY <2>1, <2>2, <2>3
    <2>5. (PlantFollows <=> \A t \in impl : FollowedIn(t, plant))'
      BY FollowsByNames, PTL
    <2> QED
      BY <2>4, <2>5
  <1> QED
    BY <1>1, <1>2, <1>3, <1>4 DEF BuiltInv

LEMMA WalkKeeps ==
  ASSUME BuiltInv, WalkOnce
  PROVE  BuiltInv'
  <1> DEFINE job == Head(todo)
             w == WalkOf(job, Last(stack), reach, Allowed, B)
  <1>1. program' = program /\ todo' = todo /\ todo # <<>>
    BY DEF WalkOnce
  <1>2. \/ built' = built
        \/ /\ impl' = impl \cup ImplOf(job[1], job[2], job[3], w, B)
           /\ plant' = plant \cup PlantOf(job[1], job[2], job[3], w, B)
           /\ sites' = sites \cup SitesOf(job[1], job[2], job[3], w)
    BY DEF WalkOnce
  <1>3. job[1].sig \notin {"idle", "bad"} /\ job[2] = [v \in DOMAIN job[2] |-> job[2][v]]
    <2>1. job \in Range(B.jobs)
      BY <1>1 DEF BuiltInv
    <2> QED
      BY <2>1, JobsAreReady DEF BuiltInv
  <1> HIDE DEF job, w
  <1>4. CASE built' = built
    BY <1>1, <1>4, NothingWritten DEF BuiltInv
  <1>5. CASE built' # built
    BY <1>1, <1>2, <1>3, <1>5, PathKeeps
  <1> QED
    BY <1>4, <1>5

LEMMA NextJobKeeps ==
  ASSUME BuiltInv, NextJob
  PROVE  BuiltInv'
  <1>1. program' = program /\ built' = built /\ todo # <<>> /\ todo' = Tail(todo)
    BY DEF NextJob
  <1>2. todo' \in Seq(Range(B.jobs))
    BY <1>1, HeadTailProperties DEF BuiltInv
  <1> QED
    BY <1>1, <1>2, NothingWritten

LEMMA BuiltStep == BuiltInv /\ [Next]_vars => BuiltInv'
  <1> SUFFICES ASSUME BuiltInv, [Next]_vars PROVE BuiltInv'
    OBVIOUS
  <1>1. CASE BeginRound
    BY <1>1, BeginKeeps
  <1>2. CASE WalkOnce
    BY <1>2, WalkKeeps
  <1>3. CASE NextJob
    BY <1>3, NextJobKeeps
  <1>4. CASE EndRound
    <2>1. program' = program /\ built' = built /\ todo' = todo
      BY <1>4 DEF EndRound
    <2> QED
      BY <2>1, NothingWritten DEF BuiltInv
  <1>5. CASE MinuteIsOver
    <2>1. program' = program /\ built' = built /\ todo' = todo
      BY <1>5 DEF MinuteIsOver
    <2> QED
      BY <2>1, NothingWritten DEF BuiltInv
  <1>6. CASE UNCHANGED vars
    <2>1. program' = program /\ built' = built /\ todo' = todo
      BY <1>6 DEF vars
    <2> QED
      BY <2>1, NothingWritten DEF BuiltInv
  <1> QED
    BY <1>1, <1>2, <1>3, <1>4, <1>5, <1>6 DEF Next

(* Whatever walks find, in whichever round and however many are cut: the   *)
(* names of a state and an event say where the event leads, sites and      *)
(* checks pair up and the plant follows (model.rs:3460-3645).              *)
THEOREM BuiltAlways == Spec => []BuiltInv
  <1> QED
    BY BuiltInit, BuiltStep, PTL DEF Spec

(* The sites pair the implementation's checks with the plant's, one for    *)
(* one: no check is left to no decision, and no decision is about a check  *)
(* that is not there (model.rs:3599-3645).                                 *)
THEOREM SitesAlwaysCorrespond == Spec => []SitesCorrespond
  <1>1. BuiltInv => SitesCorrespond
    BY DEF BuiltInv
  <1> QED
    BY <1>1, BuiltAlways, PTL

(* The plant can do whatever the implementation does, when every entry and *)
(* passing check is continued and every failing one rejected               *)
(* (model.rs:3558-3561).                                                   *)
THEOREM PlantAlwaysFollows == Spec => []PlantFollows
  <1>1. BuiltInv => PlantFollows
    BY DEF BuiltInv
  <1> QED
    BY <1>1, BuiltAlways, PTL

(* Both models are deterministic although many walks write into the same   *)
(* states: a position tells all that the next step depends on              *)
(* (model.rs:1077-1081, validate.rs:84-98).                                *)
THEOREM ModelsAlwaysDeterministic == Spec => []ModelsAreDeterministic
  <1>1. BuiltInv => ModelsAreDeterministic
    BY DEF BuiltInv, TargetsAreNamed, ModelsAreDeterministic, Deterministic
  <1> QED
    BY <1>1, BuiltAlways, PTL

-----------------------------------------------------------------------------
(* Along any sequence of transitions: the states that transitions lead to  *)
(* from a first one are in every set they do not leave.                    *)
NodesOf(transitions, first) == {first} \cup {t[3] : t \in transitions}
Kept(transitions, first) ==
  {C \in SUBSET NodesOf(transitions, first) :
     first \in C /\ \A t \in transitions : t[1] \in C => t[3] \in C}
ReachedIn(transitions, first) ==
  {n \in NodesOf(transitions, first) : \A C \in Kept(transitions, first) : n \in C}

PlantReaches ==
  \A s : \A n \in ReachedIn(impl, Idle(s)) : InPlant(n) \in ReachedIn(plant, Idle(s))

LEMMA ReachesBySteps ==
  ASSUME NEW transitions, NEW first, NEW t \in transitions, t[1] \in ReachedIn(transitions, first)
  PROVE  t[3] \in ReachedIn(transitions, first)
  BY DEF ReachedIn, Kept, NodesOf

LEMMA FollowedIsReached ==
  ASSUME NEW t, NEW transitions, NEW first, FollowedIn(t, transitions),
         InPlant(t[1]) \in ReachedIn(transitions, first)
  PROVE  InPlant(t[3]) \in ReachedIn(transitions, first)
  <1> DEFINE here == InPlant(t[1])
             to == InPlant(t[3])
             event == EventInPlant(t[2])
             past == PastEntry(t[1])
             R == ReachedIn(transitions, first)
  <1>1. \A u \in transitions : u[1] \in R => u[3] \in R
    BY ReachesBySteps
  <1> HIDE DEF R
  <1>2. CASE <<here, event, to>> \in transitions
    <2> DEFINE u == <<here, event, to>>
    <2>1. u[1] = here /\ u[3] = to
      OBVIOUS
    <2> HIDE DEF u, here, to
    <2> QED
      BY <1>1, <1>2, <2>1 DEF u, here, to, R
  <1>3. CASE /\ <<here, <<"cont_entry", t[1][1]>>, past>> \in transitions
             /\ <<past, event, to>> \in transitions
    <2> DEFINE u == <<here, <<"cont_entry", t[1][1]>>, past>>
               v == <<past, event, to>>
    <2>1. u[1] = here /\ u[3] = past /\ v[1] = past /\ v[3] = to
      OBVIOUS
    <2>2. u \in transitions /\ v \in transitions /\ here \in R
      BY <1>3 DEF R
    <2> HIDE DEF u, v, here, to, past
    <2>3. past \in R
      BY <1>1, <2>1, <2>2
    <2>4. to \in R
      BY <1>1, <2>1, <2>2, <2>3
    <2> QED
      BY <2>4 DEF to, R
  <1> QED
    BY <1>2, <1>3 DEF FollowedIn

(* Whatever the implementation's model can reach from between transactions,*)
(* a broken property among it, the reference plant can too: a supervisor   *)
(* that keeps the plant safe was tried against all of it                   *)
(* (model.rs:3558-3645).                                                   *)
THEOREM PlantReachesWhatProgramDoes == Spec => []PlantReaches
  <1>1. ASSUME PlantFollows PROVE PlantReaches
    <2> SUFFICES ASSUME NEW s, NEW n \in ReachedIn(impl, Idle(s))
                 PROVE  InPlant(n) \in ReachedIn(plant, Idle(s))
      BY DEF PlantReaches
    <2> DEFINE R == ReachedIn(plant, Idle(s))
               C == {m \in NodesOf(impl, Idle(s)) : InPlant(m) \in R}
    <2>1. Idle(s) \in R
      BY DEF ReachedIn, Kept, NodesOf
    <2>2. Idle(s) \in C
      <3>1. InPlant(Idle(s)) = Idle(s)
        BY DEF InPlant, Idle
      <3> QED
        BY <2>1, <3>1 DEF NodesOf
    <2>3. ASSUME NEW t \in impl, t[1] \in C PROVE t[3] \in C
      <3>1. FollowedIn(t, plant)
        BY <1>1, FollowsByNames
      <3>2. InPlant(t[3]) \in R
        BY <2>3, <3>1, FollowedIsReached
      <3> QED
        BY <3>2 DEF NodesOf
    <2> HIDE DEF C
    <2>4. C \in Kept(impl, Idle(s))
      BY <2>2, <2>3 DEF Kept, C
    <2>5. n \in C
      BY <2>4 DEF ReachedIn
    <2> QED
      BY <2>5 DEF C
  <1> QED
    BY <1>1, PlantAlwaysFollows, PTL

-----------------------------------------------------------------------------
(* What the search over the splits promises.  A job is cut when one of its *)
(* walks was refused or it forked too often.                               *)
CutOff(job) == {<<"walk", job[1].sig>>, <<"forks", job[1].sig>>} \cap refused # {}

IsFork(w) == w.status[1] = "undecided"
Ways(splits, w) == {Append(splits, i - 1) : i \in 1 .. w.status[2]}
HasEnded(w) == w.status[1] \notin {"undecided", "refused"}

(* What a finished walk found is in what is built.                         *)
Written(job, w) ==
    /\ PathOf(job[1], job[2], job[3], w, B) \in paths
    /\ ImplOf(job[1], job[2], job[3], w, B) \subseteq impl
    /\ PlantOf(job[1], job[2], job[3], w, B) \subseteq plant
    /\ SitesOf(job[1], job[2], job[3], w) \subseteq sites

(* The splits an execution is described by, when each fork has a way that  *)
(* it goes.                                                                *)
GoesBy(taken, job, where) ==
    /\ <<>> \in taken
    /\ \A splits \in taken, steps \in Nat :
          LET w == WalkOf(job, splits, where, steps, B)
          IN  IsFork(w) => Ways(splits, w) \cap taken # {}

(* Every execution of every job that was not cut ends on a path that is    *)
(* written, found under what the models themselves say a callee can do     *)
(* or under anything at all.                                               *)
ExecutionsAreWritten ==
    phase = "done" =>
        /\ reach \in {Nothing, Some(IdleReach(impl, B))}
        /\ \A job \in Range(B.jobs) : ~CutOff(job) =>
              \A taken \in SUBSET Seq(Nat) : GoesBy(taken, job, reach) =>
                  \E splits \in taken, steps \in Nat :
                      LET w == WalkOf(job, splits, reach, steps, B)
                      IN  HasEnded(w) /\ Written(job, w)

(* What a callee may be taken to do.                                       *)
IsReach(where, b) ==
    \/ where \in {Nothing, Some(<<>>)}
    \/ \E transitions : where = Some(IdleReach(transitions, b))

(* The steps of a walk, and the ways on from a fork, are numbers.          *)
WalksAreCounted ==
    \A p \in DOMAIN Programs :
        LET b == Read[p].contract
        IN  \A job \in Range(b.jobs), splits \in Seq(Nat), steps \in Nat : \A where :
                IsReach(where, b) =>
                    LET w == WalkOf(job, splits, where, steps, b)
                    IN  w.n \in Nat /\ (IsFork(w) => w.status[2] \in Nat)

-----------------------------------------------------------------------------
(* Splits that were walked with nothing left out: each to a fork all of    *)
(* whose ways were walked too or are still open, or to an end.             *)
WalkedOut(X, open, job) ==
  \A splits \in X : \E steps \in Nat :
     LET w == WalkOf(job, splits, reach, steps, B)
     IN  \/ IsFork(w) /\ Len(splits) < B.limits.splits /\ Ways(splits, w) \subseteq X \cup open
         \/ HasEnded(w) /\ Written(job, w)

Explored(job, open) ==
  \E X \in SUBSET Seq(Nat) : <<>> \in X \cup open /\ WalkedOut(X, open, job)

DoneWith(job) == CutOff(job) \/ Explored(job, {})

SearchInv ==
  /\ program \in DOMAIN Programs
  /\ phase \in {"round", "walk", "done"}
  /\ IsReach(reach, B) /\ budget \in Nat
  /\ stack \in Seq(Seq(Nat)) /\ todo \in Seq(Range(B.jobs))
  /\ phase = "walk" =>
       /\ \A job \in Range(B.jobs) : DoneWith(job) \/ job \in Range(todo)
       /\ todo # <<>> => CutOff(Head(todo)) \/ Explored(Head(todo), Range(stack))
  /\ phase = "done" =>
       /\ reach \in {Nothing, Some(IdleReach(impl, B))}
       /\ \A job \in Range(B.jobs) : DoneWith(job)

(* What has been written and explored stays so within a round.             *)
LEMMA SettledStays ==
  ASSUME NEW job, NEW open, program' = program, reach' = reach, refused \subseteq refused',
         impl \subseteq impl', plant \subseteq plant', sites \subseteq sites', paths \subseteq paths'
  PROVE  /\ CutOff(job) => CutOff(job)'
         /\ Explored(job, open) => Explored(job, open)'
         /\ DoneWith(job) => DoneWith(job)'
<1>1. B' = B
  BY DEF B
<1>2. CutOff(job) => CutOff(job)'
  BY DEF CutOff
<1>3. \A splits, steps : WalkOf(job, splits, reach, steps, B)' = WalkOf(job, splits, reach, steps, B)
  BY <1>1
<1>4. \A w : Written(job, w) => Written(job, w)'
  BY <1>1 DEF Written
<1>5. ASSUME NEW X \in SUBSET Seq(Nat), NEW some, WalkedOut(X, some, job)
      PROVE  WalkedOut(X, some, job)'
  BY <1>1, <1>3, <1>4, <1>5 DEF WalkedOut
<1>6. Explored(job, open) => Explored(job, open)'
  BY <1>5 DEF Explored
<1>7. Explored(job, {}) => Explored(job, {})'
  BY <1>5 DEF Explored
<1> QED BY <1>2, <1>6, <1>7 DEF DoneWith

LEMMA SearchInit == Init => SearchInv
<1> SUFFICES ASSUME Init PROVE SearchInv
  OBVIOUS
<1>1. /\ program \in DOMAIN Programs /\ phase = "round" /\ budget = 0
      /\ reach \in {Nothing, Some(<<>>)} /\ todo = <<>> /\ stack = <<>>
  BY DEF Init
<1> QED BY <1>1 DEF SearchInv, IsReach

(* The parts of a contract the search goes by.                             *)
LEMMA LimitsAreCounts ==
  ASSUME program \in DOMAIN Programs
  PROVE  /\ B.limits.rounds \in Nat /\ B.limits.splits \in Nat /\ B.limits.forks \in Nat
         /\ B.limits.steps \in Nat /\ B.limits.budget \in Nat /\ B.limits.clock - 1 \in Nat
<1>1. /\ \A n \in {"rounds", "splits", "forks", "steps", "budget"} : B.limits[n] \in Nat
      /\ B.limits.clock \in Nat \ {0}
  BY ReadAssumption DEF B
<1> QED BY <1>1

LEMMA SearchBegins ==
  ASSUME SearchInv, BeginRound
  PROVE  SearchInv'
<1>1. /\ program' = program /\ phase' = "walk" /\ stack' = <<<<>>>> /\ todo' = B.jobs
      /\ reach' \in {Nothing, reach} /\ budget' = B.limits.budget
  BY DEF BeginRound, Begin
<1>2. B' = B /\ program \in DOMAIN Programs
  BY <1>1 DEF B, SearchInv
<1>3. B.jobs \in Seq(Range(B.jobs))
  BY <1>2, JobsAreReady
<1>4. stack' \in Seq(Seq(Nat)) /\ Range(stack') = {<<>>}
  BY <1>1 DEF Range
<1>5. \A job : Explored(job, {<<>>})'
  <2> SUFFICES ASSUME NEW job PROVE Explored(job, {<<>>})'
    OBVIOUS
  <2>1. {} \in SUBSET Seq(Nat) /\ WalkedOut({}, {<<>>}, job)'
    BY DEF WalkedOut
  <2> QED BY <2>1 DEF Explored
<1>6. IsReach(reach', B)
  BY <1>1 DEF SearchInv, IsReach
<1>7. budget' \in Nat
  BY <1>1, <1>2, LimitsAreCounts
<1> QED BY <1>1, <1>2, <1>3, <1>4, <1>5, <1>6, <1>7 DEF SearchInv

LEMMA SearchGoesOn ==
  ASSUME SearchInv, NextJob
  PROVE  SearchInv'
<1>1. /\ program' = program /\ phase = "walk" /\ phase' = phase /\ stack = <<>> /\ stack' = <<<<>>>>
      /\ todo # <<>> /\ todo' = Tail(todo) /\ reach' = reach /\ refused' = refused
      /\ impl' = impl /\ plant' = plant /\ sites' = sites /\ paths' = paths /\ budget' = budget
  BY DEF NextJob, built
<1>2. B' = B /\ todo \in Seq(Range(B.jobs))
  BY <1>1 DEF B, SearchInv
<1>3. todo' \in Seq(Range(B.jobs)) /\ Range(todo) \subseteq {Head(todo)} \cup Range(todo')
  <2>1. todo' \in Seq(Range(B.jobs)) /\ Len(todo') = Len(todo) - 1 /\ Len(todo) \in Nat \ {0}
        /\ \A i \in 1 .. Len(todo') : todo'[i] = todo[i + 1]
    BY <1>1, <1>2, HeadTailProperties
  <2>2. Head(todo) = todo[1]
    BY <1>1, <1>2
  <2>3. ASSUME NEW i \in 1 .. Len(todo) PROVE todo[i] \in {Head(todo)} \cup Range(todo')
    <3>1. CASE i = 1
      BY <2>2, <3>1
    <3>2. CASE i # 1
      <4>1. i - 1 \in 1 .. Len(todo') /\ todo'[i - 1] = todo[i]
        BY <2>1, <3>2
      <4>2. DOMAIN todo' = 1 .. Len(todo')
        BY <2>1
      <4> QED BY <4>1, <4>2 DEF Range
    <3> QED BY <3>1, <3>2
  <2>4. DOMAIN todo = 1 .. Len(todo)
    BY <1>2
  <2> QED BY <2>1, <2>3, <2>4 DEF Range
<1>4. Range(stack) = {} /\ Range(stack') = {<<>>} /\ stack' \in Seq(Seq(Nat))
  BY <1>1 DEF Range
<1>5. DoneWith(Head(todo))
  <2>1. CutOff(Head(todo)) \/ Explored(Head(todo), Range(stack))
    BY <1>1 DEF SearchInv
  <2> QED BY <1>4, <2>1 DEF DoneWith
<1>6. \A job : DoneWith(job) => DoneWith(job)'
  BY <1>1, SettledStays
<1>7. \A job \in Range(B.jobs) : DoneWith(job)' \/ job \in Range(todo')
  BY <1>1, <1>3, <1>5, <1>6 DEF SearchInv
<1>8. \A job : Explored(job, {<<>>})'
  <2> SUFFICES ASSUME NEW job PROVE Explored(job, {<<>>})'
    OBVIOUS
  <2>1. {} \in SUBSET Seq(Nat) /\ WalkedOut({}, {<<>>}, job)'
    BY DEF WalkedOut
  <2> QED BY <2>1 DEF Explored
<1>9. Explored(Head(todo), Range(stack))'
  BY <1>4, <1>8
<1>10. \A job \in Range(B.jobs)' : DoneWith(job)' \/ job \in Range(todo)'
  BY <1>2, <1>7
<1>11. program' \in DOMAIN Programs /\ IsReach(reach', B) /\ budget' \in Nat
  BY <1>1 DEF SearchInv
<1> QED BY <1>1, <1>2, <1>3, <1>4, <1>9, <1>10, <1>11 DEF SearchInv

LEMMA SearchEnds ==
  ASSUME SearchInv, EndRound
  PROVE  SearchInv'
<1>1. /\ program' = program /\ phase = "walk" /\ todo = <<>>  /\ refused' = refused
      /\ impl' = impl /\ plant' = plant /\ sites' = sites /\ paths' = paths /\ budget' = budget /\ stack' = stack /\ todo' = todo
      /\ \/ phase' = "done" /\ reach' = reach /\ (reach = Nothing \/ Get(reach) = IdleReach(impl, B))
         \/ phase' = "round" /\ reach' = Some(IdleReach(impl, B))
  BY DEF EndRound, built
<1>2. /\ B' = B /\ budget' \in Nat /\ program' \in DOMAIN Programs
      /\ stack' \in Seq(Seq(Nat)) /\ todo' \in Seq(Range(B.jobs))
  BY <1>1 DEF B, SearchInv
<1>3. CASE phase' = "round"
  BY <1>1, <1>2, <1>3 DEF SearchInv, IsReach
<1>4. CASE phase' = "done"
  <2>1. reach' = reach /\ (reach = Nothing \/ Get(reach) = IdleReach(impl, B)) /\ IsReach(reach, B)
    BY <1>1, <1>4 DEF SearchInv
  <2>2. reach \in {Nothing, Some(IdleReach(impl, B))}
    <3>1. CASE reach = Nothing
      BY <3>1
    <3>2. ASSUME NEW x, reach = Some(x) PROVE reach \in {Nothing, Some(IdleReach(impl, B))}
      <4>1. CASE Get(reach) = IdleReach(impl, B)
        BY <3>2, <4>1 DEF Get, Some
      <4> QED BY <2>1, <4>1
    <3> QED BY <2>1, <3>1, <3>2 DEF IsReach
  <2>3. reach' \in {Nothing, Some(IdleReach(impl, B))}'
    BY <1>1, <1>2, <2>1, <2>2
  <2>4. \A job \in Range(B.jobs) : DoneWith(job)
    BY <1>1 DEF SearchInv, Range
  <2>5. \A job : DoneWith(job) => DoneWith(job)'
    BY <1>1, <2>1, SettledStays
  <2>6. \A job \in Range(B.jobs)' : DoneWith(job)'
    BY <1>2, <2>4, <2>5
  <2> QED BY <1>1, <1>2, <1>4, <2>1, <2>3, <2>6 DEF SearchInv
<1> QED BY <1>1, <1>3, <1>4

(* The stack without its top, and with the ways on from it put back.       *)
LEMMA StackParts ==
  ASSUME NEW S, NEW st \in Seq(S), st # <<>>
  PROVE  /\ Last(st) \in S /\ Front(st) \in Seq(S) /\ Len(Front(st)) = Len(st) - 1
         /\ Range(st) \subseteq Range(Front(st)) \cup {Last(st)}
<1>1. Len(st) \in Nat \ {0} /\ DOMAIN st = 1 .. Len(st) /\ Last(st) = st[Len(st)]
  BY DEF Last
<1>2. Front(st) = [i \in 1 .. Len(st) - 1 |-> st[i]]
  BY <1>1 DEF Front
<1>3. Front(st) \in Seq(S) /\ Len(Front(st)) = Len(st) - 1 /\ DOMAIN Front(st) = 1 .. Len(st) - 1
  BY <1>1, <1>2
<1>4. ASSUME NEW i \in 1 .. Len(st) PROVE st[i] \in Range(Front(st)) \cup {Last(st)}
  <2>1. CASE i = Len(st)
    BY <1>1, <2>1
  <2>2. CASE i # Len(st)
    <3>1. i \in 1 .. Len(st) - 1
      <4>1. i \in Int /\ 1 <= i /\ i <= Len(st) /\ Len(st) \in Int
        BY <1>1
      <4> QED BY <2>2, <4>1
    <3>2. Front(st)[i] = st[i]
      BY <1>2, <3>1
    <3> QED BY <1>3, <3>1, <3>2 DEF Range
  <2> QED BY <2>1, <2>2
<1>5. Last(st) \in S
  BY <1>1
<1> QED BY <1>1, <1>3, <1>4, <1>5 DEF Range

Tried(splits, ways) == [i \in 1 .. ways |-> Append(splits, i - 1)]

LEMMA WaysPutBack ==
  ASSUME NEW rest \in Seq(Seq(Nat)), NEW splits \in Seq(Nat), NEW ways \in Nat
  PROVE  LET all == rest \o Tried(splits, ways)
         IN  /\ all \in Seq(Seq(Nat)) /\ Len(all) = Len(rest) + ways
             /\ Range(all) = Range(rest) \cup {Append(splits, i - 1) : i \in 1 .. ways}
<1>1. \A i \in 1 .. ways : Append(splits, i - 1) \in Seq(Nat)
  <2> TAKE i \in 1 .. ways
  <2>1. i - 1 \in Nat
    OBVIOUS
  <2> QED BY <2>1
<1>2. PICK tried : tried = Tried(splits, ways)
  OBVIOUS
<1>3. /\ tried \in Seq(Seq(Nat)) /\ Len(tried) = ways /\ DOMAIN tried = 1 .. ways
      /\ \A i \in 1 .. ways : tried[i] = Append(splits, i - 1)
  BY <1>1, <1>2 DEF Tried
<1>4. Range(tried) = {Append(splits, i - 1) : i \in 1 .. ways}
  BY <1>3 DEF Range
<1>5. Range(rest \o tried) = Range(rest) \cup Range(tried)
  BY <1>3, RangeConcatenation
<1>6. rest \o tried \in Seq(Seq(Nat)) /\ Len(rest \o tried) = Len(rest) + ways
  BY <1>3, ConcatProperties
<1> QED BY <1>2, <1>4, <1>5, <1>6

(* What one walk may take, out of what is left.                            *)
LEMMA AllowedIsLeft ==
  ASSUME program \in DOMAIN Programs, budget \in Nat
  PROVE  Allowed \in Nat /\ Allowed <= budget
<1> DEFINE S == {B.limits.steps, budget} \cup IF late THEN {B.limits.clock - 1} ELSE {}
<1>1. S \subseteq Nat /\ budget \in S
  BY LimitsAreCounts
<1>2. Min(S) \in S /\ \A y \in S : Min(S) <= y
  BY <1>1, MinIsLeast
<1> QED BY <1>1, <1>2 DEF Allowed

(* The search goes on after a walk that forked or ended: the splits it     *)
(* went down have been walked.                                             *)
LEMMA OneMoreWalked ==
  ASSUME NEW job, NEW splits \in Seq(Nat), NEW steps \in Nat, NEW rest, NEW open, rest \subseteq open,
         program' = program, reach' = reach, impl \subseteq impl', plant \subseteq plant',
         sites \subseteq sites', paths \subseteq paths', Explored(job, rest \cup {splits}),
         NEW w, w = WalkOf(job, splits, reach, steps, B),
         \/ IsFork(w) /\ Len(splits) < B.limits.splits /\ Ways(splits, w) \subseteq open
         \/ HasEnded(w) /\ Written(job, w)'
  PROVE  Explored(job, open)'
<1>1. B' = B
  BY DEF B
<1>2. PICK X \in SUBSET Seq(Nat) : <<>> \in X \cup (rest \cup {splits}) /\ WalkedOut(X, rest \cup {splits}, job)
  BY DEF Explored
<1>3. PICK Y : Y = X \cup {splits}
  OBVIOUS
<1>4. \A v : Written(job, v) => Written(job, v)'
  BY <1>1 DEF Written
<1>5. \A one, n : WalkOf(job, one, reach, n, B)' = WalkOf(job, one, reach, n, B)
  BY <1>1
<1>6. ASSUME NEW one \in Y
      PROVE  (\E n \in Nat : LET v == WalkOf(job, one, reach, n, B)
                             IN  \/ IsFork(v) /\ Len(one) < B.limits.splits /\ Ways(one, v) \subseteq Y \cup open
                                 \/ HasEnded(v) /\ Written(job, v))'
  <2>1. CASE one = splits
    BY <1>1, <1>5, <2>1
  <2>2. CASE one # splits
    <3>1. one \in X
      BY <1>3, <2>2
    <3>2. PICK n \in Nat :
             LET v == WalkOf(job, one, reach, n, B)
             IN  \/ IsFork(v) /\ Len(one) < B.limits.splits /\ Ways(one, v) \subseteq X \cup (rest \cup {splits})
                 \/ HasEnded(v) /\ Written(job, v)
      BY <1>2, <3>1 DEF WalkedOut
    <3>3. X \cup (rest \cup {splits}) \subseteq Y \cup open
      BY <1>3
    <3> QED BY <1>1, <1>4, <1>5, <3>2, <3>3
  <2> QED BY <2>1, <2>2
<1>7. WalkedOut(Y, open, job)'
  BY <1>6 DEF WalkedOut
<1>8. Y \in SUBSET Seq(Nat) /\ <<>> \in Y \cup open
  BY <1>2, <1>3
<1> QED BY <1>7, <1>8 DEF Explored

LEMMA SearchWalks ==
  ASSUME WalksAreCounted, SearchInv, WalkOnce
  PROVE  SearchInv'
<1>0. PICK job, splits, steps, w :
         /\ job = Head(todo) /\ splits = Last(stack) /\ steps = Allowed
         /\ w = WalkOf(job, splits, reach, steps, B)
  OBVIOUS
<1>1. /\ program' = program /\ phase = "walk" /\ phase' = phase /\ todo' = todo /\ reach' = reach
      /\ todo # <<>> /\ stack # <<>> /\ budget' = budget - Min({w.n, steps})
  BY <1>0 DEF WalkOnce
<1>2. B' = B /\ program \in DOMAIN Programs /\ IsReach(reach, B) /\ budget \in Nat
      /\ todo \in Seq(Range(B.jobs)) /\ stack \in Seq(Seq(Nat))
      /\ (CutOff(job) \/ Explored(job, Range(stack)))
  BY <1>0, <1>1 DEF B, SearchInv
<1>3. job \in Range(B.jobs)
  BY <1>0, <1>1, <1>2
<1>4. splits \in Seq(Nat) /\ Front(stack) \in Seq(Seq(Nat))
      /\ Range(stack) \subseteq Range(Front(stack)) \cup {splits}
  BY <1>0, <1>1, <1>2, StackParts
<1>5. steps \in Nat /\ steps <= budget
  BY <1>0, <1>2, AllowedIsLeft
<1>6. w.n \in Nat /\ (IsFork(w) => w.status[2] \in Nat)
  BY <1>0, <1>2, <1>3, <1>4, <1>5 DEF WalksAreCounted, B
<1>7. budget' \in Nat
  <2>1. {w.n, steps} \subseteq Nat
    BY <1>5, <1>6
  <2>2. Min({w.n, steps}) \in {w.n, steps} /\ Min({w.n, steps}) <= steps
    BY <2>1, MinIsLeast
  <2>3. Min({w.n, steps}) \in Nat
    BY <2>1, <2>2
  <2> QED BY <1>1, <1>2, <1>5, <2>2, <2>3
<1>8. refused \subseteq refused' /\ impl \subseteq impl' /\ plant \subseteq plant'
      /\ sites \subseteq sites' /\ paths \subseteq paths'
  BY DEF WalkOnce, CutShort, built
<1>9. \A some : (CutOff(some) => CutOff(some)') /\ (DoneWith(some) => DoneWith(some)')
  BY <1>1, <1>8, SettledStays
<1>10. stack' \in Seq(Seq(Nat)) /\ ((CutOff(job))' \/ (Explored(job, Range(stack)))')
  <2>1. CASE w.status[1] = "refused"
    <3>1. stack' = <<>> /\ refused' = refused \cup {<<"walk", job[1].sig>>}
      BY <1>0, <2>1 DEF WalkOnce, CutShort
    <3>2. CutOff(job)'
      BY <3>1 DEF CutOff
    <3> QED BY <3>1, <3>2
  <2>2. CASE IsFork(w)
    <3>1. /\ built' = built
          /\ IF Len(splits) >= B.limits.splits \/ forks' > B.limits.forks
             THEN stack' = <<>> /\ refused' = refused \cup {<<"forks", job[1].sig>>}
             ELSE stack' = Front(stack) \o Tried(splits, w.status[2])
      BY <1>0, <2>2 DEF WalkOnce, CutShort, IsFork, Tried
    <3>2. CASE Len(splits) >= B.limits.splits \/ forks' > B.limits.forks
      <4>1. stack' = <<>> /\ refused' = refused \cup {<<"forks", job[1].sig>>}
        BY <3>1, <3>2
      <4>2. CutOff(job)'
        BY <4>1 DEF CutOff
      <4> QED BY <4>1, <4>2
    <3>3. CASE ~(Len(splits) >= B.limits.splits \/ forks' > B.limits.forks)
      <4>1. stack' = Front(stack) \o Tried(splits, w.status[2])
        BY <3>1, <3>3
      <4>2. w.status[2] \in Nat
        BY <1>6, <2>2
      <4>3. stack' \in Seq(Seq(Nat)) /\ Range(stack') = Range(Front(stack)) \cup Ways(splits, w)
        <5>1. PICK rest \in Seq(Seq(Nat)) : rest = Front(stack)
          BY <1>4
        <5>2. PICK ways \in Nat : ways = w.status[2]
          BY <4>2
        <5>3. stack' = rest \o Tried(splits, ways)
          BY <4>1, <5>1, <5>2
        <5>4. Ways(splits, w) = {Append(splits, i - 1) : i \in 1 .. ways}
          BY <5>2 DEF Ways
        <5>5. stack' \in Seq(Seq(Nat)) /\ Range(stack') = Range(rest) \cup Ways(splits, w)
          BY <1>4, <5>3, <5>4, WaysPutBack
        <5> QED BY <5>1, <5>5
      <4>4. Len(splits) < B.limits.splits
        <5>1. Len(splits) \in Nat /\ B.limits.splits \in Nat
          BY <1>2, <1>4, LimitsAreCounts
        <5> QED BY <3>3, <5>1
      <4>5. CASE CutOff(job)
        BY <1>9, <4>3, <4>5
      <4>6. CASE Explored(job, Range(stack))
        <5>1. Explored(job, Range(Front(stack)) \cup {splits})
          BY <1>4, <4>6 DEF Explored, WalkedOut
        <5>2. Ways(splits, w) \subseteq Range(stack') /\ Range(Front(stack)) \subseteq Range(stack')
          BY <4>3
        <5>3. Explored(job, Range(stack))'
          BY <1>0, <1>1, <1>4, <1>5, <1>8, <2>2, <4>4, <5>1, <5>2, OneMoreWalked
        <5> QED BY <4>3, <5>3
      <4> QED BY <1>2, <4>5, <4>6
    <3> QED BY <3>2, <3>3
  <2>3. CASE HasEnded(w)
    <3>1. /\ stack' = Front(stack)
          /\ paths' = paths \cup {PathOf(job[1], job[2], job[3], w, B)}
          /\ impl' = impl \cup ImplOf(job[1], job[2], job[3], w, B)
          /\ plant' = plant \cup PlantOf(job[1], job[2], job[3], w, B)
          /\ sites' = sites \cup SitesOf(job[1], job[2], job[3], w)
      BY <1>0, <2>3 DEF WalkOnce, HasEnded
    <3>2. Written(job, w)'
      BY <1>2, <3>1 DEF Written
    <3>3. CASE CutOff(job)
      BY <1>4, <1>9, <3>1, <3>3
    <3>4. CASE Explored(job, Range(stack))
      <4>1. Explored(job, Range(Front(stack)) \cup {splits})
        BY <1>4, <3>4 DEF Explored, WalkedOut
      <4>2. Explored(job, Range(stack))'
        BY <1>0, <1>1, <1>4, <1>5, <1>8, <2>3, <3>1, <3>2, <4>1, OneMoreWalked
      <4> QED BY <1>4, <3>1, <4>2
    <3> QED BY <1>2, <3>3, <3>4
  <2> QED BY <2>1, <2>2, <2>3 DEF IsFork, HasEnded
<1>11. (todo # <<>> => CutOff(Head(todo)) \/ Explored(Head(todo), Range(stack)))'
  BY <1>0, <1>1, <1>10
<1>12. \A some \in Range(B.jobs) : DoneWith(some)' \/ some \in Range(todo)
  BY <1>1, <1>9 DEF SearchInv
<1> QED BY <1>1, <1>2, <1>7, <1>10, <1>11, <1>12 DEF SearchInv

LEMMA SearchWaits ==
  ASSUME SearchInv, MinuteIsOver \/ UNCHANGED vars
  PROVE  SearchInv'
<1>1. /\ program' = program /\ phase' = phase /\ reach' = reach /\ budget' = budget /\ stack' = stack
      /\ todo' = todo /\ refused' = refused /\ impl' = impl /\ plant' = plant /\ sites' = sites /\ paths' = paths
  BY DEF MinuteIsOver, vars, built
<1>2. B' = B
  BY <1>1 DEF B
<1>3. \A job : (CutOff(job) => CutOff(job)') /\ (DoneWith(job) => DoneWith(job)')
  BY <1>1, SettledStays
<1>4. todo # <<>> /\ phase = "walk" => CutOff(Head(todo))' \/ Explored(Head(todo), Range(stack))'
  <2>1. PICK job, open : job = Head(todo) /\ open = Range(stack)
    OBVIOUS
  <2>2. (CutOff(job) => CutOff(job)') /\ (Explored(job, open) => Explored(job, open)')
    BY <1>1, SettledStays
  <2>3. todo # <<>> /\ phase = "walk" => CutOff(job) \/ Explored(job, open)
    BY <2>1 DEF SearchInv
  <2>4. job = Head(todo)' /\ open = Range(stack)'
    BY <1>1, <2>1
  <2> QED BY <2>2, <2>3, <2>4
<1>5. phase = "walk" => \A job \in Range(B.jobs) : DoneWith(job)' \/ job \in Range(todo)
  BY <1>3 DEF SearchInv
<1>6. phase = "done" => \A job \in Range(B.jobs) : DoneWith(job)'
  BY <1>3 DEF SearchInv
<1>7. phase = "done" => reach \in {Nothing, Some(IdleReach(impl, B))}
  BY DEF SearchInv
<1>8. /\ program \in DOMAIN Programs /\ phase \in {"round", "walk", "done"} /\ IsReach(reach, B)
      /\ budget \in Nat /\ stack \in Seq(Seq(Nat)) /\ todo \in Seq(Range(B.jobs))
  BY DEF SearchInv
<1> QED BY <1>1, <1>2, <1>4, <1>5, <1>6, <1>7, <1>8 DEF SearchInv

LEMMA SearchStep ==
  ASSUME WalksAreCounted
  PROVE  SearchInv /\ [Next]_vars => SearchInv'
<1> SUFFICES ASSUME SearchInv, [Next]_vars PROVE SearchInv'
  OBVIOUS
<1>1. CASE BeginRound
  BY <1>1, SearchBegins
<1>2. CASE WalkOnce
  BY <1>2, SearchWalks
<1>3. CASE NextJob
  BY <1>3, SearchGoesOn
<1>4. CASE EndRound
  BY <1>4, SearchEnds
<1>5. CASE MinuteIsOver \/ UNCHANGED vars
  BY <1>5, SearchWaits
<1> QED BY <1>1, <1>2, <1>3, <1>4, <1>5 DEF Next

(* However the walks fork: every job of a round that is over was cut, or   *)
(* was walked down every way of every fork (Walk::run, model.rs).          *)
LEMMA SearchAlways ==
  ASSUME WalksAreCounted
  PROVE  Spec => []SearchInv
<1> QED BY SearchInit, SearchStep, PTL DEF Spec

(* Of the splits of an execution that were walked, the longest lead to an  *)
(* end: a fork would have a longer one.                                    *)
LEMMA LongestEnds ==
  ASSUME program \in DOMAIN Programs, NEW job,
         Explored(job, {}), NEW taken, GoesBy(taken, job, reach)
  PROVE  \E splits \in taken, steps \in Nat :
            LET w == WalkOf(job, splits, reach, steps, B) IN HasEnded(w) /\ Written(job, w)
<1>1. PICK X \in SUBSET Seq(Nat) : <<>> \in X /\ WalkedOut(X, {}, job)
  BY DEF Explored
<1>2. B.limits.splits \in Nat
  BY LimitsAreCounts
<1> DEFINE Ended1(splits, steps) == LET w == WalkOf(job, splits, reach, steps, B) IN HasEnded(w) /\ Written(job, w)
           Lengths == {Len(splits) : splits \in X \cap taken}
<1>3. SUFFICES ASSUME \A splits \in taken, steps \in Nat : ~Ended1(splits, steps) PROVE FALSE
  OBVIOUS
<1>4. \A splits \in X \cap taken : \E steps \in Nat :
         LET w == WalkOf(job, splits, reach, steps, B)
         IN  IsFork(w) /\ Len(splits) < B.limits.splits /\ Ways(splits, w) \subseteq X
  BY <1>1, <1>3 DEF WalkedOut
<1>5. Lengths \subseteq 0 .. B.limits.splits /\ Lengths # {}
  <2>1. <<>> \in X \cap taken
    BY <1>1 DEF GoesBy
  <2>2. \A splits \in X \cap taken : Len(splits) \in 0 .. B.limits.splits
    <3> TAKE splits \in X \cap taken
    <3>1. Len(splits) \in Nat
      BY <1>1
    <3>2. Len(splits) < B.limits.splits
      BY <1>4
    <3> QED BY <1>2, <3>1, <3>2
  <2> QED BY <2>1, <2>2
<1>6. Max(Lengths) \in Lengths /\ \A n \in Lengths : n <= Max(Lengths)
  BY <1>2, <1>5, MaxIsGreatest
<1>7. PICK splits \in X \cap taken : Len(splits) = Max(Lengths)
  BY <1>6
<1>8. PICK steps \in Nat :
         LET w == WalkOf(job, splits, reach, steps, B) IN IsFork(w) /\ Ways(splits, w) \subseteq X
  BY <1>4
<1>9. PICK w : w = WalkOf(job, splits, reach, steps, B)
  OBVIOUS
<1>10. IsFork(w) /\ Ways(splits, w) \subseteq X /\ Ways(splits, w) \cap taken # {}
  BY <1>7, <1>8, <1>9 DEF GoesBy
<1>11. PICK i : Append(splits, i) \in X \cap taken
  BY <1>10 DEF Ways
<1>12. Len(Append(splits, i)) = Len(splits) + 1 /\ Len(splits) \in Nat
  BY <1>1, <1>7
<1>13. Len(Append(splits, i)) <= Len(splits)
  BY <1>6, <1>7, <1>11
<1> QED BY <1>12, <1>13

LEMMA SearchedIsWritten == WalksAreCounted /\ SearchInv => ExecutionsAreWritten
<1> SUFFICES ASSUME WalksAreCounted, SearchInv, phase = "done" PROVE ExecutionsAreWritten
  BY DEF ExecutionsAreWritten
<1>1. program \in DOMAIN Programs /\ reach \in {Nothing, Some(IdleReach(impl, B))}
  BY DEF SearchInv
<1>2. ASSUME NEW job \in Range(B.jobs), ~CutOff(job), NEW taken \in SUBSET Seq(Nat), GoesBy(taken, job, reach)
      PROVE  \E splits \in taken, steps \in Nat :
                LET w == WalkOf(job, splits, reach, steps, B) IN HasEnded(w) /\ Written(job, w)
  <2>1. Explored(job, {})
    BY <1>2 DEF SearchInv, DoneWith
  <2> QED BY <1>1, <1>2, <2>1, LongestEnds
<1> QED BY <1>1, <1>2 DEF ExecutionsAreWritten

(* Nothing the search leaves behind on its stack, at a limit or between two*)
(* rounds is lost: when a contract's build is over, every execution of     *)
(* every job not reported as cut is on a path that is in the models,       *)
(* walked under what these very models let a callee do or under anything   *)
(* (Walk::run and Builder::build, model.rs).                               *)
THEOREM ExecutionsAlwaysWritten ==
  ASSUME WalksAreCounted
  PROVE  Spec => []ExecutionsAreWritten
<1>1. SearchInv => ExecutionsAreWritten
  BY SearchedIsWritten
<1> QED BY <1>1, SearchAlways, PTL

-----------------------------------------------------------------------------
(* What is left of a build, from what changes last to what changes first.  *)
StillToCome ==
    <<IF late THEN 0 ELSE 1,
      B.limits.rounds + 1 - round,
      IF phase = "walk" THEN 1 ELSE 0,
      Len(todo),
      B.limits.forks + 1 - forks,
      Len(stack)>>

Below(m, n) == \E i \in 1 .. 6 : m[i] < n[i] /\ \A j \in 1 .. i - 1 : m[j] = n[j]

LeftIsCounted == \A i \in 1 .. 6 : StillToCome[i] \in Nat

RankFalls == Below(StillToCome', StillToCome)

(* A step lowers the first of six numbers that it changes.                 *)
LessStillToCome == LeftIsCounted /\ LeftIsCounted' /\ RankFalls

RoundsInv ==
  /\ round \in 0 .. B.limits.rounds + 1
  /\ phase = "round" \/ (phase = "walk" /\ reach # Nothing) => round <= B.limits.rounds
  /\ forks \in 0 .. B.limits.forks + 1
  /\ stack # <<>> => forks <= B.limits.forks
  /\ late \in BOOLEAN

LEMMA RoundsInit == Init => RoundsInv
<1> SUFFICES ASSUME Init PROVE RoundsInv
  OBVIOUS
<1>1. program \in DOMAIN Programs /\ round = 0 /\ forks = 0 /\ stack = <<>> /\ late = FALSE
  BY DEF Init
<1>2. B.limits.rounds \in Nat /\ B.limits.forks \in Nat
  BY <1>1, LimitsAreCounts
<1>3. round \in 0 .. B.limits.rounds + 1 /\ round <= B.limits.rounds /\ forks \in 0 .. B.limits.forks + 1
      /\ forks <= B.limits.forks
  BY <1>1, <1>2
<1> QED BY <1>1, <1>3 DEF RoundsInv

(* Each of the six numbers, by itself.                                     *)
LEMMA LeftCounted ==
  ASSUME SearchInv, RoundsInv
  PROVE  LeftIsCounted
<1>1. B.limits.rounds \in Nat /\ B.limits.forks \in Nat
  BY LimitsAreCounts DEF SearchInv
<1>2. B.limits.rounds + 1 - round \in Nat /\ B.limits.forks + 1 - forks \in Nat
  BY <1>1 DEF RoundsInv
<1>3. Len(todo) \in Nat /\ Len(stack) \in Nat
  BY DEF SearchInv
<1> QED BY <1>2, <1>3 DEF StillToCome, LeftIsCounted

LEMMA BeginRank ==
  ASSUME SearchInv, RoundsInv, BeginRound
  PROVE  RoundsInv' /\ RankFalls
<1>1. /\ program' = program /\ phase = "round" /\ phase' = "walk" /\ round' = round + 1 /\ late' = late
      /\ forks' = 0
      /\ reach' = IF reach # Nothing /\ (late \/ round = B.limits.rounds) THEN Nothing ELSE reach
  BY DEF BeginRound, Begin
<1>2. B' = B /\ B.limits.rounds \in Nat /\ B.limits.forks \in Nat
  BY <1>1, LimitsAreCounts DEF B, SearchInv
<1>3. round \in Nat /\ round <= B.limits.rounds /\ late \in BOOLEAN
  BY <1>1, <1>2 DEF RoundsInv
<1>4. reach' # Nothing => round' <= B.limits.rounds
  BY <1>1, <1>2, <1>3
<1>5. RoundsInv'
  BY <1>1, <1>2, <1>3, <1>4 DEF RoundsInv
<1>6. StillToCome'[1] = StillToCome[1] /\ StillToCome'[2] < StillToCome[2]
  BY <1>1, <1>2, <1>3 DEF StillToCome
<1> QED BY <1>5, <1>6 DEF RankFalls, Below

LEMMA NextJobRank ==
  ASSUME SearchInv, RoundsInv, NextJob
  PROVE  RoundsInv' /\ RankFalls
<1>1. /\ program' = program /\ phase' = phase /\ round' = round /\ late' = late /\ forks' = 0
      /\ reach' = reach /\ todo # <<>> /\ todo' = Tail(todo)
  BY DEF NextJob
<1>2. B' = B /\ B.limits.forks \in Nat
  BY <1>1, LimitsAreCounts DEF B, SearchInv
<1>3. RoundsInv'
  BY <1>1, <1>2 DEF RoundsInv
<1>4. Len(todo') < Len(todo)
  <2>1. todo \in Seq(Range(B.jobs))
    BY DEF SearchInv
  <2>2. Len(todo') = Len(todo) - 1 /\ Len(todo) \in Nat
    BY <1>1, <2>1, HeadTailProperties
  <2> QED BY <2>2
<1>5. /\ StillToCome'[1] = StillToCome[1] /\ StillToCome'[2] = StillToCome[2]
      /\ StillToCome'[3] = StillToCome[3] /\ StillToCome'[4] < StillToCome[4]
  BY <1>1, <1>2, <1>4 DEF StillToCome
<1> QED BY <1>3, <1>5 DEF RankFalls, Below

LEMMA EndRank ==
  ASSUME SearchInv, RoundsInv, EndRound
  PROVE  RoundsInv' /\ RankFalls
<1>1. /\ program' = program /\ round' = round /\ late' = late /\ forks' = forks /\ stack' = stack
      /\ phase = "walk" /\ phase' \in {"round", "done"} /\ (phase' = "round" => reach # Nothing)
  BY DEF EndRound
<1>2. B' = B
  BY <1>1 DEF B
<1>3. RoundsInv'
  BY <1>1, <1>2 DEF RoundsInv
<1>4. /\ StillToCome'[1] = StillToCome[1] /\ StillToCome'[2] = StillToCome[2]
      /\ StillToCome'[3] < StillToCome[3]
  BY <1>1, <1>2 DEF StillToCome
<1> QED BY <1>3, <1>4 DEF RankFalls, Below

LEMMA MinuteRank ==
  ASSUME SearchInv, RoundsInv, MinuteIsOver
  PROVE  RoundsInv' /\ RankFalls
<1>1. /\ program' = program /\ round' = round /\ ~late /\ late' = TRUE /\ forks' = forks /\ stack' = stack
      /\ phase' = phase /\ reach' = reach
  BY DEF MinuteIsOver
<1>2. B' = B
  BY <1>1 DEF B
<1>3. RoundsInv'
  BY <1>1, <1>2 DEF RoundsInv
<1>4. StillToCome'[1] < StillToCome[1]
  BY <1>1 DEF StillToCome
<1> QED BY <1>3, <1>4 DEF RankFalls, Below

LEMMA WalkRank ==
  ASSUME SearchInv, RoundsInv, WalkOnce
  PROVE  RoundsInv' /\ RankFalls
<1>1. /\ program' = program /\ round' = round /\ late' = late /\ phase' = phase /\ reach' = reach
      /\ todo' = todo /\ stack # <<>>
  BY DEF WalkOnce
<1>2. B' = B /\ B.limits.forks \in Nat /\ stack \in Seq(Seq(Nat))
  BY <1>1, LimitsAreCounts DEF B, SearchInv
<1>3. forks \in Nat /\ forks <= B.limits.forks
  BY <1>1, <1>2 DEF RoundsInv
<1>4. \/ forks' = forks /\ stack' \in {<<>>, Front(stack)}
      \/ forks' = forks + 1 /\ (stack' = <<>> \/ ~(forks' > B.limits.forks))
  BY DEF WalkOnce
<1>5. forks' \in 0 .. B.limits.forks + 1 /\ (stack' # <<>> => forks' <= B.limits.forks)
  BY <1>2, <1>3, <1>4
<1>6. RoundsInv'
  BY <1>1, <1>2, <1>5 DEF RoundsInv
<1>7. /\ StillToCome'[1] = StillToCome[1] /\ StillToCome'[2] = StillToCome[2]
      /\ StillToCome'[3] = StillToCome[3] /\ StillToCome'[4] = StillToCome[4]
  BY <1>1, <1>2 DEF StillToCome
<1>8. CASE forks' = forks + 1
  <2>1. StillToCome'[5] < StillToCome[5]
    BY <1>2, <1>3, <1>8 DEF StillToCome
  <2> QED BY <1>6, <1>7, <2>1 DEF RankFalls, Below
<1>9. CASE forks' = forks /\ stack' \in {<<>>, Front(stack)}
  <2>1. Len(stack') < Len(stack)
    <3>1. Len(stack) \in Nat \ {0} /\ Len(Front(stack)) = Len(stack) - 1
      <4>1. Len(Front(stack)) = Len(stack) - 1
        BY <1>1, <1>2, StackParts
      <4>2. Len(stack) \in Nat \ {0}
        BY <1>1, <1>2
      <4> QED BY <4>1, <4>2
    <3>2. Len(stack') \in {0, Len(stack) - 1}
      BY <1>9, <3>1
    <3> QED BY <3>1, <3>2
  <2>2. StillToCome'[5] = StillToCome[5] /\ StillToCome'[6] < StillToCome[6]
    BY <1>2, <1>9, <2>1 DEF StillToCome
  <2> QED BY <1>6, <1>7, <2>2 DEF RankFalls, Below
<1> QED BY <1>4, <1>8, <1>9

LEMMA RoundsStep ==
  ASSUME SearchInv, RoundsInv, [Next]_vars
  PROVE  RoundsInv' /\ (vars' = vars \/ RankFalls)
<1>1. CASE UNCHANGED vars
  <2>1. /\ program' = program /\ round' = round /\ late' = late /\ forks' = forks /\ stack' = stack
        /\ phase' = phase /\ reach' = reach
    BY <1>1 DEF vars
  <2>2. B' = B
    BY <2>1 DEF B
  <2> QED BY <1>1, <2>1, <2>2 DEF RoundsInv
<1>2. CASE Next
  BY <1>2, BeginRank, WalkRank, NextJobRank, EndRank, MinuteRank DEF Next
<1> QED BY <1>1, <1>2

(* Every step of a build lowers the first of six natural numbers that it   *)
(* changes: the order of such tuples is well founded, so no contract and   *)
(* no way of walking it keeps the builder going for ever (model.rs).       *)
THEOREM BuildingAlwaysProgresses ==
  ASSUME WalksAreCounted
  PROVE  Spec => [][LessStillToCome]_vars
<1>1. SearchInv /\ RoundsInv /\ [Next]_vars => RoundsInv' /\ [RankFalls]_vars
  BY RoundsStep
<1>2. SearchInv /\ RoundsInv => LeftIsCounted
  BY LeftCounted
<1>3. [RankFalls]_vars /\ LeftIsCounted /\ LeftIsCounted' => [LessStillToCome]_vars
  BY DEF LessStillToCome
<1>4. Spec => []SearchInv
  BY SearchAlways
<1>5. Spec => [](SearchInv /\ RoundsInv)
  BY <1>1, <1>4, RoundsInit, PTL DEF Spec
<1>6. Spec => []LeftIsCounted
  BY <1>2, <1>5, PTL
<1>7. Spec => [][RankFalls]_vars
  BY <1>1, <1>5, PTL DEF Spec
<1> QED BY <1>3, <1>6, <1>7, PTL

-----------------------------------------------------------------------------
(* Order facts under a meaning: an edge that is true of the words its two  *)
(* terms mean.                                                             *)
EdgeHolds(e, m) == IF e[3] THEN m[e[1]] < m[e[2]] ELSE m[e[1]] <= m[e[2]]
Fits(edges, m, T) == \A e \in edges : e[1] \in T /\ e[2] \in T /\ EdgeHolds(e, m)
Sound(m, T) == IsTermSet(T) /\ IsMeaning(m, T)

LEMMA MeaningIsWord ==
  ASSUME NEW T, NEW m, Sound(m, T), NEW t \in T
  PROVE  m[t] \in Int /\ 0 <= m[t] /\ m[t] <= MaxWord /\ MaxWord \in Nat
<1>1. MaxWord \in Int
  BY WAssumption DEF MaxWord
<1>2. m[t] \in 0 .. MaxWord
  BY DEF Sound, IsMeaning, Word
<1> QED BY <1>1, <1>2

LEMMA TermsOfFitting ==
  ASSUME NEW T, NEW m, NEW edges, Fits(edges, m, T)
  PROVE  EdgeTerms(edges) \subseteq T
BY DEF Fits, EdgeTerms

(* A sum is above a part of it that leaves room for the other.             *)
LEMMA SumsFit ==
  ASSUME NEW T, NEW m, Sound(m, T), NEW edges, Fits(edges, m, T)
  PROVE  Fits(SumEdges(edges), m, T)
<1> SUFFICES ASSUME NEW e \in SumEdges(edges)
             PROVE  e[1] \in T /\ e[2] \in T /\ EdgeHolds(e, m)
  BY DEF Fits
<1>1. PICK s \in EdgeTerms(edges) :
        /\ IsCallOf(s, "add", 2)
        /\ \E j \in 1 .. 2 :
             /\ IsLit(s[3][3 - j]) /\ s[3][3 - j][2] > 0
             /\ RoomFor(s[3][j], s[3][3 - j][2], edges)
             /\ e = <<s[3][j], s, TRUE>>
  BY DEF SumEdges
<1>2. PICK j \in 1 .. 2 :
        /\ IsLit(s[3][3 - j]) /\ s[3][3 - j][2] > 0
        /\ RoomFor(s[3][j], s[3][3 - j][2], edges)
        /\ e = <<s[3][j], s, TRUE>>
  BY <1>1
<1>3. s \in T /\ s[3][1] \in T /\ s[3][2] \in T
  BY <1>1, TermsOfFitting DEF Sound, IsTermSet, ArgsIn
<1>4. PICK x \in T, l \in T : x = s[3][j] /\ l = s[3][3 - j]
  <2>1. j = 1 \/ j = 2
    OBVIOUS
  <2>2. CASE j = 1
    BY <1>3, <2>2
  <2>3. CASE j = 2
    BY <1>3, <2>3
  <2> QED BY <2>1, <2>2, <2>3
<1>5. IsLit(l) /\ l[2] > 0 /\ RoomFor(x, l[2], edges) /\ e = <<x, s, TRUE>>
  BY <1>2, <1>4, Zenon
<1>6. m[l] = l[2]
  BY <1>5 DEF Sound, IsMeaning
<1>7. m[s] = Wrapped(m[x] + m[l])
  <2>1. m[s] = Wrapped(m[s[3][1]] + m[s[3][2]])
    BY <1>1, <1>3 DEF Sound, IsMeaning
  <2>2. m[s[3][1]] \in Int /\ m[s[3][2]] \in Int
    BY <1>3, MeaningIsWord
  <2>3. m[s[3][1]] + m[s[3][2]] = m[x] + m[l]
    <3>1. CASE j = 1
      BY <3>1, <1>4
    <3>2. CASE j = 2
      <4>1. x = s[3][2] /\ l = s[3][1]
        BY <3>2, <1>4
      <4> QED BY <4>1, <2>2
    <3> QED BY <3>1, <3>2
  <2> QED BY <2>1, <2>3
<1>8. m[x] <= Min(LiteralBounds(x, edges)) /\ Min(LiteralBounds(x, edges)) \in Nat
  <2>1. \A b \in LiteralBounds(x, edges) : b \in Nat /\ m[x] <= b
    <3> SUFFICES ASSUME NEW f \in edges, f[1] = x, IsLit(f[2])
                 PROVE  f[2][2] \in Nat /\ m[x] <= f[2][2]
      BY DEF LiteralBounds
    <3>1. f[2] \in T /\ EdgeHolds(f, m)
      BY DEF Fits
    <3>2. m[f[2]] = f[2][2]
      BY <3>1 DEF Sound, IsMeaning
    <3>3. m[f[2]] \in Nat /\ m[x] \in Int
      BY <3>1, MeaningIsWord
    <3> QED BY <3>1, <3>2, <3>3 DEF EdgeHolds
  <2>2. LiteralBounds(x, edges) # {}
    BY <1>5 DEF RoomFor
  <2>3. LiteralBounds(x, edges) \subseteq Nat
    BY <2>1
  <2>4. Min(LiteralBounds(x, edges)) \in LiteralBounds(x, edges)
    BY <2>2, <2>3, MinIsLeast
  <2> QED BY <2>1, <2>4
<1>9. /\ m[x] \in Int /\ m[l] \in Int /\ MaxWord \in Nat
      /\ 0 <= m[x] /\ 0 < m[l] /\ m[x] + m[l] <= MaxWord
  <2>1. m[x] \in Int /\ m[l] \in Int /\ MaxWord \in Nat /\ 0 <= m[x]
    BY MeaningIsWord
  <2>2. MaxWord - Min(LiteralBounds(x, edges)) >= m[l]
    BY <1>5, <1>6 DEF RoomFor
  <2> QED BY <2>1, <2>2, <1>5, <1>6, <1>8
<1>10. m[x] < m[s]
  BY <1>7, <1>9 DEF Wrapped
<1> QED BY <1>3, <1>5, <1>10 DEF EdgeHolds

(* A difference is at most what it is taken from, when it does not wrap.   *)
LEMMA DifferencesFit ==
  ASSUME NEW T, NEW m, Sound(m, T), NEW edges, Fits(edges, m, T)
  PROVE  Fits(DifferenceEdges(edges), m, T)
<1> SUFFICES ASSUME NEW e \in DifferenceEdges(edges)
             PROVE  e[1] \in T /\ e[2] \in T /\ EdgeHolds(e, m)
  BY DEF Fits
<1>0. PICK s \in EdgeTerms(edges) :
        /\ IsCallOf(s, "sub", 2) /\ NotWrapping(s, edges)
        /\ e = <<s, s[3][1], FALSE>>
  BY DEF DifferenceEdges
<1>1. s \in T /\ s[3][1] \in T /\ s[3][2] \in T
  BY <1>0, TermsOfFitting DEF Sound, IsTermSet, ArgsIn
<1>2. PICK a \in T, b \in T : a = s[3][1] /\ b = s[3][2]
  BY <1>1
<1>3. m[s] = Wrapped(m[a] - m[b])
  BY <1>0, <1>1, <1>2 DEF Sound, IsMeaning
<1>4. m[a] \in Int /\ m[b] \in Int /\ 0 <= m[b] /\ m[a] <= MaxWord /\ MaxWord \in Nat
  BY MeaningIsWord
<1>5. m[b] <= m[a]
  <2>1. PICK f \in edges : f[1] = b /\ f[2] = a
    BY <1>0, <1>2 DEF NotWrapping
  <2>2. EdgeHolds(f, m)
    BY DEF Fits
  <2> QED BY <2>1, <2>2, <1>4 DEF EdgeHolds
<1>6. m[s] = m[a] - m[b]
  BY <1>3, <1>4, <1>5 DEF Wrapped
<1>7. m[s] <= m[s[3][1]]
  BY <1>2, <1>4, <1>6
<1>8. e[1] = s /\ e[2] = s[3][1] /\ e[3] = FALSE
  BY <1>0
<1> QED BY <1>1, <1>7, <1>8 DEF EdgeHolds

LEMMA BitsFit ==
  ASSUME NEW T, NEW m, Sound(m, T), NEW edges, Fits(edges, m, T)
  PROVE  Fits(BitEdges(edges), m, T)
<1> SUFFICES ASSUME NEW e \in BitEdges(edges)
             PROVE  e[1] \in T /\ e[2] \in T /\ EdgeHolds(e, m)
  BY DEF Fits
<1>0. PICK t \in EdgeTerms(edges), i \in 1 .. 2 :
        /\ IsCallOf(t, "or", 2) \/ IsCallOf(t, "and", 2)
        /\ ~ OverStorage(t)
        /\ e = IF t[2] = "or" THEN <<t[3][i], t, FALSE>> ELSE <<t, t[3][i], FALSE>>
  BY DEF BitEdges
<1>1. t \in T /\ t[3][1] \in T /\ t[3][2] \in T
  BY <1>0, TermsOfFitting DEF Sound, IsTermSet, ArgsIn
<1>2. t[3][i] \in T
  <2>1. i = 1 \/ i = 2
    OBVIOUS
  <2> QED BY <1>1, <2>1
<1>3. CASE IsCallOf(t, "or", 2)
  <2>1. m[t[3][1]] <= m[t] /\ m[t[3][2]] <= m[t]
    BY <1>0, <1>1, <1>3 DEF Sound, IsMeaning
  <2>2. m[t[3][i]] <= m[t]
    <3>1. i = 1 \/ i = 2
      OBVIOUS
    <3> QED BY <2>1, <3>1
  <2>3. e[1] = t[3][i] /\ e[2] = t /\ e[3] = FALSE
    BY <1>0, <1>3 DEF IsCallOf
  <2> QED BY <1>1, <1>2, <2>2, <2>3 DEF EdgeHolds
<1>4. CASE IsCallOf(t, "and", 2)
  <2>1. m[t] <= m[t[3][1]] /\ m[t] <= m[t[3][2]]
    BY <1>0, <1>1, <1>4 DEF Sound, IsMeaning
  <2>2. m[t] <= m[t[3][i]]
    <3>1. i = 1 \/ i = 2
      OBVIOUS
    <3> QED BY <2>1, <3>1
  <2>3. e[1] = t /\ e[2] = t[3][i] /\ e[3] = FALSE
    BY <1>0, <1>4 DEF IsCallOf
  <2> QED BY <1>1, <1>2, <2>2, <2>3 DEF EdgeHolds
<1> QED BY <1>0, <1>3, <1>4

LEMMA LiteralMeans ==
  ASSUME NEW T, NEW m, Sound(m, T), NEW edges, Fits(edges, m, T), NEW v \in Literals(edges)
  PROVE  Lit(v) \in T /\ m[Lit(v)] = v /\ v \in Nat /\ v <= MaxWord /\ MaxWord \in Nat
<1>1. PICK t \in EdgeTerms(edges) : IsLit(t) /\ v = t[2]
  BY DEF Literals
<1>2. t \in T
  BY TermsOfFitting
<1>3. t = Lit(v)
  BY <1>1, <1>2 DEF Sound, IsTermSet
<1>4. m[t] = v
  BY <1>1, <1>2 DEF Sound, IsMeaning
<1> QED BY <1>2, <1>3, <1>4, MeaningIsWord

LEMMA LiteralsFit ==
  ASSUME NEW T, NEW m, Sound(m, T), NEW edges, Fits(edges, m, T)
  PROVE  Fits(LiteralEdges(edges), m, T)
<1> SUFFICES ASSUME NEW e \in LiteralEdges(edges)
             PROVE  e[1] \in T /\ e[2] \in T /\ EdgeHolds(e, m)
  BY DEF Fits
<1>0. PICK v \in Literals(edges), w \in Literals(edges) :
        v < w /\ e = <<Lit(v), Lit(w), TRUE>>
  BY DEF LiteralEdges
<1>1. Lit(v) \in T /\ m[Lit(v)] = v
  BY LiteralMeans
<1>2. Lit(w) \in T /\ m[Lit(w)] = w
  BY LiteralMeans
<1>3. e[1] = Lit(v) /\ e[2] = Lit(w) /\ e[3] = TRUE
  BY <1>0
<1> QED BY <1>0, <1>1, <1>2, <1>3 DEF EdgeHolds

(* All that is added is true where the facts are.                          *)
LEMMA ClosedFits ==
  ASSUME NEW T, NEW m, Sound(m, T), NEW given, Fits(given, m, T)
  PROVE  Fits(Closed(given), m, T)
<1>0. ASSUME NEW a, NEW b, Fits(a, m, T), Fits(b, m, T)
      PROVE  Fits(a \cup b, m, T)
  BY <1>0 DEF Fits
<1> DEFINE s == given \cup SumEdges(given)
           d == s \cup DifferenceEdges(s)
           w == WithDifferences(s)
           b == w \cup BitEdges(w)
<1>1. Fits(s, m, T)
  BY <1>0, SumsFit
<1>2. w = d \cup DifferenceEdges(d)
  BY DEF WithDifferences
<1> HIDE DEF s, w
<1>3. Fits(d, m, T)
  BY <1>0, <1>1, DifferencesFit
<1> HIDE DEF d
<1>4. Fits(w, m, T)
  BY <1>0, <1>2, <1>3, DifferencesFit
<1>5. Fits(b, m, T)
  BY <1>0, <1>4, BitsFit
<1>6. Closed(given) = b \cup LiteralEdges(b)
  BY DEF Closed, b, w, s
<1> HIDE DEF b
<1> QED BY <1>0, <1>5, <1>6, LiteralsFit

LEMMA ReachRuns ==
  ASSUME NEW seen, NEW edges, Cardinality(EdgeTerms(edges)) \in Nat
  PROVE  \E f : /\ Runs(f, "reach", edges, 0, seen, Cardinality(EdgeTerms(edges)))
                /\ ReachFrom(seen, edges) = f[Cardinality(EdgeTerms(edges))]
<1> DEFINE n == Cardinality(EdgeTerms(edges))
           f == CHOOSE f : f = [k \in 0 .. n |-> LoopStep("reach", edges, 0, seen, f, k)]
<1>1. f = [k \in 0 .. n |-> LoopStep("reach", edges, 0, seen, f, k)]
  BY LoopExists
<1>2. ReachFrom(seen, edges) = f[n]
  BY DEF ReachFrom, LoopStep, Body, Following
<1> HIDE DEF f
<1>3. Runs(f, "reach", edges, 0, seen, n)
  BY <1>1, LoopRuns
<1> QED BY <1>2, <1>3

(* Along edges that are true the words do not fall.                        *)
LEMMA ReachDoesNotFall ==
  ASSUME NEW T, NEW m, Sound(m, T), NEW edges, Fits(edges, m, T), NEW t \in T,
         Cardinality(EdgeTerms(edges)) \in Nat
  PROVE  \A x \in ReachFrom({t}, edges) : x \in T /\ m[t] <= m[x]
<1> DEFINE n == Cardinality(EdgeTerms(edges))
           Above(S) == \A x \in S : x \in T /\ m[t] <= m[x]
<1>1. PICK f : Runs(f, "reach", edges, 0, {t}, n) /\ ReachFrom({t}, edges) = f[n]
  BY ReachRuns
<1> DEFINE Falls == {k \in Nat : k <= n /\ ~ Above(f[k])}
<1>2. SUFFICES ASSUME Falls # {} PROVE FALSE
  <2>1. n \in Nat /\ n <= n
    OBVIOUS
  <2>2. Above(f[n])
    BY <2>1
  <2> QED BY <1>1, <2>2
<1>3. PICK k \in Falls : \A i \in Falls : k <= i
  BY <1>2, FirstNumber
<1>4. CASE k = 0
  <2>1. f[k] = {t}
    BY <1>1, <1>4 DEF Runs
  <2>2. m[t] <= m[t]
    BY MeaningIsWord
  <2> QED BY <1>3, <2>1, <2>2
<1>5. CASE k # 0
  <2>1. k \in 1 .. n /\ k - 1 \in Nat /\ k - 1 <= n /\ ~ (k <= k - 1)
    BY <1>3, <1>5
  <2>2. Above(f[k - 1])
    BY <1>3, <2>1
  <2>3. f[k] = Following(f[k - 1], edges)
    BY <1>1, <2>1 DEF Runs, Body
  <2>4. ASSUME NEW x \in Following(f[k - 1], edges)
        PROVE  x \in T /\ m[t] <= m[x]
    <3>1. CASE x \in f[k - 1]
      BY <2>2, <3>1
    <3>2. CASE x \notin f[k - 1]
      <4>1. PICK e \in edges : e[1] \in f[k - 1] /\ x = e[2]
        BY <3>2 DEF Following
      <4>2. e[1] \in T /\ m[t] <= m[e[1]]
        BY <2>2, <4>1
      <4>3. e[2] \in T /\ EdgeHolds(e, m)
        BY DEF Fits
      <4>4. m[t] \in Int /\ m[e[1]] \in Int /\ m[e[2]] \in Int
        BY <4>2, <4>3, MeaningIsWord
      <4>5. m[e[1]] <= m[e[2]]
        BY <4>3, <4>4 DEF EdgeHolds
      <4> QED BY <4>1, <4>2, <4>3, <4>4, <4>5
    <3> QED BY <3>1, <3>2
  <2>5. Above(f[k])
    BY <2>3, <2>4
  <2> QED BY <1>3, <2>5
<1> QED BY <1>4, <1>5

LEMMA EdgeTermsCounted ==
  ASSUME NEW T, NEW m, Sound(m, T), NEW edges, Fits(edges, m, T)
  PROVE  Cardinality(EdgeTerms(edges)) \in Nat
<1>1. EdgeTerms(edges) \subseteq T /\ IsFiniteSet(T)
  BY TermsOfFitting DEF Sound, IsTermSet
<1>2. IsFiniteSet(EdgeTerms(edges))
  BY <1>1, FS_Subset
<1> QED BY <1>2, FS_CardinalityType

(* So facts that are all true do not contradict each other.                *)
LEMMA FittingNotContradictory ==
  ASSUME NEW T, NEW m, Sound(m, T), NEW given, Fits(given, m, T)
  PROVE  ~ Contradictory(given)
<1> DEFINE edges == Closed(given)
<1>1. Fits(edges, m, T)
  BY ClosedFits
<1> HIDE DEF edges
<1>2. Cardinality(EdgeTerms(edges)) \in Nat
  BY <1>1, EdgeTermsCounted
<1>3. ASSUME NEW e \in edges, e[3], e[1] \in ReachFrom({e[2]}, edges) PROVE FALSE
  <2>1. e[1] \in T /\ e[2] \in T /\ EdgeHolds(e, m)
    BY <1>1 DEF Fits
  <2>2. m[e[1]] < m[e[2]]
    BY <1>3, <2>1 DEF EdgeHolds
  <2>3. m[e[2]] <= m[e[1]]
    BY <1>1, <1>2, <1>3, <2>1, ReachDoesNotFall
  <2>4. m[e[1]] \in Int /\ m[e[2]] \in Int
    BY <2>1, MeaningIsWord
  <2> QED BY <2>2, <2>3, <2>4
<1> QED BY <1>3 DEF Contradictory, edges

(* The bounds hold the word of the term.                                   *)
LEMMA EdgeFits ==
  ASSUME NEW T, NEW m, NEW a \in T, NEW b \in T, NEW strict \in BOOLEAN,
         EdgeHolds(<<a, b, strict>>, m)
  PROVE  Fits({<<a, b, strict>>}, m, T)
<1>1. ASSUME NEW e \in {<<a, b, strict>>} PROVE e[1] \in T /\ e[2] \in T /\ EdgeHolds(e, m)
  <2>1. e = <<a, b, strict>>
    OBVIOUS
  <2>2. e[1] = a /\ e[2] = b
    BY <2>1
  <2> QED BY <2>1, <2>2
<1> QED BY <1>1 DEF Fits

LEMMA WithEdge ==
  ASSUME NEW T, NEW m, NEW edges, Fits(edges, m, T),
         NEW a \in T, NEW b \in T, NEW strict \in BOOLEAN, EdgeHolds(<<a, b, strict>>, m)
  PROVE  Fits(edges \cup {<<a, b, strict>>}, m, T)
<1>1. Fits({<<a, b, strict>>}, m, T)
  BY EdgeFits
<1> QED BY <1>1 DEF Fits

LEMMA FloorIsBelow ==
  ASSUME NEW T, NEW m, Sound(m, T), NEW edges, Fits(edges, m, T), NEW t \in T,
         NEW v \in Literals(edges)
  PROVE  Floor(v, edges, t) \in 0 .. MaxWord /\ Floor(v, edges, t) <= m[t]
<1>1. /\ Lit(v) \in T /\ m[Lit(v)] = v /\ v \in Nat /\ v <= MaxWord /\ MaxWord \in Nat
      /\ m[t] \in Int /\ 0 <= m[t] /\ m[t] <= MaxWord
  BY LiteralMeans, MeaningIsWord
<1>2. ASSUME Contradictory(edges \cup {<<t, Lit(v), FALSE>>}) PROVE v < m[t]
  <2>1. SUFFICES ASSUME m[t] <= v PROVE FALSE
    BY <1>1
  <2>2. EdgeHolds(<<t, Lit(v), FALSE>>, m)
    BY <1>1, <2>1 DEF EdgeHolds
  <2> HIDE DEF Lit
  <2>3. Fits(edges \cup {<<t, Lit(v), FALSE>>}, m, T)
    BY <1>1, <2>2, WithEdge
  <2> QED BY <1>2, <2>3, FittingNotContradictory
<1>3. ASSUME Contradictory(edges \cup {<<t, Lit(v), TRUE>>}) PROVE v <= m[t]
  <2>1. SUFFICES ASSUME m[t] < v PROVE FALSE
    BY <1>1
  <2>2. EdgeHolds(<<t, Lit(v), TRUE>>, m)
    BY <1>1, <2>1 DEF EdgeHolds
  <2>3. Fits(edges \cup {<<t, Lit(v), TRUE>>}, m, T)
    BY <1>1, <2>2, WithEdge
  <2> QED BY <1>3, <2>3, FittingNotContradictory
<1>4. CASE Contradictory(edges \cup {<<t, Lit(v), FALSE>>})
  <2>1. v < MaxWord /\ Floor(v, edges, t) = v + 1
    BY <1>1, <1>2, <1>4 DEF Floor
  <2> QED BY <1>1, <1>2, <1>4, <2>1
<1>5. CASE ~ Contradictory(edges \cup {<<t, Lit(v), FALSE>>})
  <2>1. Floor(v, edges, t) = IF Contradictory(edges \cup {<<t, Lit(v), TRUE>>}) THEN v ELSE 0
    BY <1>5 DEF Floor
  <2> QED BY <1>1, <1>3, <2>1
<1> QED BY <1>4, <1>5

LEMMA CeilingIsAbove ==
  ASSUME NEW T, NEW m, Sound(m, T), NEW edges, Fits(edges, m, T), NEW t \in T,
         NEW v \in Literals(edges)
  PROVE  Ceiling(v, edges, t) \in Nat /\ m[t] <= Ceiling(v, edges, t)
<1>1. /\ Lit(v) \in T /\ m[Lit(v)] = v /\ v \in Nat /\ v <= MaxWord /\ MaxWord \in Nat
      /\ m[t] \in Int /\ 0 <= m[t] /\ m[t] <= MaxWord
  BY LiteralMeans, MeaningIsWord
<1>2. ASSUME Contradictory(edges \cup {<<Lit(v), t, FALSE>>}) PROVE m[t] < v
  <2>1. SUFFICES ASSUME v <= m[t] PROVE FALSE
    BY <1>1
  <2>2. EdgeHolds(<<Lit(v), t, FALSE>>, m)
    BY <1>1, <2>1 DEF EdgeHolds
  <2>3. Fits(edges \cup {<<Lit(v), t, FALSE>>}, m, T)
    BY <1>1, <2>2, WithEdge
  <2> QED BY <1>2, <2>3, FittingNotContradictory
<1>3. ASSUME Contradictory(edges \cup {<<Lit(v), t, TRUE>>}) PROVE m[t] <= v
  <2>1. SUFFICES ASSUME v < m[t] PROVE FALSE
    BY <1>1
  <2>2. EdgeHolds(<<Lit(v), t, TRUE>>, m)
    BY <1>1, <2>1 DEF EdgeHolds
  <2>3. Fits(edges \cup {<<Lit(v), t, TRUE>>}, m, T)
    BY <1>1, <2>2, WithEdge
  <2> QED BY <1>3, <2>3, FittingNotContradictory
<1>4. CASE Contradictory(edges \cup {<<Lit(v), t, FALSE>>})
  <2>1. v > 0 /\ Ceiling(v, edges, t) = v - 1
    BY <1>1, <1>2, <1>4 DEF Ceiling
  <2> QED BY <1>1, <1>2, <1>4, <2>1
<1>5. CASE ~ Contradictory(edges \cup {<<Lit(v), t, FALSE>>})
  <2>1. Ceiling(v, edges, t) =
          IF Contradictory(edges \cup {<<Lit(v), t, TRUE>>}) THEN v ELSE MaxWord
    BY <1>5 DEF Ceiling
  <2> QED BY <1>1, <1>3, <2>1
<1> QED BY <1>4, <1>5

LEMMA BoundsHold ==
  ASSUME NEW T, NEW m, Sound(m, T), NEW edges, Fits(edges, m, T), NEW t \in T
  PROVE  m[t] \in BoundsOf(edges, t)
<1> DEFINE low == {0} \cup {Floor(v, edges, t) : v \in Literals(edges)}
           high == {MaxWord} \cup {Ceiling(v, edges, t) : v \in Literals(edges)}
<1>1. m[t] \in Int /\ 0 <= m[t] /\ m[t] <= MaxWord /\ MaxWord \in Nat
  BY MeaningIsWord
<1>2. low \subseteq 0 .. MaxWord /\ \A x \in low : x <= m[t]
  BY <1>1, FloorIsBelow
<1>3. high \subseteq Nat /\ \A x \in high : m[t] <= x
  BY <1>1, CeilingIsAbove
<1>4. low # {} /\ high # {} /\ BoundsOf(edges, t) = Max(low) .. Min(high)
  BY DEF BoundsOf
<1> HIDE DEF low, high
<1>5. Max(low) \in low
  BY <1>1, <1>2, <1>4, MaxIsGreatest
<1>6. Min(high) \in high
  BY <1>3, <1>4, MinIsLeast
<1>7. PICK a \in low : a = Max(low)
  BY <1>5
<1>8. PICK b \in high : b = Min(high)
  BY <1>6
<1>9. m[t] \in a .. b
  <2>1. a \in Int /\ a <= m[t]
    BY <1>1, <1>2
  <2>2. b \in Int /\ m[t] <= b
    BY <1>3
  <2> QED BY <1>1, <2>1, <2>2
<1> QED BY <1>4, <1>7, <1>8, <1>9, Zenon

-----------------------------------------------------------------------------
(* The facts of a path are true of every value that takes it.              *)
LEMMA EdgesOfTrueFact ==
  ASSUME NEW T, NEW m, Sound(m, T), NEW key, IsKey(key, T)
  PROVE  Fits(EdgesOfFact(key, Holds(key, m)), m, T)
<1>1. PICK l \in T, r \in T : key \in {LtKey(l, r), LeKey(l, r), EqKey(l, r)}
  BY DEF IsKey
<1>2. m[l] \in Int /\ m[r] \in Int
  BY MeaningIsWord
<1>3. CASE key = LtKey(l, r)
  <2>1. key[1] = "<" /\ key[2] = l /\ key[3] = r
    BY <1>3 DEF LtKey
  <2>2. Holds(key, m) <=> m[l] < m[r]
    BY <2>1 DEF Holds
  <2>3. EdgesOfFact(key, Holds(key, m)) = LtFact(l, r, Holds(key, m))
    BY <2>1 DEF EdgesOfFact
  <2>4. CASE Holds(key, m)
    <3>1. LtFact(l, r, Holds(key, m)) = {<<l, r, TRUE>>}
      BY <2>4 DEF LtFact
    <3>2. EdgeHolds(<<l, r, TRUE>>, m)
      BY <2>2, <2>4 DEF EdgeHolds
    <3>3. Fits({<<l, r, TRUE>>}, m, T)
      BY <3>2, EdgeFits
    <3> QED BY <2>3, <3>1, <3>3, Zenon
  <2>5. CASE ~ Holds(key, m)
    <3>1. LtFact(l, r, Holds(key, m)) = {<<r, l, FALSE>>}
      BY <2>5 DEF LtFact
    <3>2. EdgeHolds(<<r, l, FALSE>>, m)
      BY <1>2, <2>2, <2>5 DEF EdgeHolds
    <3>3. Fits({<<r, l, FALSE>>}, m, T)
      BY <3>2, EdgeFits
    <3> QED BY <2>3, <3>1, <3>3, Zenon
  <2> QED BY <2>4, <2>5
<1>4. CASE key = LeKey(l, r)
  <2>1. key[1] = "<=" /\ key[2] = l /\ key[3] = r
    BY <1>4 DEF LeKey
  <2>2. Holds(key, m) <=> m[l] <= m[r]
    BY <2>1 DEF Holds
  <2>3. EdgesOfFact(key, Holds(key, m)) =
          IF Holds(key, m) THEN {<<l, r, FALSE>>} ELSE {<<r, l, TRUE>>}
    BY <2>1 DEF EdgesOfFact
  <2>4. CASE Holds(key, m)
    <3>1. EdgeHolds(<<l, r, FALSE>>, m)
      BY <2>2, <2>4 DEF EdgeHolds
    <3>2. Fits({<<l, r, FALSE>>}, m, T)
      BY <3>1, EdgeFits
    <3> QED BY <2>3, <2>4, <3>2, Zenon
  <2>5. CASE ~ Holds(key, m)
    <3>1. EdgeHolds(<<r, l, TRUE>>, m)
      BY <1>2, <2>2, <2>5 DEF EdgeHolds
    <3>2. Fits({<<r, l, TRUE>>}, m, T)
      BY <3>1, EdgeFits
    <3> QED BY <2>3, <2>5, <3>2, Zenon
  <2> QED BY <2>4, <2>5
<1>5. CASE key = EqKey(l, r)
  <2>1. key[1] = "==" /\ key[2] = {l, r}
    BY <1>5 DEF EqKey
  <2>2. Holds(key, m) <=> \A p, q \in {l, r} : m[p] = m[q]
    BY <2>1 DEF Holds
  <2>3. EdgesOfFact(key, Holds(key, m)) =
          IF Holds(key, m) THEN {<<p[1], p[2], FALSE>> : p \in {l, r} \X {l, r}} ELSE {}
    BY <2>1 DEF EdgesOfFact
  <2> SUFFICES ASSUME NEW e \in EdgesOfFact(key, Holds(key, m))
               PROVE  e[1] \in T /\ e[2] \in T /\ EdgeHolds(e, m)
    BY DEF Fits
  <2>4. Holds(key, m) /\ e \in {<<p[1], p[2], FALSE>> : p \in {l, r} \X {l, r}}
    BY <2>3
  <2>5. PICK p \in {l, r}, q \in {l, r} : e = <<p, q, FALSE>>
    BY <2>4
  <2>6. e[1] = p /\ e[2] = q /\ e[3] = FALSE
    BY <2>5
  <2>7. m[p] = m[q] /\ m[p] \in Int
    BY <1>2, <2>2, <2>4
  <2> QED BY <2>6, <2>7 DEF EdgeHolds
<1> QED BY <1>1, <1>3, <1>4, <1>5

(* Every fact is a side some fork took.                                    *)
Recalls(k, s) ==
  /\ s[1] \in PathConds /\ s[2] \in BOOLEAN
  /\ RelOf(s[1]).key = k
  /\ facts[k] = (RelOf(s[1]).sense = s[2])
FactsFromForks == \A k \in DOMAIN facts : \E s \in forked : Recalls(k, s)

LEMMA FactsAlwaysFromForks == PathSpec => []FactsFromForks
<1>1. PathInit => FactsFromForks
  BY DEF PathInit, FactsFromForks
<1>2. FactsFromForks /\ [PathNext]_pathVars => FactsFromForks'
  <2> SUFFICES ASSUME FactsFromForks, [PathNext]_pathVars PROVE FactsFromForks'
    OBVIOUS
  <2>1. CASE UNCHANGED pathVars
    BY <2>1 DEF FactsFromForks, Recalls, pathVars
  <2>2. ASSUME NEW cond \in PathConds, NEW side \in BOOLEAN, Fork(cond, side)
        PROVE  FactsFromForks'
    <3> DEFINE key == RelOf(cond).key
    <3>1. /\ forked' = forked \cup {<<cond, side>>}
          /\ facts' = [k \in DOMAIN facts \cup {key} |->
                         IF k = key THEN RelOf(cond).sense = side ELSE facts[k]]
      BY <2>2 DEF Fork, Recorded
    <3> SUFFICES ASSUME NEW k \in DOMAIN facts'
                 PROVE  \E s \in forked' : Recalls(k, s)'
      BY DEF FactsFromForks
    <3>2. CASE k = key
      <4>1. facts'[k] = (RelOf(cond).sense = side)
        BY <3>1, <3>2
      <4>2. Recalls(k, <<cond, side>>)'
        BY <3>2, <4>1 DEF Recalls
      <4> QED BY <3>1, <4>2
    <3>3. CASE k # key
      <4>1. k \in DOMAIN facts /\ facts'[k] = facts[k]
        BY <3>1, <3>3
      <4>2. PICK s \in forked : Recalls(k, s)
        BY <4>1 DEF FactsFromForks
      <4>3. Recalls(k, s)'
        BY <4>1, <4>2 DEF Recalls
      <4> QED BY <3>1, <4>3
    <3> QED BY <3>2, <3>3
  <2> QED BY <2>1, <2>2 DEF PathNext
<1> QED BY <1>1, <1>2, PTL DEF PathSpec

LEMMA ValuesMean ==
  ASSUME NEW val \in PathValues
  PROVE  val \in Valuations /\ Sound(Meaning(val), PathTerms)
BY TermsAssumption DEF PathValues, Sound

LEMMA HoldsIsBoolean ==
  ASSUME NEW T, NEW m, Sound(m, T), NEW key, IsKey(key, T)
  PROVE  Holds(key, m) \in BOOLEAN
<1>1. PICK l \in T, r \in T : key \in {LtKey(l, r), LeKey(l, r), EqKey(l, r)}
  BY DEF IsKey
<1>2. m[l] \in Int /\ m[r] \in Int
  BY MeaningIsWord
<1>3. CASE key = LtKey(l, r)
  <2>1. key[1] = "<" /\ key[2] = l /\ key[3] = r
    BY <1>3 DEF LtKey
  <2>2. Holds(key, m) = (m[l] < m[r])
    BY <2>1 DEF Holds
  <2> QED BY <1>2, <2>2
<1>4. CASE key = LeKey(l, r)
  <2>1. key[1] = "<=" /\ key[2] = l /\ key[3] = r
    BY <1>4 DEF LeKey
  <2>2. Holds(key, m) = (m[l] <= m[r])
    BY <2>1 DEF Holds
  <2> QED BY <1>2, <2>2
<1>5. CASE key = EqKey(l, r)
  <2>1. key[1] = "==" /\ key[2] = {l, r}
    BY <1>5 DEF EqKey
  <2>2. Holds(key, m) = \A p, q \in {l, r} : m[p] = m[q]
    BY <2>1 DEF Holds
  <2> QED BY <2>2
<1> QED BY <1>1, <1>3, <1>4, <1>5

LEMMA FactsAreTrue ==
  ASSUME FactsFromForks, NEW val \in PathValues, NEW k \in DOMAIN facts
  PROVE  IsKey(k, PathTerms) /\ facts[k] = Holds(k, Meaning(val))
<1>1. PICK s \in forked : Recalls(k, s)
  BY DEF FactsFromForks
<1>2. val \in Valuations /\ (ValueOf(s[1], val) # 0) = s[2]
  BY DEF PathValues, Agrees
<1> DEFINE sense == RelOf(s[1]).sense
           truth == Holds(k, Meaning(val))
<1>3. /\ IsKey(k, PathTerms) /\ sense \in BOOLEAN
      /\ (ValueOf(s[1], val) # 0) = (truth = sense)
  BY <1>1, <1>2, RelationAssumption DEF Recalls
<1>4. s[2] \in BOOLEAN /\ truth \in BOOLEAN /\ facts[k] = (sense = s[2])
  BY <1>1, <1>3, ValuesMean, HoldsIsBoolean DEF Recalls
<1> HIDE DEF sense, truth
<1>5. s[2] = (truth = sense)
  BY <1>2, <1>3, Zenon
<1>6. (sense = s[2]) = truth
  BY <1>3, <1>4, <1>5
<1>7. facts[k] = truth
  BY <1>4, <1>6, Zenon
<1> QED BY <1>3, <1>7 DEF truth

LEMMA FactsFit ==
  ASSUME FactsFromForks, NEW val \in PathValues
  PROVE  Fits(EdgesOf(facts), Meaning(val), PathTerms)
<1> DEFINE m == Meaning(val)
<1> SUFFICES ASSUME NEW e \in EdgesOf(facts)
             PROVE  e[1] \in PathTerms /\ e[2] \in PathTerms /\ EdgeHolds(e, m)
  BY DEF Fits
<1>1. PICK k \in DOMAIN facts : e \in EdgesOfFact(k, facts[k])
  BY DEF EdgesOf
<1>2. IsKey(k, PathTerms) /\ facts[k] = Holds(k, m)
  BY FactsAreTrue
<1>3. Sound(m, PathTerms)
  BY ValuesMean
<1> HIDE DEF m
<1>4. Fits(EdgesOfFact(k, facts[k]), m, PathTerms)
  BY <1>2, <1>3, EdgesOfTrueFact
<1> QED BY <1>1, <1>4 DEF Fits

(* The facts of a path contradict each other only where no value goes: a   *)
(* walk that gives such a path up leaves out nothing the contract does.    *)
THEOREM ContradictionsAlwaysReal == PathSpec => []ContradictionIsReal
<1>1. FactsFromForks => ContradictionIsReal
  <2> SUFFICES ASSUME FactsFromForks, NEW val \in PathValues
               PROVE  ~ Contradictory(EdgesOf(facts))
    BY DEF ContradictionIsReal
  <2>1. Sound(Meaning(val), PathTerms)
    BY ValuesMean
  <2> QED BY <2>1, FactsFit, FittingNotContradictory
<1> QED BY <1>1, FactsAlwaysFromForks, PTL

(* The bounds the facts put on a term hold the value it has for every      *)
(* value that takes the path: a store lands in a region it is placed in.   *)
THEOREM BoundsAlwaysHold == PathSpec => []BoundsHoldValue
<1>1. FactsFromForks => BoundsHoldValue
  <2> SUFFICES ASSUME FactsFromForks, NEW e \in Values, NEW val \in PathValues
               PROVE  ValueOf(e, val) \in BoundsOf(EdgesOf(facts), TermOf(e))
    BY DEF BoundsHoldValue
  <2>1. val \in Valuations /\ Sound(Meaning(val), PathTerms)
    BY ValuesMean
  <2>2. TermOf(e) \in PathTerms /\ ValueOf(e, val) = Meaning(val)[TermOf(e)]
    BY <2>1, ValuesAssumption DEF Meaning
  <2> QED BY <2>1, <2>2, FactsFit, BoundsHold
<1> QED BY <1>1, FactsAlwaysFromForks, PTL

-----------------------------------------------------------------------------
(* A relation that is settled without a fork is what its terms mean.       *)
LEMMA SettledIsTrue ==
  ASSUME NEW T, NEW m, Sound(m, T), NEW key, IsKey(key, T), NEW x \in Settled(key)
  PROVE  x = Holds(key, m)
<1>1. PICK l \in T, r \in T : key \in {LtKey(l, r), LeKey(l, r), EqKey(l, r)}
  BY DEF IsKey
<1>2. m[l] \in Int /\ m[r] \in Int
  BY MeaningIsWord
<1>3. ASSUME IsLit(l), IsLit(r) PROVE m[l] = l[2] /\ m[r] = r[2] /\ (m[l] = m[r] => l = r)
  <2>1. m[l] = l[2] /\ m[r] = r[2]
    BY <1>3 DEF Sound, IsMeaning
  <2>2. l = Lit(l[2]) /\ r = Lit(r[2])
    BY <1>3 DEF Sound, IsTermSet
  <2> QED BY <2>1, <2>2
<1>4. CASE key = EqKey(l, r)
  <2>1. key[1] = "==" /\ key[2] = {l, r}
    BY <1>4 DEF EqKey
  <2>2. Holds(key, m) = (m[l] = m[r])
    BY <2>1 DEF Holds
  <2>3. x \in SettledEquality({l, r})
    BY <2>1 DEF Settled
  <2>4. CASE Single({l, r})
    <3>1. l = r
      <4>1. IsFiniteSet({l})
        BY FS_Singleton
      <4>2. IsFiniteSet({l} \cup {r})
        BY <4>1, FS_AddElement
      <4>3. {l, r} = {l} \cup {r}
        OBVIOUS
      <4>4. IsFiniteSet({l, r}) /\ Cardinality({l, r}) = 1
        BY <2>4, <4>2, <4>3 DEF Single
      <4>5. \E y : {l, r} = {y}
        BY <4>4, FS_Singleton
      <4> QED BY <4>5
    <3>2. x = TRUE
      BY <2>3, <2>4 DEF SettledEquality, Some
    <3> QED BY <2>2, <3>1, <3>2
  <2>5. CASE ~ Single({l, r})
    <3>1. l # r
      <4>1. SUFFICES ASSUME l = r PROVE Single({l, r})
        BY <2>5
      <4>2. {l, r} = {l}
        BY <4>1
      <4> QED BY <4>2, FS_Singleton DEF Single
    <3>2. IsLit(l) /\ IsLit(r) /\ x = FALSE
      BY <2>3, <2>5 DEF SettledEquality, Some, Nothing
    <3> QED BY <2>2, <3>1, <3>2, <1>3
  <2> QED BY <2>4, <2>5
<1>5. CASE key \in {LtKey(l, r), LeKey(l, r)}
  <2>1. key[1] \in {"<", "<="} /\ key[2] = l /\ key[3] = r
    BY <1>5 DEF LtKey, LeKey
  <2>2. Holds(key, m) = IF key[1] = "<" THEN m[l] < m[r] ELSE m[l] <= m[r]
    BY <2>1 DEF Holds
  <2>3. x \in SettledOrder(key[1], l, r)
    BY <2>1 DEF Settled
  <2>4. CASE l = r
    <3>1. x = (key[1] = "<=")
      BY <2>3, <2>4 DEF SettledOrder, Some
    <3> QED BY <1>2, <2>1, <2>2, <2>4, <3>1
  <2>5. CASE l # r
    <3>1. IsLit(l) /\ IsLit(r)
      BY <2>3, <2>5 DEF SettledOrder, Nothing
    <3>2. x = IF key[1] = "<" THEN l[2] < r[2] ELSE l[2] <= r[2]
      BY <2>3, <2>5, <3>1 DEF SettledOrder, Some
    <3> QED BY <1>3, <2>2, <3>1, <3>2
  <2> QED BY <2>4, <2>5
<1> QED BY <1>1, <1>4, <1>5

(* What a path remembers, or settles without remembering, is the side of   *)
(* a condition every value that takes the path would take.                 *)
THEOREM MemoryAlwaysSound == PathSpec => []MemoryIsSound
<1>1. FactsFromForks => MemoryIsSound
  <2> SUFFICES ASSUME FactsFromForks, NEW cond \in PathConds,
                      NEW b \in SideOf(RelOf(cond), facts), NEW val \in PathValues
               PROVE  (ValueOf(cond, val) # 0) = b
    BY DEF MemoryIsSound
  <2> DEFINE key == RelOf(cond).key
             truth == Holds(key, Meaning(val))
  <2>1. PICK x \in OrElse(Settled(key), Found(facts, key)) : b = (x = RelOf(cond).sense)
    BY DEF SideOf
  <2>2. val \in Valuations /\ Sound(Meaning(val), PathTerms)
    BY ValuesMean
  <2>3. /\ IsKey(key, PathTerms)
        /\ (ValueOf(cond, val) # 0) = (truth = RelOf(cond).sense)
    BY <2>2, RelationAssumption
  <2> HIDE DEF key
  <2>4. x = truth
    <3>1. CASE x \in Settled(key)
      BY <2>2, <2>3, <3>1, SettledIsTrue
    <3>2. CASE x \notin Settled(key)
      <4>1. x \in Found(facts, key)
        BY <3>2 DEF OrElse
      <4>2. key \in DOMAIN facts /\ x = facts[key]
        BY <4>1 DEF Found, Some, Nothing
      <4> QED BY <4>2, FactsAreTrue
    <3> QED BY <3>1, <3>2
  <2> HIDE DEF truth
  <2> QED BY <2>1, <2>3, <2>4, Zenon
<1> QED BY <1>1, FactsAlwaysFromForks, PTL
-----------------------------------------------------------------------------
(* What the values and the predicates of a condition say of the words they *)
(* stand for (value.rs, predicate.rs, decide_cond).  Nothing in this part  *)
(* depends on a contract: it is what every answer of the walk rests on.    *)

(* The ends of a set of words.                                             *)
LEMMA EndsOfWords ==
  ASSUME NEW S, S \subseteq Word, NEW x \in S
  PROVE  \E lo, hi \in Nat : /\ lo = Lo(S) /\ hi = Hi(S) /\ lo \in S /\ hi \in S
                             /\ x \in Nat /\ lo <= x /\ x <= hi
                             /\ MaxWord \in Nat /\ hi <= MaxWord
<1>1. MaxWord \in Int
  BY WAssumption DEF MaxWord
<1>2. x \in Int /\ 0 <= x /\ x <= MaxWord
  BY <1>1 DEF Word
<1>3. MaxWord \in Nat
  BY <1>1, <1>2
<1>4. S \subseteq 0 .. MaxWord /\ S \subseteq Nat /\ S # {}
  BY <1>3 DEF Word
<1>5. PICK lo \in S : lo = Min(S) /\ \A y \in S : lo <= y
  BY <1>4, MinIsLeast
<1>6. PICK hi \in S : hi = Max(S) /\ \A y \in S : y <= hi
  BY <1>3, <1>4, MaxIsGreatest
<1>7. lo \in Nat /\ hi \in Nat /\ hi <= MaxWord /\ x \in Nat
  BY <1>3, <1>4
<1> QED BY <1>3, <1>5, <1>6, <1>7 DEF Lo, Hi

LEMMA WordsDoNotWrap ==
  ASSUME NEW n \in 0 .. MaxWord, MaxWord \in Nat
  PROVE  n % 2^W = n
<1>1. 2^W \in Int
  BY WAssumption
<1>2. PICK m \in Int : m = 2^W
  BY <1>1
<1>3. MaxWord = m - 1
  BY <1>2 DEF MaxWord
<1>4. n \in Nat /\ n < m /\ m \in Nat /\ m > 0
  BY <1>3
<1>5. n % m = n
  BY <1>4
<1> QED BY <1>2, <1>5

LEMMA ProductsGrow ==
  ASSUME NEW a \in Nat, NEW b \in Nat, NEW c \in Nat, NEW d \in Nat, a <= c, b <= d
  PROVE  a * b \in Nat /\ a * b <= c * d
<1>1. PICK e \in Nat : c = a + e
  <2>1. c - a \in Nat /\ c = a + (c - a)
    OBVIOUS
  <2> QED BY <2>1
<1>2. PICK f \in Nat : d = b + f
  <2>1. d - b \in Nat /\ d = b + (d - b)
    OBVIOUS
  <2> QED BY <2>1
<1>3. a * b \in Nat /\ a * f \in Nat /\ e * b \in Nat /\ e * f \in Nat
  OBVIOUS
<1>4. c * d = a * b + a * f + e * b + e * f
  BY <1>1, <1>2
<1> QED BY <1>3, <1>4

LEMMA RangeHolds ==
  ASSUME NEW a \in Int, NEW z \in Int, NEW n \in Int, MaxWord \in Nat,
         0 <= a, a <= n, n <= z, z <= MaxWord
  PROVE  a .. z \subseteq Word /\ n \in a .. z /\ n % 2^W = n
<1>1. n \in 0 .. MaxWord /\ n \in a .. z
  OBVIOUS
<1>2. a .. z \subseteq 0 .. MaxWord
  OBVIOUS
<1> QED BY <1>1, <1>2, WordsDoNotWrap DEF Word

(* What the three operations are on words.                                 *)
Computed(op, x, y) ==
  CASE op = "add" -> (x + y) % 2^W
    [] op = "sub" -> (x - y) % 2^W
    [] op = "mul" -> (x * y) % 2^W

(* The set for a sum, a difference or a product holds what the operation   *)
(* gives, and no more than words: nothing is said where it could wrap.     *)
THEOREM ArithHoldsValues ==
  ASSUME NEW S, S \subseteq Word, NEW T, T \subseteq Word, NEW x \in S, NEW y \in T,
         NEW op \in {"add", "sub", "mul"}, NEW R \in Arith(op, S, T)
  PROVE  R \subseteq Word /\ Computed(op, x, y) \in R
<1>1. PICK lo \in Nat, hi \in Nat :
        /\ lo = Lo(S) /\ hi = Hi(S) /\ x \in Nat /\ lo <= x /\ x <= hi
        /\ MaxWord \in Nat /\ hi <= MaxWord
  BY EndsOfWords
<1>2. PICK low \in Nat, high \in Nat :
        /\ low = Lo(T) /\ high = Hi(T) /\ y \in Nat /\ low <= y /\ y <= high
        /\ high <= MaxWord
  BY EndsOfWords
<1>3. ~ (S = {} \/ T = {})
  OBVIOUS
<1>4. CASE op = "add"
  <2>1. hi + high <= MaxWord /\ R = lo + low .. hi + high
    BY <1>1, <1>2, <1>3, <1>4 DEF Arith, Some, Nothing
  <2>2. /\ lo + low \in Int /\ hi + high \in Int /\ x + y \in Int
        /\ 0 <= lo + low /\ lo + low <= x + y /\ x + y <= hi + high
    BY <1>1, <1>2
  <2>3. /\ lo + low .. hi + high \subseteq Word
        /\ x + y \in lo + low .. hi + high /\ (x + y) % 2^W = x + y
    BY <1>1, <2>1, <2>2, RangeHolds
  <2>4. Computed(op, x, y) = (x + y) % 2^W
    BY <1>4 DEF Computed
  <2> QED BY <2>1, <2>3, <2>4, Zenon
<1>5. CASE op = "sub"
  <2>1. R \in Minus(S, T)
    BY <1>3, <1>5 DEF Arith
  <2>2. lo >= high /\ R = lo - high .. hi - low
    BY <1>1, <1>2, <2>1 DEF Minus, Some, Nothing
  <2>3. /\ lo - high \in Int /\ hi - low \in Int /\ x - y \in Int
        /\ 0 <= lo - high /\ lo - high <= x - y /\ x - y <= hi - low /\ hi - low <= MaxWord
    <3>1. lo >= high
      BY <2>2
    <3> QED BY <1>1, <1>2, <3>1
  <2>4. /\ lo - high .. hi - low \subseteq Word
        /\ x - y \in lo - high .. hi - low /\ (x - y) % 2^W = x - y
    BY <1>1, <2>3, RangeHolds
  <2>5. Computed(op, x, y) = (x - y) % 2^W
    BY <1>5 DEF Computed
  <2> QED BY <2>2, <2>4, <2>5, Zenon
<1>6. CASE op = "mul"
  <2>1. hi * high <= MaxWord /\ R = lo * low .. hi * high
    BY <1>1, <1>2, <1>3, <1>6 DEF Arith, Some, Nothing
  <2>2. lo * low \in Nat /\ x * y \in Nat /\ lo * low <= x * y /\ x * y <= hi * high
        /\ hi * high \in Nat
    BY <1>1, <1>2, ProductsGrow
  <2>3. /\ lo * low .. hi * high \subseteq Word
        /\ x * y \in lo * low .. hi * high /\ (x * y) % 2^W = x * y
    <3>1. /\ lo * low \in Int /\ hi * high \in Int /\ x * y \in Int /\ 0 <= lo * low
      BY <2>2
    <3> QED BY <1>1, <2>1, <2>2, <3>1, RangeHolds
  <2>4. Computed(op, x, y) = (x * y) % 2^W
    BY <1>6 DEF Computed
  <2> QED BY <2>1, <2>3, <2>4, Zenon
<1> QED BY <1>4, <1>5, <1>6

-----------------------------------------------------------------------------
(* Words under a mask.  A word is halved until nothing is left of it: what *)
(* holds of the half is carried to the whole.                              *)
Countable == 0 .. MaxWord + 1

LEMMA Halves ==
  ASSUME NEW x \in Nat
  PROVE  \E h \in Nat, b \in {0, 1} : x = 2 * h + b /\ (x > 0 => h < x)
<1>1. /\ x \div 2 \in Nat /\ x % 2 \in {0, 1}
      /\ x = 2 * (x \div 2) + (x % 2)
      /\ x > 0 => x \div 2 < x
  OBVIOUS
<1> QED BY <1>1

LEMMA HalvesOf ==
  ASSUME NEW h \in Nat, NEW b \in {0, 1}
  PROVE  (2 * h + b) \div 2 = h /\ (2 * h + b) % 2 = b
  OBVIOUS

(* The assumption on WordAnd, for numbers given by their halves.           *)
LEMMA AndByHalves ==
  ASSUME MaxWord \in Nat, NEW x \in Countable, NEW y \in Countable,
         NEW h \in Nat, NEW b \in {0, 1}, NEW g \in Nat, NEW c \in {0, 1},
         x = 2 * h + b, y = 2 * g + c
  PROVE  /\ h \in Countable /\ g \in Countable
         /\ WordAnd(h, g) \in Nat /\ WordAnd(x, y) \in Nat
         /\ WordAnd(x, y) = 2 * WordAnd(h, g) + b * c
<1>1. h \in Countable /\ g \in Countable
  BY DEF Countable
<1>2. \A i, j \in Countable : /\ WordAnd(i, j) \in Nat
                             /\ WordAnd(i, j) = 2 * WordAnd(i \div 2, j \div 2) + (i % 2) * (j % 2)
  BY BitsAssumption, Zenon DEF Countable
<1>3. x \div 2 = h /\ x % 2 = b /\ y \div 2 = g /\ y % 2 = c
  BY HalvesOf
<1>4. WordAnd(x, y) \in Nat /\ WordAnd(x, y) = 2 * WordAnd(h, g) + b * c
  BY <1>2, <1>3
<1>5. WordAnd(h, g) \in Nat
  BY <1>1, <1>2
<1> QED BY <1>1, <1>4, <1>5

LEMMA AndWithItself ==
  ASSUME MaxWord \in Nat, NEW a \in Countable
  PROVE  WordAnd(a, a) = a
<1> DEFINE Bad1 == {x \in Countable : WordAnd(x, x) # x}
<1>1. SUFFICES ASSUME Bad1 # {} PROVE FALSE
  OBVIOUS
<1>2. Bad1 \subseteq Nat
  BY DEF Countable
<1>3. PICK m \in Bad1 : \A k \in Bad1 : m <= k
  BY <1>1, <1>2, FirstNumber
<1>4. m \in Nat /\ m \in Countable /\ WordAnd(m, m) # m
  BY <1>2
<1>5. PICK h \in Nat, b \in {0, 1} : m = 2 * h + b /\ (m > 0 => h < m)
  BY <1>4, Halves
<1>6. h \in Countable /\ WordAnd(h, h) \in Nat /\ WordAnd(m, m) = 2 * WordAnd(h, h) + b * b
  BY <1>4, <1>5, AndByHalves
<1>7. b * b = b
  OBVIOUS
<1>8. WordAnd(h, h) = h
  <2>1. CASE m > 0
    <3>1. h \notin Bad1
      BY <1>2, <1>3, <1>5, <2>1
    <3> QED BY <1>6, <3>1
  <2>2. CASE m = 0
    <3>1. h = 0 /\ b = 0
      BY <1>5, <2>2
    <3>2. WordAnd(m, m) = WordAnd(h, h)
      BY <2>2, <3>1
    <3> QED BY <1>6, <1>7, <3>1, <3>2
  <2> QED BY <1>4, <2>1, <2>2
<1> QED BY <1>4, <1>5, <1>6, <1>7, <1>8

(* Half of a mask of low bits is one.                                      *)
LEMMA LowMaskHalves ==
  ASSUME MaxWord \in Nat, NEW m \in 0 .. MaxWord, m > 0, IsLowMask(m)
  PROVE  \E h \in Nat : m = 2 * h + 1 /\ h < m /\ h \in 0 .. MaxWord /\ IsLowMask(h)
<1>0. m \in Nat
  OBVIOUS
<1>1. PICK h \in Nat, b \in {0, 1} : m = 2 * h + b /\ h < m
  BY <1>0, Halves
<1>2. WordAnd(m, m + 1) = 0
  BY DEF IsLowMask
<1>3. m \in Countable /\ m + 1 \in Countable
  BY DEF Countable
<1>4. b = 1
  <2>1. SUFFICES ASSUME b = 0 PROVE FALSE
    OBVIOUS
  <2>2. m + 1 = 2 * h + 1 /\ m = 2 * h + 0
    BY <1>1, <2>1
  <2>3. h \in Countable /\ WordAnd(m, m + 1) = 2 * WordAnd(h, h) + 0 * 1
    BY <1>3, <2>2, AndByHalves
  <2>4. WordAnd(h, h) = h
    BY <2>3, AndWithItself
  <2> QED BY <1>1, <1>2, <2>1, <2>3, <2>4
<1>5. m = 2 * h + 1 /\ m + 1 = 2 * (h + 1) + 0
  BY <1>1, <1>4
<1>6. WordAnd(h, h + 1) \in Nat /\ WordAnd(m, m + 1) = 2 * WordAnd(h, h + 1) + 1 * 0
  BY <1>3, <1>5, AndByHalves
<1>7. WordAnd(h, h + 1) = 0
  BY <1>2, <1>6
<1> QED BY <1>1, <1>5, <1>7 DEF IsLowMask

(* Under a mask of low bits a number is what is left after whole rounds.   *)
LeftAfterRounds(x, m) ==
  /\ WordAnd(x, m) \in 0 .. m
  /\ \E k \in Nat : x = k * (m + 1) + WordAnd(x, m)

LEMMA LowMaskLeaves ==
  ASSUME MaxWord \in Nat, NEW m \in 0 .. MaxWord, IsLowMask(m), NEW x \in Countable
  PROVE  LeftAfterRounds(x, m)
<1> DEFINE Bad1 == {n \in 0 .. MaxWord : IsLowMask(n) /\ \E y \in Countable : ~ LeftAfterRounds(y, n)}
<1>1. SUFFICES ASSUME Bad1 # {} PROVE FALSE
  OBVIOUS
<1>0. Bad1 \subseteq Nat
  OBVIOUS
<1>2. PICK n \in Bad1 : \A k \in Bad1 : n <= k
  BY <1>0, <1>1, FirstNumber
<1>3. n \in 0 .. MaxWord /\ IsLowMask(n) /\ n \in Countable
  BY DEF Countable
<1>4. PICK y \in Countable : ~ LeftAfterRounds(y, n)
  BY <1>2
<1>5. PICK q \in Nat, b \in {0, 1} : y = 2 * q + b
  <2>1. y \in Nat
    BY DEF Countable
  <2> QED BY <2>1, Halves
<1>6. CASE n = 0
  <2>1. \A z \in Countable : WordAnd(z, 0) = 0
    <3> DEFINE Bad2 == {z \in Countable : WordAnd(z, 0) # 0}
    <3>1. SUFFICES ASSUME Bad2 # {} PROVE FALSE
      OBVIOUS
    <3>2. Bad2 \subseteq Nat
      BY DEF Countable
    <3>3. PICK z \in Bad2 : \A k \in Bad2 : z <= k
      BY <3>1, <3>2, FirstNumber
    <3>4. PICK g \in Nat, c \in {0, 1} : z = 2 * g + c /\ (z > 0 => g < z)
      BY <3>2, Halves
    <3>5. 0 = 2 * 0 + 0 /\ 0 \in Countable /\ z \in Countable /\ 0 \in Nat /\ 0 \in {0, 1}
      BY DEF Countable
    <3>6. /\ g \in Countable /\ WordAnd(g, 0) \in Nat
          /\ WordAnd(z, 0) = 2 * WordAnd(g, 0) + c * 0
      BY <3>4, <3>5, AndByHalves
    <3>7. WordAnd(z, 0) = 2 * WordAnd(g, 0)
      BY <3>6
    <3>8. WordAnd(g, 0) # 0
      BY <3>6, <3>7
    <3>9. g \in Bad2
      BY <3>6, <3>8
    <3>10. z = 0 /\ g = 0
      BY <3>2, <3>3, <3>4, <3>9
    <3> QED BY <3>6, <3>7, <3>8, <3>10
  <2>2. y \in Nat /\ y = y * (0 + 1) + 0
    BY DEF Countable
  <2> QED BY <1>4, <1>6, <2>1, <2>2 DEF LeftAfterRounds
<1>7. CASE n > 0
  <2>1. PICK h \in Nat : n = 2 * h + 1 /\ h < n /\ h \in 0 .. MaxWord /\ IsLowMask(h)
    BY <1>3, <1>7, LowMaskHalves
  <2>2. /\ q \in Countable /\ WordAnd(q, h) \in Nat
        /\ WordAnd(y, n) = 2 * WordAnd(q, h) + b * 1
    BY <1>3, <1>5, <2>1, AndByHalves
  <2>3. h \notin Bad1
    BY <1>2, <2>1
  <2>4. LeftAfterRounds(q, h)
    BY <2>1, <2>2, <2>3
  <2>5. PICK k \in Nat : q = k * (h + 1) + WordAnd(q, h)
    BY <2>4 DEF LeftAfterRounds
  <2>6. WordAnd(q, h) \in 0 .. h
    BY <2>4 DEF LeftAfterRounds
  <2>7. WordAnd(y, n) \in 0 .. n
    BY <2>1, <2>2, <2>6
  <2>8. y = k * (n + 1) + WordAnd(y, n)
    <3>1. PICK p \in Nat : p = k * (h + 1)
      OBVIOUS
    <3>2. k * (n + 1) = 2 * p
      <4>1. n + 1 = 2 * (h + 1)
        BY <2>1
      <4>2. k * (2 * (h + 1)) = 2 * (k * (h + 1))
        OBVIOUS
      <4> QED BY <3>1, <4>1, <4>2
    <3>3. y = 2 * (p + WordAnd(q, h)) + b
      BY <1>5, <2>5, <3>1
    <3> QED BY <2>2, <3>2, <3>3
  <2> QED BY <1>4, <2>7, <2>8 DEF LeftAfterRounds
<1> QED BY <1>3, <1>6, <1>7

(* The bits under a mask and those under its complement make up a word.    *)
LEMMA ComplementsMakeUp ==
  ASSUME MaxWord \in Nat, NEW n \in 0 .. MaxWord, IsLowMask(n), NEW x \in 0 .. n, NEW m \in 0 .. n
  PROVE  WordAnd(x, n - m) + WordAnd(x, m) = x
<1> DEFINE Split2(k) == \A y \in 0 .. k, l \in 0 .. k : WordAnd(y, k - l) + WordAnd(y, l) = y
           Bad1 == {k \in 0 .. MaxWord : IsLowMask(k) /\ ~ Split2(k)}
<1>1. SUFFICES ASSUME Bad1 # {} PROVE FALSE
  OBVIOUS
<1>0. Bad1 \subseteq Nat
  OBVIOUS
<1>2. PICK k \in Bad1 : \A i \in Bad1 : k <= i
  BY <1>0, <1>1, FirstNumber
<1>3. PICK y \in 0 .. k, l \in 0 .. k : WordAnd(y, k - l) + WordAnd(y, l) # y
  BY <1>2
<1>4. CASE k = 0
  <2>0. y = 0 /\ l = 0
    BY <1>3, <1>4
  <2>1. k - l = 0 /\ 0 \in Countable
    BY <1>4, <2>0 DEF Countable
  <2>2. WordAnd(0, 0) = 0
    BY <2>1, AndWithItself
  <2> QED BY <1>3, <2>0, <2>1, <2>2
<1>5. CASE k > 0
  <2>1. PICK h \in Nat : k = 2 * h + 1 /\ h < k /\ h \in 0 .. MaxWord /\ IsLowMask(h)
    BY <1>2, <1>5, LowMaskHalves
  <2>0. y \in Nat /\ l \in Nat
    OBVIOUS
  <2>2. PICK q \in Nat, b \in {0, 1} : y = 2 * q + b
    BY <2>0, Halves
  <2>3. PICK j \in Nat, c \in {0, 1} : l = 2 * j + c
    BY <2>0, Halves
  <2>4. q \in 0 .. h /\ j \in 0 .. h /\ h - j \in Nat /\ 1 - c \in {0, 1}
    BY <1>3, <2>1, <2>2, <2>3
  <2>5. y \in Countable /\ l \in Countable /\ k - l \in Countable /\ k - l = 2 * (h - j) + (1 - c)
    BY <1>2, <1>3, <2>1, <2>3 DEF Countable
  <2>6. /\ WordAnd(q, j) \in Nat
        /\ WordAnd(y, l) = 2 * WordAnd(q, j) + b * c
    BY <2>2, <2>3, <2>5, AndByHalves
  <2>7. /\ WordAnd(q, h - j) \in Nat
        /\ WordAnd(y, k - l) = 2 * WordAnd(q, h - j) + b * (1 - c)
    <3>1. PICK i \in Nat, d \in {0, 1}, r \in Countable : i = h - j /\ d = 1 - c /\ r = k - l
      BY <2>4, <2>5
    <3>2. r = 2 * i + d
      BY <2>5, <3>1
    <3>3. WordAnd(q, i) \in Nat /\ WordAnd(y, r) = 2 * WordAnd(q, i) + b * d
      BY <2>2, <2>5, <3>2, AndByHalves
    <3> QED BY <3>1, <3>3
  <2>8. h \notin Bad1
    BY <1>2, <2>1
  <2>9. WordAnd(q, h - j) + WordAnd(q, j) = q
    BY <2>1, <2>4, <2>8
  <2>10. b * c + b * (1 - c) = b
    OBVIOUS
  <2> QED BY <1>3, <2>2, <2>6, <2>7, <2>9, <2>10
<1> QED BY <1>2, <1>4, <1>5

(* A mask that clears the low bits rounds down: order is kept.             *)
LEMMA RoundingKeepsOrder ==
  ASSUME MaxWord \in Nat, NEW m \in Word, ClearsLowBits(m), NEW x \in Word, NEW y \in Word, x <= y
  PROVE  WordAnd(x, m) \in Nat /\ WordAnd(x, m) <= WordAnd(y, m) /\ WordAnd(y, m) <= y
<1>1. PICK n \in 0 .. MaxWord : n = MaxWord - m
  BY DEF Word
<1>2. IsLowMask(n) /\ IsLowMask(MaxWord)
  BY <1>1, BitsAssumption DEF ClearsLowBits
<1>3. x \in 0 .. MaxWord /\ y \in 0 .. MaxWord /\ m \in 0 .. MaxWord /\ MaxWord \in 0 .. MaxWord
  BY DEF Word
<1>4. /\ WordAnd(x, n) + WordAnd(x, m) = x
      /\ WordAnd(y, n) + WordAnd(y, m) = y
  BY <1>1, <1>2, <1>3, ComplementsMakeUp
<1>5. x \in Countable /\ y \in Countable /\ m \in Countable
  BY <1>3 DEF Countable
<1>6. LeftAfterRounds(x, n) /\ LeftAfterRounds(y, n)
  BY <1>2, <1>5, LowMaskLeaves
<1>7. PICK k \in Nat : x = k * (n + 1) + WordAnd(x, n)
  BY <1>6 DEF LeftAfterRounds
<1>8. PICK l \in Nat : y = l * (n + 1) + WordAnd(y, n)
  BY <1>6 DEF LeftAfterRounds
<1>9. WordAnd(x, n) \in 0 .. n /\ WordAnd(y, n) \in 0 .. n
  BY <1>6 DEF LeftAfterRounds
<1>10. WordAnd(x, m) \in Nat /\ WordAnd(y, m) \in Nat
  BY <1>5, BitsAssumption DEF Countable
<1>11. k <= l
  <2>1. SUFFICES ASSUME l + 1 <= k PROVE FALSE
    OBVIOUS
  <2>2. (l + 1) * (n + 1) <= k * (n + 1) /\ l * (n + 1) \in Nat /\ k * (n + 1) \in Nat
    BY <2>1, ProductsGrow
  <2>3. (l + 1) * (n + 1) = l * (n + 1) + n + 1
    OBVIOUS
  <2>4. PICK p \in Nat, r \in Nat : p = l * (n + 1) /\ r = k * (n + 1)
    BY <2>2
  <2> QED BY <1>3, <1>7, <1>8, <1>9, <2>2, <2>3, <2>4
<1>12. k * (n + 1) <= l * (n + 1) /\ k * (n + 1) \in Nat /\ l * (n + 1) \in Nat
  BY <1>11, ProductsGrow
<1>13. WordAnd(x, m) = k * (n + 1) /\ WordAnd(y, m) = l * (n + 1)
  BY <1>3, <1>4, <1>7, <1>8, <1>9, <1>10, <1>12
<1> QED BY <1>3, <1>4, <1>9, <1>10, <1>12, <1>13

(* A set under a mask that is not refused holds what the mask leaves of    *)
(* each of its words, and only words, for words of any size: rounding down *)
(* keeps order, so the ends say enough, and a mask that covers a set       *)
(* changes none of it (value.rs, the comment on clears_low_bits).          *)
THEOREM MaskedHolds ==
  ASSUME NEW S, S \subseteq Word, NEW m \in Word, NEW T \in Masked(S, m), NEW x \in S
  PROVE  WordAnd(x, m) \in T /\ T \subseteq Word
<1>1. PICK lo \in Nat, hi \in Nat : /\ lo = Lo(S) /\ hi = Hi(S) /\ lo \in S /\ hi \in S
                                    /\ x \in Nat /\ lo <= x /\ x <= hi
                                    /\ MaxWord \in Nat /\ hi <= MaxWord
  BY EndsOfWords
<1>2. lo \in Word /\ hi \in Word /\ x \in Word /\ S # {}
  BY <1>1
<1>3. CASE ClearsLowBits(m)
  <2>1. T = WordAnd(lo, m) .. WordAnd(hi, m)
    <3>1. Masked(S, m) = {WordAnd(Lo(S), m) .. WordAnd(Hi(S), m)}
      BY <1>2, <1>3, Zenon DEF Masked, Some
    <3> QED BY <1>1, <3>1
  <2>2. /\ WordAnd(lo, m) \in Nat /\ WordAnd(lo, m) <= WordAnd(x, m)
        /\ WordAnd(x, m) \in Nat /\ WordAnd(x, m) <= WordAnd(hi, m)
        /\ WordAnd(hi, m) <= hi
    BY <1>1, <1>2, <1>3, RoundingKeepsOrder
  <2>3. WordAnd(hi, m) \in Nat
    BY <1>1, <1>2, <1>3, RoundingKeepsOrder
  <2> QED BY <1>1, <2>1, <2>2, <2>3 DEF Word
<1>4. CASE ~ ClearsLowBits(m)
  <2>1. IsLowMask(m) /\ S \subseteq Le(m) /\ T = S
    BY <1>4 DEF Masked, Some, Nothing
  <2>2. m \in 0 .. MaxWord /\ x \in Countable /\ x \in 0 .. m
    BY <1>1, <1>2, <2>1 DEF Word, Countable, Le
  <2>3. LeftAfterRounds(x, m)
    BY <1>1, <2>1, <2>2, LowMaskLeaves
  <2>4. PICK k \in Nat : x = k * (m + 1) + WordAnd(x, m)
    BY <2>3 DEF LeftAfterRounds
  <2>5. WordAnd(x, m) \in 0 .. m
    BY <2>3 DEF LeftAfterRounds
  <2>6. k = 0
    <3>1. SUFFICES ASSUME 1 <= k PROVE FALSE
      OBVIOUS
    <3>2. 1 * (m + 1) <= k * (m + 1) /\ k * (m + 1) \in Nat
      BY <2>2, <3>1, ProductsGrow
    <3>3. PICK p \in Nat : p = k * (m + 1)
      BY <3>2
    <3> QED BY <2>2, <2>4, <2>5, <3>2, <3>3
  <2>7. WordAnd(x, m) = x
    BY <2>2, <2>4, <2>5, <2>6
  <2> QED BY <2>1, <2>7
<1> QED BY <1>3, <1>4

-----------------------------------------------------------------------------
(* The order of two sets holds of every two of their values.               *)
LEMMA OrderOnHolds ==
  ASSUME NEW S, S \subseteq Word, NEW T, T \subseteq Word, NEW x \in S, NEW y \in T,
         NEW strict \in BOOLEAN, NEW b \in OrderOn(S, T, strict)
  PROVE  /\ b \in BOOLEAN
         /\ b <=> (x < y \/ (~strict /\ x = y))
<1>1. PICK lo \in Nat, hi \in Nat :
        lo = Lo(S) /\ hi = Hi(S) /\ x \in Nat /\ lo <= x /\ x <= hi
  BY EndsOfWords
<1>2. PICK low \in Nat, high \in Nat :
        low = Lo(T) /\ high = Hi(T) /\ y \in Nat /\ low <= y /\ y <= high
  BY EndsOfWords
<1>3. ~ (S = {} \/ T = {})
  OBVIOUS
<1>4. CASE hi < low \/ (~strict /\ hi = low)
  <2>1. OrderOn(S, T, strict) = {TRUE}
    BY <1>1, <1>2, <1>3, <1>4, Zenon DEF OrderOn, Some
  <2>2. x < y \/ (~strict /\ x = y)
    BY <1>1, <1>2, <1>4
  <2> QED BY <2>1, <2>2, Zenon
<1>5. CASE ~ (hi < low \/ (~strict /\ hi = low)) /\ (lo > high \/ (strict /\ lo = high))
  <2>1. OrderOn(S, T, strict) = {FALSE}
    BY <1>1, <1>2, <1>3, <1>5, Zenon DEF OrderOn, Some
  <2>2. ~ (x < y \/ (~strict /\ x = y))
    BY <1>1, <1>2, <1>5
  <2> QED BY <2>1, <2>2, Zenon
<1>6. CASE ~ (hi < low \/ (~strict /\ hi = low)) /\ ~ (lo > high \/ (strict /\ lo = high))
  <2>1. OrderOn(S, T, strict) = {}
    BY <1>1, <1>2, <1>3, <1>6, Zenon DEF OrderOn, Nothing
  <2> QED BY <2>1
<1> QED BY <1>4, <1>5, <1>6

LEMMA StrictOrderHolds ==
  ASSUME NEW S, S \subseteq Word, NEW T, T \subseteq Word, NEW x \in S, NEW y \in T,
         NEW b \in OrderOn(S, T, TRUE)
  PROVE  b \in BOOLEAN /\ (b <=> x < y)
<1>1. b \in BOOLEAN /\ (b <=> (x < y \/ (~TRUE /\ x = y)))
  BY OrderOnHolds, Zenon
<1> QED BY <1>1, Zenon

(* A word read as a two's complement number.                               *)
AsNumber(x) == IF x >= SignBit THEN x - 2^W ELSE x

LEMMA SignedOrderHolds ==
  ASSUME NEW S, S \subseteq Word, NEW T, T \subseteq Word, NEW x \in S, NEW y \in T,
         NEW b \in SignedOrder(S, T)
  PROVE  /\ b \in BOOLEAN
         /\ b <=> AsNumber(x) < AsNumber(y)
<1>1. /\ x \in Nat /\ y \in Nat /\ MaxWord \in Nat /\ x <= MaxWord /\ y <= MaxWord
      /\ ~ (S = {} \/ T = {})
  BY EndsOfWords
<1>2. 2^W \in Int /\ SignBit \in Int
  BY WAssumption DEF SignBit
<1>3. PICK m \in Int : m = 2^W /\ MaxWord = m - 1
  BY <1>2 DEF MaxWord
<1>4. x < m /\ y < m
  BY <1>1, <1>3
<1>5. (x \in Ge(SignBit) <=> x >= SignBit) /\ (y \in Ge(SignBit) <=> y >= SignBit)
  BY <1>1, <1>2 DEF Ge
<1>6. AsNumber(x) = (IF x >= SignBit THEN x - m ELSE x)
      /\ AsNumber(y) = (IF y >= SignBit THEN y - m ELSE y)
  BY <1>3, Zenon DEF AsNumber
<1>7. CASE S \subseteq Ge(SignBit) /\ T \cap Ge(SignBit) = {}
  <2>1. SignedOrder(S, T) = {TRUE}
    BY <1>1, <1>7, Zenon DEF SignedOrder, Some
  <2>2. x >= SignBit /\ ~ (y >= SignBit)
    BY <1>5, <1>7
  <2>3. AsNumber(x) < AsNumber(y)
    BY <1>1, <1>2, <1>3, <1>4, <1>6, <2>2
  <2> QED BY <2>1, <2>3, Zenon
<1>8. CASE /\ ~ (S \subseteq Ge(SignBit) /\ T \cap Ge(SignBit) = {})
           /\ S \cap Ge(SignBit) = {} /\ T \subseteq Ge(SignBit)
  <2>1. SignedOrder(S, T) = {FALSE}
    BY <1>1, <1>8, Zenon DEF SignedOrder, Some
  <2>2. ~ (x >= SignBit) /\ y >= SignBit
    BY <1>5, <1>8
  <2>3. ~ (AsNumber(x) < AsNumber(y))
    BY <1>1, <1>2, <1>3, <1>4, <1>6, <2>2
  <2> QED BY <2>1, <2>3, Zenon
<1>9. CASE /\ ~ (S \subseteq Ge(SignBit) /\ T \cap Ge(SignBit) = {})
           /\ ~ (S \cap Ge(SignBit) = {} /\ T \subseteq Ge(SignBit))
           /\ \/ S \subseteq Ge(SignBit) /\ T \subseteq Ge(SignBit)
              \/ S \cap Ge(SignBit) = {} /\ T \cap Ge(SignBit) = {}
  <2>1. SignedOrder(S, T) = OrderOn(S, T, TRUE)
    BY <1>1, <1>9, Zenon DEF SignedOrder
  <2>2. b \in BOOLEAN /\ (b <=> x < y)
    BY <2>1, StrictOrderHolds, Zenon
  <2>3. x >= SignBit <=> y >= SignBit
    BY <1>5, <1>9
  <2>4. (AsNumber(x) < AsNumber(y)) <=> x < y
    BY <1>1, <1>2, <1>3, <1>6, <2>3
  <2> QED BY <2>2, <2>4
<1>10. CASE /\ ~ (S \subseteq Ge(SignBit) /\ T \cap Ge(SignBit) = {})
            /\ ~ (S \cap Ge(SignBit) = {} /\ T \subseteq Ge(SignBit))
            /\ ~ \/ S \subseteq Ge(SignBit) /\ T \subseteq Ge(SignBit)
                 \/ S \cap Ge(SignBit) = {} /\ T \cap Ge(SignBit) = {}
  <2>1. SignedOrder(S, T) = {}
    BY <1>1, <1>10, Zenon DEF SignedOrder, Nothing
  <2> QED BY <2>1
<1> QED BY <1>7, <1>8, <1>9, <1>10

LEMMA EqualOnHolds ==
  ASSUME NEW S, S \subseteq Word, NEW T, T \subseteq Word, NEW x \in S, NEW y \in T,
         NEW b \in EqualOn(S, T)
  PROVE  b \in BOOLEAN /\ (b <=> x = y)
<1>1. CASE S \cap T = {}
  <2>1. EqualOn(S, T) = {FALSE}
    BY <1>1, Zenon DEF EqualOn, Some
  <2>2. x # y
    BY <1>1
  <2> QED BY <2>1, <2>2, Zenon
<1>2. CASE S \cap T # {} /\ S = T /\ Single(S)
  <2>1. EqualOn(S, T) = {TRUE}
    BY <1>2, Zenon DEF EqualOn, Some
  <2>2. MaxWord \in Nat
    BY EndsOfWords
  <2>3. IsFiniteSet(Word)
    BY <2>2, FS_Interval DEF Word
  <2>4. IsFiniteSet(S)
    BY <2>3, FS_Subset
  <2>5. PICK z : S = {z}
    BY <1>2, <2>4, FS_Singleton DEF Single
  <2>6. x = y
    BY <1>2, <2>5
  <2> QED BY <2>1, <2>6, Zenon
<1>3. CASE S \cap T # {} /\ ~ (S = T /\ Single(S))
  <2>1. EqualOn(S, T) = {}
    BY <1>3, Zenon DEF EqualOn, Nothing
  <2> QED BY <2>1
<1> QED BY <1>1, <1>2, <1>3

(* What a comparison of two words says.                                    *)
Compares(name, x, y) ==
  \/ name = "lt" /\ x < y
  \/ name = "gt" /\ y < x
  \/ name = "slt" /\ AsNumber(x) < AsNumber(y)
  \/ name = "sgt" /\ AsNumber(y) < AsNumber(x)
  \/ name = "eq" /\ x = y

(* A comparison answered by the values its sides can have is true, or      *)
(* false, of every two of them (decide_cond): the walk that follows the    *)
(* answer leaves no value behind.                                          *)
THEOREM ComparisonsHoldForValues ==
  ASSUME NEW S, S \subseteq Word, NEW T, T \subseteq Word, NEW x \in S, NEW y \in T,
         NEW name \in {"lt", "gt", "slt", "sgt", "eq"}, NEW b \in CompareOn(name, S, T)
  PROVE  b \in BOOLEAN /\ (b <=> Compares(name, x, y))
<1>1. CASE name = "lt"
  <2>1. CompareOn(name, S, T) = OrderOn(S, T, TRUE)
    BY <1>1 DEF CompareOn
  <2>2. b \in BOOLEAN /\ (b <=> x < y)
    BY <2>1, StrictOrderHolds, Zenon
  <2>3. Compares(name, x, y) <=> x < y
    BY <1>1 DEF Compares
  <2> QED BY <2>2, <2>3
<1>2. CASE name = "gt"
  <2>1. CompareOn(name, S, T) = OrderOn(T, S, TRUE)
    BY <1>2 DEF CompareOn
  <2>2. b \in BOOLEAN /\ (b <=> y < x)
    BY <2>1, StrictOrderHolds, Zenon
  <2>3. Compares(name, x, y) <=> y < x
    BY <1>2 DEF Compares
  <2> QED BY <2>2, <2>3
<1>3. CASE name = "slt"
  <2>1. CompareOn(name, S, T) = SignedOrder(S, T)
    BY <1>3 DEF CompareOn
  <2>2. b \in BOOLEAN /\ (b <=> AsNumber(x) < AsNumber(y))
    BY <2>1, SignedOrderHolds
  <2>3. Compares(name, x, y) <=> AsNumber(x) < AsNumber(y)
    BY <1>3 DEF Compares
  <2> QED BY <2>2, <2>3
<1>4. CASE name = "sgt"
  <2>1. CompareOn(name, S, T) = SignedOrder(T, S)
    BY <1>4 DEF CompareOn
  <2>2. b \in BOOLEAN /\ (b <=> AsNumber(y) < AsNumber(x))
    BY <2>1, SignedOrderHolds
  <2>3. Compares(name, x, y) <=> AsNumber(y) < AsNumber(x)
    BY <1>4 DEF Compares
  <2> QED BY <2>2, <2>3
<1>5. CASE name = "eq"
  <2>1. CompareOn(name, S, T) = EqualOn(S, T)
    BY <1>5 DEF CompareOn
  <2>2. b \in BOOLEAN /\ (b <=> x = y)
    BY <2>1, EqualOnHolds
  <2>3. Compares(name, x, y) <=> x = y
    BY <1>5 DEF Compares
  <2> QED BY <2>2, <2>3
<1> QED BY <1>1, <1>2, <1>3, <1>4, <1>5

(* A predicate over some variables, and what it says of their values.      *)
IsPredicate(p, names) ==
  \/ p = PTrue
  \/ p = PFalse
  \/ \E v \in names, S \in SUBSET Word : p = Over(v, S)
  \/ \E l, r \in names, strict \in BOOLEAN : p = Less(l, r, strict)

TrueOf(p, val) ==
  \/ p[1] = "true"
  \/ p[1] = "over" /\ val[p[2]] \in p[3]
  \/ p[1] = "less" /\ (val[p[2]] < val[p[3]] \/ (~p[4] /\ val[p[2]] = val[p[3]]))

LEMMA PredicateParts ==
  /\ PTrue[1] = "true" /\ PFalse[1] = "false" /\ PTrue # PFalse
  /\ \A v, S : /\ Over(v, S)[1] = "over" /\ Over(v, S)[2] = v /\ Over(v, S)[3] = S
               /\ Over(v, S) # PTrue /\ Over(v, S) # PFalse
  /\ \A l, r, s : /\ Less(l, r, s)[1] = "less" /\ Less(l, r, s)[2] = l
                  /\ Less(l, r, s)[3] = r /\ Less(l, r, s)[4] = s
                  /\ Less(l, r, s) # PTrue /\ Less(l, r, s) # PFalse
BY DEF PTrue, PFalse, Over, Less

LEMMA OverSays ==
  ASSUME NEW v, NEW S, NEW val
  PROVE  TrueOf(Over(v, S), val) <=> val[v] \in S
BY PredicateParts DEF TrueOf

LEMMA LessSays ==
  ASSUME NEW l, NEW r, NEW s, NEW val
  PROVE  TrueOf(Less(l, r, s), val) <=> (val[l] < val[r] \/ (~s /\ val[l] = val[r]))
BY PredicateParts DEF TrueOf

LEMMA ConstantsSay ==
  ASSUME NEW val
  PROVE  TrueOf(PTrue, val) /\ ~ TrueOf(PFalse, val)
BY PredicateParts DEF TrueOf

LEMMA NormaliseSays ==
  ASSUME NEW names, NEW v \in names, NEW S \in SUBSET Word, NEW val \in [names -> Word]
  PROVE  /\ IsPredicate(Normalise(v, S), names)
         /\ TrueOf(Normalise(v, S), val) <=> val[v] \in S
<1>1. CASE S = {}
  <2>1. Normalise(v, S) = PFalse
    BY <1>1, Zenon DEF Normalise
  <2> QED BY <1>1, <2>1, ConstantsSay DEF IsPredicate
<1>2. CASE S # {} /\ S = Word
  <2>1. Normalise(v, S) = PTrue
    BY <1>2, Zenon DEF Normalise
  <2> QED BY <1>2, <2>1, ConstantsSay DEF IsPredicate
<1>3. CASE S # {} /\ S # Word
  <2>1. Normalise(v, S) = Over(v, S)
    BY <1>3, Zenon DEF Normalise
  <2> QED BY <2>1, OverSays DEF IsPredicate
<1> QED BY <1>1, <1>2, <1>3

(* The negation of a predicate holds of exactly the values it does not     *)
(* (predicate.rs:3-7).                                                     *)
THEOREM NegateIsExact ==
  ASSUME NEW names, NEW p, IsPredicate(p, names), NEW val \in [names -> Word]
  PROVE  /\ IsPredicate(Negate(p), names)
         /\ TrueOf(Negate(p), val) <=> ~ TrueOf(p, val)
<1>1. CASE p = PTrue
  <2>1. Negate(p) = PFalse
    BY <1>1, Zenon DEF Negate
  <2> QED BY <1>1, <2>1, ConstantsSay DEF IsPredicate
<1>2. CASE p = PFalse
  <2>1. Negate(p) = PTrue
    BY <1>2, PredicateParts, Zenon DEF Negate
  <2> QED BY <1>2, <2>1, ConstantsSay DEF IsPredicate
<1>3. ASSUME NEW v \in names, NEW S \in SUBSET Word, p = Over(v, S)
      PROVE  IsPredicate(Negate(p), names) /\ (TrueOf(Negate(p), val) <=> ~ TrueOf(p, val))
  <2>1. /\ p # PTrue /\ p # PFalse
        /\ p[1] = "over" /\ p[2] = v /\ p[3] = S
    BY <1>3, PredicateParts
  <2>2. Negate(p) = Normalise(p[2], Word \ p[3])
    BY <2>1 DEF Negate
  <2>3. Negate(p) = Normalise(v, Word \ S)
    BY <2>1, <2>2
  <2>4. val[v] \in Word
    OBVIOUS
  <2>5. /\ IsPredicate(Normalise(v, Word \ S), names)
        /\ TrueOf(Normalise(v, Word \ S), val) <=> val[v] \in Word \ S
    BY NormaliseSays
  <2>6. TrueOf(p, val) <=> val[v] \in S
    BY <1>3, OverSays, Zenon
  <2> QED BY <2>3, <2>4, <2>5, <2>6
<1>4. ASSUME NEW l \in names, NEW r \in names, NEW strict \in BOOLEAN, p = Less(l, r, strict)
      PROVE  IsPredicate(Negate(p), names) /\ (TrueOf(Negate(p), val) <=> ~ TrueOf(p, val))
  <2>1. /\ p # PTrue /\ p # PFalse
        /\ p[1] = "less" /\ p[2] = l /\ p[3] = r /\ p[4] = strict
    BY <1>4, PredicateParts
  <2>2. Negate(p) = Less(p[3], p[2], ~p[4])
    BY <2>1 DEF Negate
  <2>3. PICK n \in BOOLEAN : (n <=> ~strict) /\ Negate(p) = Less(r, l, n)
    <3>1. (~strict) \in BOOLEAN
      OBVIOUS
    <3> QED BY <2>1, <2>2, <3>1
  <2>4. IsPredicate(Negate(p), names)
    BY <2>3 DEF IsPredicate
  <2>5. val[l] \in Int /\ val[r] \in Int
    <3>1. val[l] \in Word /\ val[r] \in Word
      OBVIOUS
    <3> QED BY <3>1 DEF Word
  <2>6. TrueOf(p, val) <=> (val[l] < val[r] \/ (~strict /\ val[l] = val[r]))
    BY <1>4, LessSays, Zenon
  <2>7. TrueOf(Negate(p), val) <=> (val[r] < val[l] \/ (~n /\ val[r] = val[l]))
    <3>1. TrueOf(Less(r, l, n), val) <=> (val[r] < val[l] \/ (~n /\ val[r] = val[l]))
      BY LessSays
    <3>2. Negate(p) = Less(r, l, n)
      BY <2>3
    <3> QED BY <3>1, <3>2
  <2>8. PICK x \in Int, y \in Int : x = val[l] /\ y = val[r]
    BY <2>5
  <2>9. TrueOf(p, val) <=> (x < y \/ (~strict /\ x = y))
    BY <2>6, <2>8, Zenon
  <2>10. TrueOf(Negate(p), val) <=> (y < x \/ (strict /\ x = y))
    BY <2>3, <2>7, <2>8, Zenon
  <2>11. (y < x \/ (strict /\ x = y)) <=> ~ (x < y \/ (~strict /\ x = y))
    OBVIOUS
  <2> QED BY <2>4, <2>9, <2>10, <2>11, Zenon
<1> QED BY <1>1, <1>2, <1>3, <1>4, Zenon DEF IsPredicate

(* Two predicates about one variable, and the sets they are over.          *)
LEMMA SameVariableParts ==
  ASSUME NEW names, NEW p, IsPredicate(p, names), NEW q, IsPredicate(q, names),
         SameVariable(p, q)
  PROVE  \E v \in names, S, T \in SUBSET Word :
            p = Over(v, S) /\ q = Over(v, T) /\ p[2] = v /\ p[3] = S /\ q[3] = T
<1>1. p[1] = "over" /\ q[1] = "over" /\ p[2] = q[2]
  BY DEF SameVariable
<1>2. PICK v \in names, S \in SUBSET Word : p = Over(v, S)
  BY <1>1, PredicateParts DEF IsPredicate
<1>3. PICK w \in names, T \in SUBSET Word : q = Over(w, T)
  BY <1>1, PredicateParts DEF IsPredicate
<1>4. p[2] = v /\ p[3] = S /\ q[2] = w /\ q[3] = T
  BY <1>2, <1>3, PredicateParts
<1> QED BY <1>1, <1>2, <1>3, <1>4

(* Two predicates combine to one that holds of exactly the values both     *)
(* hold of, or do not combine (Predicate::and).                            *)
THEOREM AndIsExact ==
  ASSUME NEW names, NEW p, IsPredicate(p, names), NEW q, IsPredicate(q, names),
         NEW val \in [names -> Word], NEW r \in PAnd(p, q)
  PROVE  /\ IsPredicate(r, names)
         /\ TrueOf(r, val) <=> TrueOf(p, val) /\ TrueOf(q, val)
<1>1. CASE p = PFalse \/ q = PFalse
  <2>1. PAnd(p, q) = {PFalse}
    BY <1>1, Zenon DEF PAnd, Some
  <2>2. r = PFalse
    BY <2>1
  <2> QED BY <1>1, <2>2, ConstantsSay, Zenon DEF IsPredicate
<1>2. CASE ~ (p = PFalse \/ q = PFalse) /\ p = PTrue
  <2>1. PAnd(p, q) = {q}
    BY <1>2, Zenon DEF PAnd, Some
  <2>2. r = q
    BY <2>1
  <2> QED BY <1>2, <2>2, ConstantsSay, Zenon
<1>3. CASE ~ (p = PFalse \/ q = PFalse) /\ p # PTrue /\ q = PTrue
  <2>1. PAnd(p, q) = {p}
    BY <1>3, Zenon DEF PAnd, Some
  <2>2. r = p
    BY <2>1
  <2> QED BY <1>3, <2>2, ConstantsSay, Zenon
<1>4. CASE ~ (p = PFalse \/ q = PFalse) /\ p # PTrue /\ q # PTrue /\ SameVariable(p, q)
  <2>1. PICK v \in names, S \in SUBSET Word, T \in SUBSET Word :
          p = Over(v, S) /\ q = Over(v, T) /\ p[2] = v /\ p[3] = S /\ q[3] = T
    BY <1>4, SameVariableParts
  <2>2. PAnd(p, q) = {Normalise(p[2], p[3] \cap q[3])}
    BY <1>4, Zenon DEF PAnd, Some
  <2>3. r = Normalise(v, S \cap T)
    BY <2>1, <2>2
  <2>4. /\ IsPredicate(Normalise(v, S \cap T), names)
        /\ TrueOf(Normalise(v, S \cap T), val) <=> val[v] \in S \cap T
    BY NormaliseSays
  <2>5. (TrueOf(p, val) <=> val[v] \in S) /\ (TrueOf(q, val) <=> val[v] \in T)
    BY <2>1, OverSays, Zenon
  <2> QED BY <2>3, <2>4, <2>5
<1>5. CASE ~ (p = PFalse \/ q = PFalse) /\ p # PTrue /\ q # PTrue /\ ~ SameVariable(p, q)
  <2>1. PAnd(p, q) = {}
    BY <1>5, Zenon DEF PAnd, Nothing
  <2> QED BY <2>1
<1> QED BY <1>1, <1>2, <1>3, <1>4, <1>5

(* The same of Predicate::or.                                              *)
THEOREM OrIsExact ==
  ASSUME NEW names, NEW p, IsPredicate(p, names), NEW q, IsPredicate(q, names),
         NEW val \in [names -> Word], NEW r \in POr(p, q)
  PROVE  /\ IsPredicate(r, names)
         /\ TrueOf(r, val) <=> TrueOf(p, val) \/ TrueOf(q, val)
<1>1. CASE p = PTrue \/ q = PTrue
  <2>1. POr(p, q) = {PTrue}
    BY <1>1, Zenon DEF POr, Some
  <2>2. r = PTrue
    BY <2>1
  <2> QED BY <1>1, <2>2, ConstantsSay, Zenon DEF IsPredicate
<1>2. CASE ~ (p = PTrue \/ q = PTrue) /\ p = PFalse
  <2>1. POr(p, q) = {q}
    BY <1>2, Zenon DEF POr, Some
  <2>2. r = q
    BY <2>1
  <2> QED BY <1>2, <2>2, ConstantsSay, Zenon
<1>3. CASE ~ (p = PTrue \/ q = PTrue) /\ p # PFalse /\ q = PFalse
  <2>1. POr(p, q) = {p}
    BY <1>3, Zenon DEF POr, Some
  <2>2. r = p
    BY <2>1
  <2> QED BY <1>3, <2>2, ConstantsSay, Zenon
<1>4. CASE ~ (p = PTrue \/ q = PTrue) /\ p # PFalse /\ q # PFalse /\ SameVariable(p, q)
  <2>1. PICK v \in names, S \in SUBSET Word, T \in SUBSET Word :
          p = Over(v, S) /\ q = Over(v, T) /\ p[2] = v /\ p[3] = S /\ q[3] = T
    BY <1>4, SameVariableParts
  <2>2. POr(p, q) = {Normalise(p[2], p[3] \cup q[3])}
    BY <1>4, Zenon DEF POr, Some
  <2>3. r = Normalise(v, S \cup T)
    BY <2>1, <2>2
  <2>4. /\ IsPredicate(Normalise(v, S \cup T), names)
        /\ TrueOf(Normalise(v, S \cup T), val) <=> val[v] \in S \cup T
    BY NormaliseSays
  <2>5. (TrueOf(p, val) <=> val[v] \in S) /\ (TrueOf(q, val) <=> val[v] \in T)
    BY <2>1, OverSays, Zenon
  <2> QED BY <2>3, <2>4, <2>5
<1>5. CASE ~ (p = PTrue \/ q = PTrue) /\ p # PFalse /\ q # PFalse /\ ~ SameVariable(p, q)
  <2>1. POr(p, q) = {}
    BY <1>5, Zenon DEF POr, Nothing
  <2> QED BY <2>1
<1> QED BY <1>1, <1>2, <1>3, <1>4, <1>5

(* A predicate decided on the sets its variables are in holds, or fails,   *)
(* of all the values in them (Predicate::decide).                          *)
THEOREM DecisionsHold ==
  ASSUME NEW names, NEW p, IsPredicate(p, names), NEW val \in [names -> Word],
         NEW env, \A v \in DOMAIN env : env[v] \subseteq Word /\ val[v] \in env[v],
         NEW b \in Decide(p, env)
  PROVE  b \in BOOLEAN /\ (b <=> TrueOf(p, val))
<1>1. CASE p = PTrue
  <2>1. Decide(p, env) = {TRUE}
    BY <1>1, Zenon DEF Decide, Some
  <2> QED BY <1>1, <2>1, ConstantsSay, Zenon
<1>2. CASE p = PFalse
  <2>1. Decide(p, env) = {FALSE}
    BY <1>2, PredicateParts, Zenon DEF Decide, Some
  <2> QED BY <1>2, <2>1, ConstantsSay, Zenon
<1>3. ASSUME NEW v \in names, NEW S \in SUBSET Word, p = Over(v, S)
      PROVE  b \in BOOLEAN /\ (b <=> TrueOf(p, val))
  <2>1. /\ p # PTrue /\ p # PFalse
        /\ p[1] # "less" /\ p[2] = v /\ p[3] = S
    BY <1>3, PredicateParts
  <2>2. TrueOf(p, val) <=> val[v] \in S
    BY <1>3, OverSays, Zenon
  <2>3. Decide(p, env) = IF p[2] \in DOMAIN env THEN InSet(env[p[2]], p[3]) ELSE Nothing
    BY <2>1, Zenon DEF Decide
  <2>4. v \in DOMAIN env /\ b \in InSet(env[v], S)
    BY <2>1, <2>3 DEF Nothing
  <2>5. val[v] \in env[v]
    BY <2>4
  <2>6. CASE env[v] \subseteq S
    <3>1. InSet(env[v], S) = {TRUE}
      BY <2>6, Zenon DEF InSet, Some
    <3>2. val[v] \in S
      BY <2>5, <2>6
    <3> QED BY <2>2, <2>4, <3>1, <3>2, Zenon
  <2>7. CASE ~ (env[v] \subseteq S) /\ env[v] \cap S = {}
    <3>1. InSet(env[v], S) = {FALSE}
      BY <2>7, Zenon DEF InSet, Some
    <3>2. val[v] \notin S
      BY <2>5, <2>7
    <3> QED BY <2>2, <2>4, <3>1, <3>2, Zenon
  <2>8. CASE ~ (env[v] \subseteq S) /\ env[v] \cap S # {}
    <3>1. InSet(env[v], S) = {}
      BY <2>8, Zenon DEF InSet, Nothing
    <3> QED BY <2>4, <3>1
  <2> QED BY <2>6, <2>7, <2>8
<1>4. ASSUME NEW l \in names, NEW r \in names, NEW strict \in BOOLEAN, p = Less(l, r, strict)
      PROVE  b \in BOOLEAN /\ (b <=> TrueOf(p, val))
  <2>1. /\ p # PTrue /\ p # PFalse
        /\ p[1] = "less" /\ p[2] = l /\ p[3] = r /\ p[4] = strict
    BY <1>4, PredicateParts
  <2>2. TrueOf(p, val) <=> (val[l] < val[r] \/ (~strict /\ val[l] = val[r]))
    BY <1>4, LessSays, Zenon
  <2>3. Decide(p, env) = IF {p[2], p[3]} \subseteq DOMAIN env
                         THEN OrderOn(env[p[2]], env[p[3]], p[4]) ELSE Nothing
    BY <2>1, Zenon DEF Decide
  <2>4. l \in DOMAIN env /\ r \in DOMAIN env /\ b \in OrderOn(env[l], env[r], strict)
    BY <2>1, <2>3 DEF Nothing
  <2>5. /\ env[l] \subseteq Word /\ val[l] \in env[l]
        /\ env[r] \subseteq Word /\ val[r] \in env[r]
    BY <2>4
  <2>6. b \in BOOLEAN /\ (b <=> (val[l] < val[r] \/ (~strict /\ val[l] = val[r])))
    <3>1. \A S, T : S \subseteq Word /\ T \subseteq Word =>
            \A x \in S, y \in T, a \in OrderOn(S, T, strict) :
                a \in BOOLEAN /\ (a <=> (x < y \/ (~strict /\ x = y)))
      BY OrderOnHolds
    <3>2. \A x \in env[l], y \in env[r], a \in OrderOn(env[l], env[r], strict) :
              a \in BOOLEAN /\ (a <=> (x < y \/ (~strict /\ x = y)))
      BY <2>5, <3>1, Zenon
    <3>3. PICK x, y : x = val[l] /\ y = val[r]
      OBVIOUS
    <3>4. b \in BOOLEAN /\ (b <=> (x < y \/ (~strict /\ x = y)))
      BY <2>4, <2>5, <3>2, <3>3, Zenon
    <3> QED BY <3>3, <3>4, Zenon
  <2> QED BY <2>2, <2>6, Zenon
<1> QED BY <1>1, <1>2, <1>3, <1>4, Zenon DEF IsPredicate

(* A bare value is true unless it is zero.                                 *)
LEMMA NonzeroHolds ==
  ASSUME NEW S, NEW x \in S, NEW b \in NonzeroOn(S)
  PROVE  b \in BOOLEAN /\ (b <=> x # 0)
<1>1. CASE 0 \notin S
  <2>1. NonzeroOn(S) = {TRUE} /\ x # 0
    BY <1>1, Zenon DEF NonzeroOn, Some
  <2> QED BY <2>1, Zenon
<1>2. CASE 0 \in S /\ S = {0}
  <2>1. NonzeroOn(S) = {FALSE}
    BY <1>2, Zenon DEF NonzeroOn, Some
  <2>2. x = 0
    BY <1>2
  <2> QED BY <2>1, <2>2, Zenon
<1>3. CASE 0 \in S /\ S # {0}
  <2>1. NonzeroOn(S) = {}
    BY <1>3, Zenon DEF NonzeroOn, Nothing
  <2> QED BY <2>1
<1> QED BY <1>1, <1>2, <1>3

(* Two answers joined answer the conjunction, or the disjunction, whatever *)
(* is not known of the other side (decide_cond).                           *)
THEOREM JoinedHolds ==
  ASSUME NEW p \in SUBSET BOOLEAN, NEW q \in SUBSET BOOLEAN,
         NEW P \in BOOLEAN, NEW Q \in BOOLEAN, \A b \in p : b = P, \A b \in q : b = Q,
         NEW name \in {"and", "or"}, NEW r \in Joined(name, p, q)
  PROVE  r \in BOOLEAN /\ (r <=> IF name = "or" THEN P \/ Q ELSE P /\ Q)
<1>1. p \in {{}, {P}} /\ q \in {{}, {Q}}
  OBVIOUS
<1>2. CASE name = "or"
  <2>1. Joined(name, p, q) = IF TRUE \in p \cup q THEN {TRUE}
                             ELSE IF p # {} /\ q # {} THEN {FALSE} ELSE {}
    BY <1>2 DEF Joined, Some, BothKnown, Nothing
  <2> QED BY <1>1, <1>2, <2>1
<1>3. CASE name = "and"
  <2>1. Joined(name, p, q) = IF FALSE \in p \cup q THEN {FALSE}
                             ELSE IF p # {} /\ q # {} THEN {TRUE} ELSE {}
    BY <1>3 DEF Joined, Some, BothKnown, Nothing
  <2> QED BY <1>1, <1>3, <2>1
<1> QED BY <1>2, <1>3

(* The set a signed comparison with a literal names holds exactly the      *)
(* words whose two's complement reading compares that way (interval.rs).   *)
THEOREM SignedSetsTellWords ==
  ASSUME NEW k \in Word, NEW x \in Word
  PROVE  /\ x \in SignedLt(k) <=> AsNumber(x) < AsNumber(k)
         /\ x \in SignedGt(k) <=> AsNumber(x) > AsNumber(k)
<1>1. MaxWord \in Nat /\ x \in Nat /\ k \in Nat /\ x <= MaxWord /\ k <= MaxWord
  BY EndsOfWords
<1>2. 2^W \in Int /\ SignBit \in Int
  BY WAssumption DEF SignBit
<1>3. PICK m \in Int : m = 2^W /\ MaxWord = m - 1
  BY <1>2 DEF MaxWord
<1>4. PICK s \in Int : s = SignBit
  BY <1>2
<1>5. PICK i \in Int : i = AsNumber(x) /\ i = IF x >= s THEN x - m ELSE x
  BY <1>1, <1>3, <1>4 DEF AsNumber
<1>6. PICK j \in Int : j = AsNumber(k) /\ j = IF k >= s THEN k - m ELSE k
  BY <1>1, <1>3, <1>4 DEF AsNumber
<1>7. x \in SignedLt(k) <=> i < j
  <2>1. CASE k >= s
    <3>1. SignedLt(k) = s .. k - 1
      BY <1>4, <2>1 DEF SignedLt
    <3>2. x \in SignedLt(k) <=> s <= x /\ x < k
      BY <1>1, <1>4, <3>1
    <3> QED BY <1>1, <1>3, <1>5, <1>6, <2>1, <3>2
  <2>2. CASE ~ (k >= s)
    <3>1. SignedLt(k) = (0 .. k - 1) \cup (s .. MaxWord)
      BY <1>4, <2>2 DEF SignedLt, Lt, Ge
    <3> QED BY <1>1, <1>3, <1>5, <1>6, <2>2, <3>1
  <2> QED BY <2>1, <2>2
<1>8. x = k <=> i = j
  BY <1>1, <1>3, <1>5, <1>6
<1>9. x \in SignedGt(k) <=> ~ (x \in SignedLt(k)) /\ x # k
  BY DEF SignedGt
<1>10. x \in SignedGt(k) <=> i > j
  BY <1>7, <1>8, <1>9
<1> QED BY <1>5, <1>6, <1>7, <1>10
=============================================================================
