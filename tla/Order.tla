------------------------------- MODULE Order -------------------------------
(***************************************************************************)
(* Relations between terms, the sides of them a path has taken, and what   *)
(* order facts settle together (order.rs).  Nothing here depends on what a *)
(* term is, beyond being an expression.                                    *)
(***************************************************************************)
EXTENDS Words

CONSTANT OverStorage(_)   \* terms that mention storage the layout names

(* A relation is <<"<", l, r>>, <<"<=", l, r>> or <<"==", {l, r}>>:        *)
(* equality has no sides.                                                  *)
LtKey(l, r) == <<"<", l, r>>
LeKey(l, r) == <<"<=", l, r>>
EqKey(l, r) == <<"==", {l, r}>>

Relates(key, sense) == [key |-> key, sense |-> sense]

-----------------------------------------------------------------------------
(* Order facts as edges <<a, b, strict>>: a <= b, or a < b.  facts maps    *)
(* the relations a path took a side on to that side.                       *)
(* Fault: a strict fact taken to be false keeps its strictness.            *)
LtFactStrict(l, r, holds) == IF holds THEN {<<l, r, TRUE>>} ELSE {<<r, l, TRUE>>}

LtFact(l, r, holds) == IF holds THEN {<<l, r, TRUE>>} ELSE {<<r, l, FALSE>>}

EdgesOfFact(key, holds) ==
    CASE key[1] = "==" -> IF holds THEN {<<p[1], p[2], FALSE>> : p \in key[2] \X key[2]}
                          ELSE {}
      [] key[1] = "<=" -> IF holds THEN {<<key[2], key[3], FALSE>>}
                          ELSE {<<key[3], key[2], TRUE>>}
      [] key[1] = "<"  -> LtFact(key[2], key[3], holds)

EdgesOf(facts) == UNION {EdgesOfFact(k, facts[k]) : k \in DOMAIN facts}

EdgeTerms(edges) == UNION {{e[1], e[2]} : e \in edges}
Literals(edges) == {t[2] : t \in {u \in EdgeTerms(edges) : IsLit(u)}}

(* t + k is above t when a literal bound on t leaves room for k.           *)
LiteralBounds(t, edges) == {e[2][2] : e \in {f \in edges : f[1] = t /\ IsLit(f[2])}}
RoomFor(t, k, edges) ==
    /\ LiteralBounds(t, edges) # {}
    /\ MaxWord - Min(LiteralBounds(t, edges)) >= k

SumEdges(edges) ==
    UNION {{<<s[3][i], s, TRUE>> :
               i \in {j \in 1 .. 2 : /\ IsLit(s[3][3 - j]) /\ s[3][3 - j][2] > 0
                                     /\ RoomFor(s[3][j], s[3][3 - j][2], edges)}}
           : s \in {t \in EdgeTerms(edges) : IsCallOf(t, "add", 2)}}

(* a - b is at most a once b <= a is an edge; two rounds.                  *)
(* Fault: a difference is below what it is taken from in any case.         *)
NotWrappingAssumed(s, edges) == TRUE

NotWrapping(s, edges) == \E e \in edges : e[1] = s[3][2] /\ e[2] = s[3][1]

DifferenceEdges(edges) ==
    {<<s, s[3][1], FALSE>> :
        s \in {t \in EdgeTerms(edges) : IsCallOf(t, "sub", 2) /\ NotWrapping(t, edges)}}

WithDifferences(edges) ==
    LET once == edges \cup DifferenceEdges(edges)
    IN  once \cup DifferenceEdges(once)

(* Or only sets bits and and only clears them.  Terms over named storage   *)
(* are left out: the variable may be narrower than its word.               *)
BitEdges(edges) ==
    UNION {{IF t[2] = "or" THEN <<t[3][i], t, FALSE>> ELSE <<t, t[3][i], FALSE>>
               : i \in 1 .. 2}
           : t \in {u \in EdgeTerms(edges) :
                      (IsCallOf(u, "or", 2) \/ IsCallOf(u, "and", 2)) /\ ~OverStorage(u)}}

LiteralEdges(edges) ==
    {<<Lit(v[1]), Lit(v[2]), TRUE>> :
        v \in {w \in Literals(edges) \X Literals(edges) : w[1] < w[2]}}

(* What edges lead to from some terms, as many rounds as there are terms.  *)
ReachFrom(seen, edges) ==
    LET n == Cardinality(EdgeTerms(edges))
        after[k \in 0 .. n] ==
            IF k = 0 THEN seen
            ELSE LET before == after[k - 1]
                 IN  before \cup {e[2] : e \in {f \in edges : f[1] \in before}}
    IN  after[n]

(* Beyond this many terms nothing is concluded.                            *)
MaxNodes == 96

(* The facts with what the arithmetic of their terms adds.                 *)
Closed(given) ==
    LET sums == WithDifferences(given \cup SumEdges(given))
        bits == sums \cup BitEdges(sums)
    IN  bits \cup LiteralEdges(bits)

(* A term strictly below itself: the facts cannot all hold.                *)
Contradictory(given) ==
    LET edges == Closed(given)
    IN  /\ Cardinality(EdgeTerms(edges)) <= MaxNodes
        /\ \E e \in edges : e[3] /\ e[1] \in ReachFrom({e[2]}, edges)

(* What the facts pin a term between, tried one literal at a time.         *)
Floor(v, edges, term) ==
    IF Contradictory(edges \cup {<<term, Lit(v), FALSE>>})
    THEN IF v < MaxWord THEN v + 1 ELSE 0
    ELSE IF Contradictory(edges \cup {<<term, Lit(v), TRUE>>}) THEN v ELSE 0

Ceiling(v, edges, term) ==
    IF Contradictory(edges \cup {<<Lit(v), term, FALSE>>})
    THEN IF v > 0 THEN v - 1 ELSE MaxWord
    ELSE IF Contradictory(edges \cup {<<Lit(v), term, TRUE>>}) THEN v ELSE MaxWord

BoundsOf(edges, term) ==
    Max({0} \cup {Floor(v, edges, term) : v \in Literals(edges)}) ..
        Min({MaxWord} \cup {Ceiling(v, edges, term) : v \in Literals(edges)})

-----------------------------------------------------------------------------
(* The sides a path has taken, a function on relations.                    *)
Found(table, x) == IF x \in DOMAIN table THEN Some(table[x]) ELSE Nothing

(* A relation between literals, or of a term with itself, needs no fork.   *)
SettledEquality(terms) ==
    IF Single(terms) THEN Some(TRUE)
    ELSE IF \A t \in terms : IsLit(t) THEN Some(FALSE) ELSE Nothing

SettledOrder(op, l, r) ==
    IF l = r THEN Some(op = "<=")
    ELSE IF IsLit(l) /\ IsLit(r)
         THEN Some(IF op = "<" THEN l[2] < r[2] ELSE l[2] <= r[2])
         ELSE Nothing

Settled(key) ==
    IF key[1] = "==" THEN SettledEquality(key[2])
    ELSE SettledOrder(key[1], key[2], key[3])

(* Fault: the side is the relation's, whichever way the condition asked.   *)
SideOfSenseless(rel, facts) ==
    OrElse(Settled(rel.key), Found(facts, rel.key))

(* The side a condition has on this path already.                          *)
SideOf(rel, facts) ==
    {b = rel.sense : b \in OrElse(Settled(rel.key), Found(facts, rel.key))}

(* What a path knows once it has forked.                                   *)
Recorded(rel, side, facts) ==
    [k \in DOMAIN facts \cup {rel.key} |-> IF k = rel.key THEN rel.sense = side ELSE facts[k]]
=============================================================================
