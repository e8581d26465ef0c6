----------------------------- MODULE PathFacts -----------------------------
(***************************************************************************)
(* What a path takes for granted.  Where nothing answers a condition the   *)
(* walk forks (decide_or_split): the path goes on with one side of it, and *)
(* remembers that side of the relation the condition is in its canonical   *)
(* form.  Later conditions on the path are answered from what it           *)
(* remembers, the path is given up when that contradicts itself, and       *)
(* stores are placed by the bounds it puts on a term.  How a condition     *)
(* becomes a relation is Terms'; here it is a constant.                    *)
(***************************************************************************)
EXTENDS Order

CONSTANTS
    PathConds,       \* conditions the path meets
    Values,          \* expressions looked at along the path
    Valuations,      \* the values the variables can have, by their types
    PathTerms,       \* terms of the conditions' relations and the expressions
    RelOf(_),        \* the relation a condition is, and in which sense
    TermOf(_),       \* the term of an expression
    ValueOf(_, _)    \* what an expression or a term is under a valuation

VARIABLES
    forked,          \* <<condition, side>> the walk forked on
    facts            \* the sides of relations recorded by the forks

pathVars == <<forked, facts>>

-----------------------------------------------------------------------------
(* What is needed of terms: that they mean words, and what a sum, a        *)
(* difference and an or or and of bits are at least.                       *)
ArgsIn(t, T) == t[3][1] \in T /\ t[3][2] \in T

IsTermSet(T) ==
    /\ IsFiniteSet(T)
    /\ \A t \in T :
         /\ IsLit(t) => t = Lit(t[2])
         /\ \A f \in {"add", "sub", "or", "and"} : IsCallOf(t, f, 2) => ArgsIn(t, T)

(* m gives each term of T its word.                                        *)
Wrapped(n) == IF n > MaxWord THEN n - (MaxWord + 1) ELSE IF n < 0 THEN n + (MaxWord + 1) ELSE n

IsMeaning(m, T) ==
    /\ m \in [T -> Word]
    /\ \A t \in T :
         /\ IsLit(t) => m[t] = t[2]
         /\ IsCallOf(t, "add", 2) => m[t] = Wrapped(m[t[3][1]] + m[t[3][2]])
         /\ IsCallOf(t, "sub", 2) => m[t] = Wrapped(m[t[3][1]] - m[t[3][2]])
         /\ IsCallOf(t, "or", 2) /\ ~OverStorage(t)
              => m[t[3][1]] <= m[t] /\ m[t[3][2]] <= m[t]
         /\ IsCallOf(t, "and", 2) /\ ~OverStorage(t)
              => m[t] <= m[t[3][1]] /\ m[t] <= m[t[3][2]]

Meaning(val) == [t \in PathTerms |-> ValueOf(t, val)]

(* Whether a relation is true.                                             *)
IsKey(key, T) ==
    \E l, r \in T : key \in {LtKey(l, r), LeKey(l, r), EqKey(l, r)}

Holds(key, m) ==
    IF key[1] = "==" THEN \A s, t \in key[2] : m[s] = m[t]
    ELSE IF key[1] = "<" THEN m[key[2]] < m[key[3]]
    ELSE m[key[2]] <= m[key[3]]

ASSUME TermsAssumption ==
    /\ IsTermSet(PathTerms)
    /\ \A val \in Valuations : IsMeaning(Meaning(val), PathTerms)

(* A condition is its relation, in the sense the relation is recorded in.  *)
ASSUME RelationAssumption ==
    \A cond \in PathConds :
        /\ IsKey(RelOf(cond).key, PathTerms) /\ RelOf(cond).sense \in BOOLEAN
        /\ \A val \in Valuations :
             (ValueOf(cond, val) # 0) = (Holds(RelOf(cond).key, Meaning(val)) = RelOf(cond).sense)

ASSUME ValuesAssumption ==
    \A e \in Values :
        /\ TermOf(e) \in PathTerms
        /\ \A val \in Valuations : ValueOf(e, val) = ValueOf(TermOf(e), val)

-----------------------------------------------------------------------------
Agrees(val, sides) == \A s \in sides : (ValueOf(s[1], val) # 0) = s[2]

(* The values with which the contract goes the way of the path.            *)
PathValues == {val \in Valuations : Agrees(val, forked)}

PathInit == forked = {} /\ facts = <<>>

Fork(cond, side) ==
    /\ forked' = forked \cup {<<cond, side>>}
    /\ facts' = Recorded(RelOf(cond), side, facts)

PathNext == \E cond \in PathConds, side \in BOOLEAN : Fork(cond, side)

PathSpec == PathInit /\ [][PathNext]_pathVars

-----------------------------------------------------------------------------
(* The order facts of a path contradict each other only when no value      *)
(* takes the path: no behaviour is given up (order.rs:35-41).              *)
ContradictionIsReal == Contradictory(EdgesOf(facts)) => PathValues = {}

(* What the facts pin a term between holds the term's value, for every     *)
(* value that takes the path (order.rs:223-229): a store lands in the      *)
(* region it is placed in.                                                 *)
BoundsHoldValue ==
    \A e \in Values :
        LET bounds == BoundsOf(EdgesOf(facts), TermOf(e))
        IN  \A val \in PathValues : ValueOf(e, val) \in bounds

(* What a path remembers answers a condition as every value that takes the *)
(* path would.                                                             *)
MemoryIsSound ==
    \A cond \in PathConds : \A b \in SideOf(RelOf(cond), facts) :
        \A val \in PathValues : (ValueOf(cond, val) # 0) = b
=============================================================================
