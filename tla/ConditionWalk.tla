---------------------------- MODULE ConditionWalk ----------------------------
(***************************************************************************)
(* The conditions of one path.  Two variables x and y start in their       *)
(* declared domains; the domain is first split by predicates of one        *)
(* variable (partition_within), and then the path takes a side on one      *)
(* condition after another, forking where nothing answers it.  What is     *)
(* checked is what the answers say of concrete values: every ghost below   *)
(* is computed by running the condition, never by the domains.             *)
(***************************************************************************)
EXTENDS Conditions, Partition, PathFacts

CONSTANTS
    SplitConds,   \* conditions the domain may be split by
    Written,      \* conditions the path meets, before lowering folds them
    MaxSplits,    \* bound on the splits
    MaxMet        \* bound on the splits and the conditions a path meets

ASSUME SameWords == Top = MaxWord /\ Vars = {"x", "y"}
ASSUME PathCondsAreFolded == PathConds = {FoldFixpoint(cond) : cond \in Written}

VARIABLES
    splits,       \* <<condition, side>> of each split
    answered      \* <<condition, side>> the walk answered by itself

vars == <<partVars, splits, answered, pathVars>>

NoNames == [slots |-> <<>>, immutables |-> <<>>, versions |-> <<>>, raw |-> <<>>]
Ctx == [env |-> [v \in Vars |-> Members(regions[v])], region |-> <<>>,
        memory |-> <<>>, pure |-> <<>>]

(* Yul's own semantics of an expression over x and y.                      *)
RECURSIVE Run(_, _)
Run(e, val) ==
    CASE IsLit(e) -> e[2]
      [] IsId(e) -> val[e[2]]
      [] Len(e[3]) = 1 -> Apply1(e[2], Run(e[3][1], val))
      [] OTHER -> Apply2(e[2], Run(e[3][1], val), Run(e[3][2], val))

(* What the constants of PathFacts are in the runs.                        *)
PathTerm(e) == Term(e, [v \in Vars |-> Id(v)], NoNames)
PathRelation(cond) == Rel(PathTerm(cond), FALSE)

InDomain == {val \in [Vars -> Word] : \A v \in Vars : val[v] \in Members(domains[v])}

(* What concrete values a path can have.                                   *)
OnPath == {val \in InDomain : Agrees(val, splits) /\ Agrees(val, forked)}

Init ==
    /\ PartInit
    /\ PathInit
    /\ splits = {} /\ answered = {}

(* A domain's universe decides which cleanups a predicate may drop.        *)
Universe == Members(domains["x"]) \cup Members(domains["y"])

(* One piece of the partition: the set of the predicate, or what is left.  *)
Split(cond) ==
    /\ answered = {} /\ forked = {}
    /\ Cardinality(splits) < MaxSplits
    /\ \E p \in Translate(cond, Universe) : \E side \in BOOLEAN :
         /\ PVar(p) # Nothing
         /\ Cut(Get(PVar(p)), PSet(p), side)
         /\ splits' = splits \cup {<<cond, side>>}
    /\ UNCHANGED <<answered, pathVars>>

(* The path meets a condition, folded when the contract was lowered.       *)
Take(written) ==
    /\ Cardinality(splits \cup answered \cup forked) < MaxMet
    /\ \E cond \in {FoldFixpoint(written)} :
       \E answer \in {AnswerOf(cond, Translate(cond, Universe), Ctx, RelOf(cond), facts)} :
         IF answer # Nothing
         THEN /\ answered' = answered \cup {<<cond, Get(answer)>>}
              /\ UNCHANGED pathVars
         ELSE /\ \E side \in BOOLEAN : Fork(cond, side)
              /\ UNCHANGED answered
    /\ UNCHANGED <<partVars, splits>>

Next ==
    \/ \E cond \in SplitConds : Split(cond)
    \/ \E written \in Written : Take(written)

Spec == Init /\ [][Next]_vars

-----------------------------------------------------------------------------
(* A piece of the partition holds exactly the values on which the          *)
(* conditions that cut it went the way the piece says: the predicates are  *)
(* exact, and the ranges lose and gain nothing (predicate.rs:3-7).         *)
RegionIsExact ==
    \A val \in InDomain :
        (\A v \in Vars : val[v] \in Members(regions[v])) <=> Agrees(val, splits)

(* A condition the walk answers without a fork goes that way for every     *)
(* value the path can have, and a value set holds the expression's value:  *)
(* no branch the contract has is dropped.                                  *)
AnswersAreSound ==
    \A val \in OnPath :
        /\ Agrees(val, answered)
        /\ \A e \in Values : \A S \in Eval(e, Ctx) : ValueOf(e, val) \in S

(* Folding a condition keeps its value (fold.rs), for the values that take *)
(* the path it is met on.                                                  *)
FoldKeepsValue ==
    LET vals == OnPath
    IN  \A written \in Written :
            LET folded == FoldFixpoint(written)
            IN  (\E s \in answered \cup forked : s[1] = folded) =>
                    \A val \in vals : Run(folded, val) = Run(written, val)
=============================================================================
