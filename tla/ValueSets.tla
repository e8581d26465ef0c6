------------------------------ MODULE ValueSets ------------------------------
(***************************************************************************)
(* Sets of words under arithmetic and masks (value.rs), predicates over    *)
(* them, and what they decide (predicate.rs).  Every refusal is Nothing:   *)
(* the walk then takes the condition both ways, so a wrong answer is worse *)
(* than none.                                                              *)
(***************************************************************************)
EXTENDS Words

CONSTANT WordAnd(_, _)   \* the bits that two words have in common

BothKnown(l, r) == l # Nothing /\ r # Nothing

Minus(l, r) ==
    IF Lo(l) >= Hi(r) THEN Some(Lo(l) - Hi(r) .. Hi(l) - Lo(r)) ELSE Nothing

(* Sums, differences and products of the ends, refused where they can wrap.*)
Arith(op, l, r) ==
    CASE l = {} \/ r = {} -> Some({})
      [] op = "add" /\ Hi(l) + Hi(r) <= MaxWord
           -> Some(Lo(l) + Lo(r) .. Hi(l) + Hi(r))
      [] op = "sub" -> Minus(l, r)
      [] op = "mul" /\ Hi(l) * Hi(r) <= MaxWord
           -> Some(Lo(l) * Lo(r) .. Hi(l) * Hi(r))
      [] OTHER -> Nothing

IsLowMask(m) == WordAnd(m, m + 1) = 0
ClearsLowBits(m) == m \notin {0, MaxWord} /\ IsLowMask(MaxWord - m)

(* A set under a mask: a high-bit mask rounds the ends down, a low-bit     *)
(* mask must cover the set, and any other mask is refused.                 *)
Masked(S, m) ==
    IF ClearsLowBits(m)
    THEN Some(IF S = {} THEN {0} ELSE WordAnd(Lo(S), m) .. WordAnd(Hi(S), m))
    ELSE IF IsLowMask(m) /\ S \subseteq Le(m) THEN Some(S) ELSE Nothing

(* What is known of the bits of a word, the lowest first; the provers know *)
(* nothing of powers, so also that the largest word has all of its bits.   *)
ASSUME BitsAssumption ==
    /\ \A x, y \in 0 .. MaxWord + 1 :
          /\ WordAnd(x, y) \in Nat
          /\ WordAnd(x, y) = 2 * WordAnd(x \div 2, y \div 2) + (x % 2) * (y % 2)
    /\ IsLowMask(MaxWord)

-----------------------------------------------------------------------------
(* Predicates: true, false, a variable in a set, one variable below        *)
(* another (strictly or not).                                              *)
PTrue == <<"true">>
PFalse == <<"false">>
Over(v, S) == <<"over", v, S>>
Less(l, r, strict) == <<"less", l, r, strict>>

Normalise(v, S) ==
    IF S = {} THEN PFalse ELSE IF S = Word THEN PTrue ELSE Over(v, S)

Negate(p) ==
    IF p = PTrue THEN PFalse
    ELSE IF p = PFalse THEN PTrue
    ELSE IF p[1] = "less" THEN Less(p[3], p[2], ~p[4])
    ELSE Normalise(p[2], Word \ p[3])

(* Two predicates combine only when they are about one variable.           *)
SameVariable(p, q) == p[1] = "over" /\ q[1] = "over" /\ p[2] = q[2]

PAnd(p, q) ==
    IF p = PFalse \/ q = PFalse THEN Some(PFalse)
    ELSE IF p = PTrue THEN Some(q)
    ELSE IF q = PTrue THEN Some(p)
    ELSE IF SameVariable(p, q) THEN Some(Normalise(p[2], p[3] \cap q[3]))
    ELSE Nothing

POr(p, q) ==
    IF p = PTrue \/ q = PTrue THEN Some(PTrue)
    ELSE IF p = PFalse THEN Some(q)
    ELSE IF q = PFalse THEN Some(p)
    ELSE IF SameVariable(p, q) THEN Some(Normalise(p[2], p[3] \cup q[3]))
    ELSE Nothing

(* The variable a predicate refines the partition of, and by which set.    *)
PVar(p) == IF p[1] = "over" THEN Some(p[2]) ELSE Nothing
PSet(p) == CASE p[1] = "over" -> p[3] [] p = PFalse -> {} [] OTHER -> Word

(* A predicate decided on the sets its variables range over.               *)
OrderOn(l, r, strict) ==
    IF l = {} \/ r = {} THEN Nothing
    ELSE IF Hi(l) < Lo(r) \/ (~strict /\ Hi(l) = Lo(r)) THEN Some(TRUE)
    ELSE IF Lo(l) > Hi(r) \/ (strict /\ Lo(l) = Hi(r)) THEN Some(FALSE)
    ELSE Nothing

InSet(S, T) ==
    IF S \subseteq T THEN Some(TRUE)
    ELSE IF S \cap T = {} THEN Some(FALSE) ELSE Nothing

Decide(p, env) ==
    IF p = PTrue THEN Some(TRUE)
    ELSE IF p = PFalse THEN Some(FALSE)
    ELSE IF p[1] = "less"
    THEN IF {p[2], p[3]} \subseteq DOMAIN env
         THEN OrderOn(env[p[2]], env[p[3]], p[4]) ELSE Nothing
    ELSE IF p[2] \in DOMAIN env THEN InSet(env[p[2]], p[3]) ELSE Nothing

-----------------------------------------------------------------------------
(* A condition answered by the values its sides can have (model.rs).       *)
(* The sign settles a signed comparison, or the words compare within it.   *)
SignedOrder(l, r) ==
    LET negative == Ge(SignBit)
        below(S) == S \subseteq negative
        above(S) == S \cap negative = {}
    IN  IF l = {} \/ r = {} THEN Nothing
        ELSE IF below(l) /\ above(r) THEN Some(TRUE)
        ELSE IF above(l) /\ below(r) THEN Some(FALSE)
        ELSE IF (below(l) /\ below(r)) \/ (above(l) /\ above(r))
             THEN OrderOn(l, r, TRUE) ELSE Nothing

EqualOn(l, r) ==
    IF l \cap r = {} THEN Some(FALSE)
    ELSE IF l = r /\ Single(l) THEN Some(TRUE) ELSE Nothing

NonzeroOn(S) ==
    IF 0 \notin S THEN Some(TRUE) ELSE IF S = {0} THEN Some(FALSE) ELSE Nothing

CompareOn(name, l, r) ==
    CASE name = "lt" -> OrderOn(l, r, TRUE)
      [] name = "gt" -> OrderOn(r, l, TRUE)
      [] name = "slt" -> SignedOrder(l, r)
      [] name = "sgt" -> SignedOrder(r, l)
      [] name = "eq" -> EqualOn(l, r)

(* A conjunction is false by one side and true by both.                    *)
Joined(name, p, q) ==
    LET one == name = "or"
    IN  IF one \in p \cup q THEN Some(one)
        ELSE IF BothKnown(p, q) THEN Some(~one) ELSE Nothing
=============================================================================
