----------------------------- MODULE Predicates -----------------------------
(***************************************************************************)
(* What values an expression can take (value.rs), and guard conditions as  *)
(* predicates over one variable (predicate.rs).  An environment maps the   *)
(* names in scope to the set of words each can hold; a name it does not    *)
(* map is unknown.  Every refusal is Nothing: the walk then takes the      *)
(* condition both ways, so a wrong answer here is worse than none.         *)
(***************************************************************************)
EXTENDS Yul, ValueSets

RECURSIVE ValueSet(_, _)

AndValue(x, y, env) ==
    LET l == LitOf(x)
        r == LitOf(y)
        a == ValueSet(x, env)
        b == ValueSet(y, env)
    IN  CASE l # None /\ r # None -> Some({WordAnd(l, r)})
          [] r # None /\ l = None -> UNION {Masked(S, r) : S \in a}
          [] l # None /\ r = None -> UNION {Masked(S, l) : S \in b}
          [] ~BothKnown(a, b) -> Nothing
          [] Single(Get(a)) /\ Single(Get(b)) -> Some({WordAnd(Lo(Get(a)), Lo(Get(b)))})
          [] Single(Get(b)) -> Masked(Get(a), Lo(Get(b)))
          [] Single(Get(a)) -> Masked(Get(b), Lo(Get(a)))
          [] OTHER -> Nothing

ValueSet(e, env) ==
    CASE IsLit(e) -> Some({e[2]})
      [] IsId(e) -> IF e[2] \in DOMAIN env THEN Some(env[e[2]]) ELSE Nothing
      [] IsCallOf(e, "and", 2) -> AndValue(e[3][1], e[3][2], env)
      [] IsCallOf(e, "not", 1) /\ IsLit(e[3][1]) -> Some({MaxWord - e[3][1][2]})
      [] IsCall(e) /\ e[2] \in {"add", "sub", "mul"} /\ Len(e[3]) = 2
           -> LET l == ValueSet(e[3][1], env)
                  r == ValueSet(e[3][2], env)
              IN  IF BothKnown(l, r) THEN Arith(e[2], Get(l), Get(r)) ELSE Nothing
      [] IsCallOf(e, "or", 2) /\ LitOf(e[3][1]) = 0 -> ValueSet(e[3][2], env)
      [] IsCallOf(e, "or", 2) /\ LitOf(e[3][2]) = 0 -> ValueSet(e[3][1], env)
      [] OTHER -> Nothing

-----------------------------------------------------------------------------
(* Translation of a Yul condition, over variables whose widest declared    *)
(* domain is `domain'.  Cleanups that cannot change a value of that domain *)
(* are dropped first.                                                      *)
RECURSIVE StripCleanup(_, _)
StripCleanup(e, domain) ==
    LET x == e[3][1]
        y == e[3][2]
        through(m, inner) == IF domain \subseteq Le(m)
                             THEN StripCleanup(inner, domain) ELSE e
    IN  CASE ~IsCall(e) -> e
          [] IsCallOf(e, "signextend", 2) ->
               IF IsLit(x) /\ IsCallOf(y, "signextend", 2) /\ y[3][1] = x
               THEN StripCleanup(y, domain) ELSE e
          [] IsCallOf(e, "and", 2) /\ IsLit(y) /\ ~IsLit(x) -> through(y[2], x)
          [] IsCallOf(e, "and", 2) /\ IsLit(x) /\ ~IsLit(y) -> through(x[2], y)
          [] OTHER -> e

(* A comparison of a variable with a literal is the set the literal cuts;  *)
(* two variables keep an unsigned ordering and nothing else.               *)
Compare(a, b, onLeft(_), onRight(_), ordering) ==
    CASE IsId(a) /\ IsLit(b) -> Some(Normalise(a[2], onLeft(b[2])))
      [] IsLit(a) /\ IsId(b) -> Some(Normalise(b[2], onRight(a[2])))
      [] IsId(a) /\ IsId(b) -> ordering
      [] OTHER -> Nothing

(* Fault: of int(k).                                                       *)
WidthCheckOneShort(a, rawB, domain) ==
    LET b == StripCleanup(rawB, domain)
    IN  IF /\ IsCallOf(a, "signextend", 2)
           /\ IsLit(a[3][1]) /\ IsId(b) /\ a[3][2] \in {rawB, b}
        THEN IF a[3][1][2] >= W - 1 THEN Some(PTrue)
             ELSE Some(Normalise(b[2], SignedBits(a[3][1][2])))
        ELSE Nothing

(* signextend(k, v) == v holds exactly on the words of int(k + 1).         *)
WidthCheck(a, rawB, domain) ==
    LET b == StripCleanup(rawB, domain)
    IN  IF /\ IsCallOf(a, "signextend", 2)
           /\ IsLit(a[3][1]) /\ IsId(b) /\ a[3][2] \in {rawB, b}
        THEN IF a[3][1][2] >= W - 1 THEN Some(PTrue)
             ELSE Some(Normalise(b[2], SignedBits(a[3][1][2] + 1)))
        ELSE Nothing

(* A signextend compared with anything but a name or a literal is refused. *)
WidthRefused(a, rawB, domain) ==
    IsCallOf(a, "signextend", 2) /\ IsCall(StripCleanup(rawB, domain))

TranslateEq(x, y, domain) ==
    LET l == StripCleanup(x, domain)
        r == StripCleanup(y, domain)
        Point(k) == {k}
    IN  CASE WidthRefused(l, y, domain) -> Nothing
          [] WidthCheck(l, y, domain) # Nothing -> WidthCheck(l, y, domain)
          [] WidthRefused(r, x, domain) -> Nothing
          [] WidthCheck(r, x, domain) # Nothing -> WidthCheck(r, x, domain)
          [] l = r -> Some(PTrue)
          [] OTHER -> Compare(l, r, Point, Point, Nothing)

RECURSIVE Translate(_, _)
Translate(raw, domain) ==
    LET e == StripCleanup(raw, domain)
        l == StripCleanup(e[3][1], domain)
        r == StripCleanup(e[3][2], domain)
        p == Translate(e[3][1], domain)
        q == Translate(e[3][2], domain)
    IN  CASE IsLit(e) -> Some(IF e[2] = 0 THEN PFalse ELSE PTrue)
          [] IsId(e) -> Some(Over(e[2], NeTo(0)))
          [] IsCallOf(e, "iszero", 1) -> {Negate(x) : x \in p}
          [] IsCallOf(e, "gt", 2)
               -> Compare(l, r, Gt, Lt, Some(Less(r[2], l[2], TRUE)))
          [] IsCallOf(e, "lt", 2)
               -> Compare(l, r, Lt, Gt, Some(Less(l[2], r[2], TRUE)))
          [] IsCallOf(e, "slt", 2) -> Compare(l, r, SignedLt, SignedGt, Nothing)
          [] IsCallOf(e, "sgt", 2) -> Compare(l, r, SignedGt, SignedLt, Nothing)
          [] IsCallOf(e, "eq", 2) -> TranslateEq(e[3][1], e[3][2], domain)
          [] IsCallOf(e, "and", 2)
               -> UNION {PAnd(x, y) : x \in p, y \in q}
          [] IsCallOf(e, "or", 2)
               -> UNION {POr(x, y) : x \in p, y \in q}
          [] OTHER -> Nothing
=============================================================================
