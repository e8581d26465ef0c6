---------------------------- MODULE CallProperty ----------------------------
(***************************************************************************)
(* Questions about one call, answered on the paths a model was built from  *)
(* (call_property.rs).  A path is a record: entrypoint; params, the names  *)
(* of its parameters; args, the set each was in; storage, the set each     *)
(* variable was in; assumed, the relations it took a side on, with the     *)
(* side; reverts.  Every answer is Nothing (the model does not say) or     *)
(* Some of a Boolean.                                                      *)
(*                                                                         *)
(* A term is <<"argument", i>>, <<"storage", v>>, <<"cell", v, keys>>,     *)
(* <<"field", v, keys, i>>, <<"env", name>>, <<"immutable", v>>, <<"slot", *)
(* n>>, <<"lit", n>>, <<"add", l, r>> or <<"sub", l, r>>; a condition is   *)
(* <<op, l, r>> with op one of ult ule ugt uge eq ne, or <<"all", cs>>,    *)
(* <<"any", cs>>, <<"not", c>>.                                            *)
(***************************************************************************)
EXTENDS Conditions

TriAnd(a, b) ==
    CASE FALSE \in a \cup b -> Some(FALSE)
      [] BothKnown(a, b) -> Some(TRUE)
      [] OTHER -> Nothing

TriNot(a) == {~x : x \in a}
TriOr(a, b) == TriNot(TriAnd(TriNot(a), TriNot(b)))

(* How a term reads in the language of the paths' facts, which name what   *)
(* storage held when the call started.                                     *)
RECURSIVE Render(_, _)
Render(t, p) ==
    LET keys(ks) == [i \in 1 .. Len(ks) |-> Get(Render(ks[i], p))]
        readable(ks) == \A i \in 1 .. Len(ks) : Render(ks[i], p) # Nothing
    IN  CASE t[1] = "argument" -> IF t[2] < Len(p.params)
                                  THEN Some(Id(p.params[t[2] + 1])) ELSE Nothing
          [] t[1] = "storage" -> Some(<<"storage", t[2], 0>>)
          [] t[1] = "cell" -> IF readable(t[3])
                              THEN Some(<<"cell", t[2], 0, keys(t[3])>>) ELSE Nothing
          [] t[1] = "field" -> IF readable(t[3])
                               THEN Some(<<"field", t[2], 0, keys(t[3]), t[4]>>)
                               ELSE Nothing
          [] t[1] = "env" -> Some(Call(t[2], <<>>))
          [] t[1] = "immutable" -> Some(Call1("immutable", Id(t[2])))
          [] t[1] = "slot" -> Some(Call1("sload", Lit(t[2])))
          [] t[1] = "lit" -> Some(t)
          [] OTHER -> IF readable(Tail(t)) THEN Some(Call(t[1], keys(Tail(t))))
                      ELSE Nothing

(* The set a term is in, where it is part of the model's state.            *)
SetOf(t, p) ==
    CASE t[1] = "argument" -> Found(p.args, t[2] + 1)
      [] t[1] = "storage" -> Found(p.storage, t[2])
      [] t[1] = "lit" -> Some({t[2]})
      [] OTHER -> Nothing

KeyOf(op, l, r) == IF op = "==" THEN EqKey(l, r) ELSE <<op, l, r>>

OnSets(op, a, b) == IF op = "==" THEN EqualOn(a, b) ELSE OrderOn(a, b, op = "<")

(* The regions as order facts: a bound that is not the word's own end.     *)
BoundEdges(term, S) ==
    IF S = {} THEN {}
    ELSE (IF Lo(S) > 0 THEN {<<Lit(Lo(S)), term, FALSE>>} ELSE {})
         \cup (IF Hi(S) < MaxWord THEN {<<term, Lit(Hi(S)), FALSE>>} ELSE {})

IntervalEdges(p) ==
    UNION {BoundEdges(Id(p.params[i]), p.args[i]) :
              i \in DOMAIN p.params \cap DOMAIN p.args}
    \cup UNION {BoundEdges(<<"storage", v, 0>>, p.storage[v]) : v \in DOMAIN p.storage}

PathEdges(p) == EdgesOf(p.assumed) \cup IntervalEdges(p)

(* A term the path found equal to one literal is equal to no other.        *)
OtherLiteral(l, r, p) ==
    /\ IsLit(r)
    /\ \E n \in Word \ {r[2]} : Found(p.assumed, EqKey(l, Lit(n))) = Some(TRUE)

(* Fault: an ordering that adding the fact would not contradict is true.   *)
ByClosureConsistent(op, l, r, edges) ==
    IF Contradictory(edges \cup {<<l, r, op = "<">>}) THEN Some(FALSE) ELSE Some(TRUE)

ByClosure(op, l, r, edges) ==
    CASE Contradictory(edges \cup {<<r, l, op # "<">>}) -> Some(TRUE)
      [] Contradictory(edges \cup {<<l, r, op = "<">>}) -> Some(FALSE)
      [] OTHER -> Nothing

(* By the regions, by what the path assumed, or by the order of the rest.  *)
HoldsOn(op, left, right, p) ==
    LET bySets == UNION {OnSets(op, a, b) : a \in SetOf(left, p), b \in SetOf(right, p)}
        byTerm(l, r) ==
            LET side == Found(p.assumed, KeyOf(op, l, r))
            IN  CASE side # Nothing -> side
                  [] op = "==" -> IF OtherLiteral(l, r, p) THEN Some(FALSE) ELSE Nothing
                  [] OTHER -> ByClosure(op, l, r, PathEdges(p))
    IN  IF bySets # Nothing THEN bySets
        ELSE UNION {byTerm(l, r) : l \in Render(left, p), r \in Render(right, p)}

(* The order a comparison asks for.                                        *)
Order(c) ==
    CASE c[1] = "ule" -> <<"<=", c[2], c[3]>>
      [] c[1] = "ult" -> <<"<", c[2], c[3]>>
      [] c[1] = "uge" -> <<"<=", c[3], c[2]>>
      [] c[1] = "ugt" -> <<"<", c[3], c[2]>>
      [] c[1] \in {"eq", "ne"} -> <<"==", c[2], c[3]>>

Comparison(c, p) ==
    LET answer(o) == HoldsOn(o[1], o[2], o[3], p)
        signed(x) == IF c[1] = "ne" THEN TriNot(x) ELSE x
    IN  signed(answer(Order(c)))

RECURSIVE Evaluate(_, _)
Evaluate(c, p) ==
    LET conjoin(a, x) == TriAnd(a, Evaluate(x, p))
        disjoin(a, x) == TriOr(a, Evaluate(x, p))
    IN  CASE c[1] = "all" -> FoldLeft(conjoin, Some(TRUE), c[2])
          [] c[1] = "any" -> FoldLeft(disjoin, Some(FALSE), c[2])
          [] c[1] = "not" -> TriNot(Evaluate(c[2], p))
          [] OTHER -> Comparison(c, p)

(* What a claimed invariant adds to the order facts of a path.             *)
RECURSIVE EdgesOfClaim(_, _)
EdgesOfClaim(c, p) ==
    LET edges(o) == {<<l, r, o[1] = "<">> : l \in Render(o[2], p), r \in Render(o[3], p)}
    IN  CASE c[1] \in {"ule", "ult", "uge", "ugt"} -> edges(Order(c))
          [] c[1] = "all" -> UNION {EdgesOfClaim(x, p) : x \in Range(c[2])}
          [] OTHER -> {}

-----------------------------------------------------------------------------
(* A rule: entrypoint, given (a condition) and reverts, what is asserted.  *)
(* A path is left out only when an invariant is false on it, when its      *)
(* facts contradict each other or the invariants, or when given is false.  *)
CanCarry(p, rule, invariants) ==
    /\ \A i \in invariants : Evaluate(i, p) # Some(FALSE)
    /\ ~Contradictory(PathEdges(p) \cup UNION {EdgesOfClaim(i, p) : i \in invariants})
    /\ Evaluate(rule.given, p) # Some(FALSE)

CheckRule(rule, invariants, paths) ==
    LET possible == {p \in paths : /\ p.entrypoint = rule.entrypoint
                                   /\ CanCarry(p, rule, invariants)}
        ends == {p.reverts : p \in possible}
        answer(e) == CASE e = {} -> "undecided"
                       [] e = {rule.reverts} -> "holds"
                       [] OTHER -> "fails"
    IN  answer(ends)

(* The worst answer over the rules of a property.                          *)
Worst(answers) ==
    CASE "fails" \in answers -> "fails"
      [] "undecided" \in answers \/ answers = {} -> "undecided"
      [] OTHER -> "holds"

Check(rules, invariants, paths) == Worst({CheckRule(r, invariants, paths) : r \in rules})
=============================================================================
