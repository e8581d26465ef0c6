----------------------------- MODULE Conditions -----------------------------
(***************************************************************************)
(* How the walk over a contract answers a condition (model.rs): by the     *)
(* predicate it translates to, by the values its sides can have, by the    *)
(* sides already taken on the path, and last by a fork.                    *)
(*                                                                         *)
(* A context c says what is known where the condition stands: env, what    *)
(* the locals can be; region, what each storage variable is in, indexed by *)
(* its number from 1; memory, what is known at literal addresses; pure,    *)
(* the helpers that only compute, each with params, result and body.       *)
(***************************************************************************)
EXTENDS Predicates, Terms

NoValue == <<"none">>

With(env, x, S) == x :> S @@ env
Without(env, xs) == Tabled([y \in DOMAIN env \ xs |-> env[y]])
SetOrDrop(env, x, o) == IF o = Nothing THEN Without(env, {x}) ELSE With(env, x, Get(o))

Comparisons == {"eq", "lt", "gt", "slt", "sgt", "iszero"}
CallOpcodes == {"call", "staticcall"}

(* An expression nested deeper than this is not evaluated.                 *)
MaxEvalDepth == 8

RECURSIVE EvalAt(_, _, _), DecideCond(_, _)

(* The single word an address expression denotes.                          *)
Address(e, c, depth) ==
    LET folded == FoldFixpoint(e)
    IN  IF IsLit(folded) THEN Some(folded[2])
        ELSE {Lo(S) : S \in {T \in EvalAt(e, c, depth + 1) : Single(T)}}

(* The slot's number is used as the variable's index.                      *)
SlotValue(e, c, depth) ==
    UNION {Found(c.region, v + 1) : v \in Address(e[3][1], c, depth)}

(* A helper without effects or checks is evaluated by running its body.    *)
EvalCall(e, c, depth) ==
    LET g == c.pure[e[2]]
        args == Listed([i \in 1 .. Len(g.params) |-> EvalAt(e[3][i], c, depth + 1)])
        given == Tabled([x \in Range(g.params) |-> Get(args[CHOOSE i \in DOMAIN args : g.params[i] = x])])
        Run(env, i) ==
            CASE i.op = "effect" -> env
              [] i.value = NoValue ->
                   [x \in DOMAIN env \cup Range(i.targets) |->
                        IF x \in Range(i.targets) THEN {0} ELSE env[x]]
              [] Len(i.targets) # 1 -> Without(env, Range(i.targets))
              [] OTHER -> SetOrDrop(env, i.targets[1],
                              EvalAt(i.value, [c EXCEPT !.env = env], depth + 1))
    IN  IF e[2] \notin DOMAIN c.pure \/ Nothing \in Range(args) THEN Nothing
        ELSE Found(FoldLeft(Run, given, g.body), g.result)

EvalAt(e, c, depth) ==
    CASE depth >= MaxEvalDepth -> Nothing
      [] IsCallOf(e, "mload", 1)
           -> UNION {Found(c.memory, a) : a \in Address(e[3][1], c, depth)}
      [] IsCall(e) /\ e[2] \in CallOpcodes -> Some({0, 1})
      [] IsCallOf(e, "sload", 1) \/ IsCallOf(e, "read_from_storage", 1)
           -> OrElse(SlotValue(e, c, depth),
                     IF e[2] = "sload" THEN Nothing
                     ELSE OrElse(ValueSet(e, c.env), EvalCall(e, c, depth)))
      [] OTHER -> OrElse(ValueSet(e, c.env),
                         CASE ~IsCall(e) -> Nothing
                           [] e[2] \in Comparisons -> {{Truth(b)} : b \in DecideCond(e, c)}
                           [] OTHER -> EvalCall(e, c, depth))

Eval(e, c) == EvalAt(e, c, 0)

DecideCond(cond, c) ==
    CASE ~IsCall(cond) -> UNION {NonzeroOn(S) : S \in Eval(cond, c)}
      [] IsCallOf(cond, "iszero", 1) -> {~b : b \in DecideCond(cond[3][1], c)}
      [] cond[2] \in Comparisons /\ Len(cond[3]) = 2
           -> UNION {CompareOn(cond[2], S, T) : S \in Eval(cond[3][1], c), T \in Eval(cond[3][2], c)}
      [] IsCallOf(cond, "and", 2) \/ IsCallOf(cond, "or", 2)
           -> Joined(cond[2], DecideCond(cond[3][1], c), DecideCond(cond[3][2], c))
      [] OTHER -> Nothing

-----------------------------------------------------------------------------
(* A guard is asked its predicate first, a branch its condition.           *)
AnswerOf(cond, predicate, c, rel, facts) ==
    OrElse(UNION {Decide(p, c.env) : p \in predicate},
           OrElse(DecideCond(cond, c), SideOf(rel, facts)))
=============================================================================
