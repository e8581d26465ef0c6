-------------------------------- MODULE Yul --------------------------------
(***************************************************************************)
(* What is done with Yul expressions (ast.rs), and the constant folder     *)
(* (fold.rs).                                                              *)
(***************************************************************************)
EXTENDS Builtins, SequencesExt, TLC

(* The value of a literal, None for anything else.                         *)
None == -1
LitOf(e) == IF IsLit(e) THEN e[2] ELSE None

(* A function or sequence is itself: written so, TLC computes its values   *)
(* here once, and not again at every use.                                  *)
Tabled(f) == f @@ <<>>
Listed(s) == s \o <<>>

(* The elements of a set in some order (SetToSeq tries every function).    *)
Enumerated(S) == FoldSet(LAMBDA x, s : Append(s, x), <<>>, S)

MapArgs(F(_), e) == Listed([i \in 1 .. Len(e[3]) |-> F(e[3][i])])

RECURSIVE Substitute(_, _)
Substitute(e, map) ==
    IF IsId(e) THEN IF e[2] \in DOMAIN map THEN map[e[2]] ELSE e
    ELSE IF IsLit(e) THEN e
    ELSE LET Sub(a) == Substitute(a, map) IN Call(e[2], MapArgs(Sub, e))

RECURSIVE Idents(_)
Idents(e) ==
    CASE IsId(e) -> {e[2]}
      [] IsLit(e) -> {}
      [] OTHER -> UNION {Idents(e[3][i]) : i \in 1 .. Len(e[3])}

(* Every call in an expression, as the call itself.                        *)
RECURSIVE CollectCalls(_)
CollectCalls(e) ==
    IF ~IsCall(e) THEN {}
    ELSE {e} \cup UNION {CollectCalls(e[3][i]) : i \in 1 .. Len(e[3])}

CalledNames(e) == {c[2] : c \in CollectCalls(e)}

-----------------------------------------------------------------------------
(* fold.rs.  Two literals are evaluated; one literal gives the algebraic   *)
(* identities; everything else is left as it stands.                       *)
FoldedOnLiterals == {"add", "sub", "mul", "div", "mod", "and", "or", "xor",
                     "shl", "shr", "lt", "gt", "eq"}

(* Fault: subtracting from zero is taken for the identity as well.         *)
LeftZeroKeepsSub(f) == f \in {"or", "xor", "add", "sub"}

LeftZeroKeeps(f) == f \in {"or", "xor", "add"}
RightZeroKeeps(f) == f \in {"or", "xor", "add", "sub"}

FoldIdentity(f, x, y, call) ==
    LET a == LitOf(x)
        b == LitOf(y)
    IN  CASE f = "and" /\ a = MaxWord -> y
          [] f = "and" /\ b = MaxWord -> x
          [] f = "and" /\ (a = 0 \/ b = 0) -> Lit(0)
          [] LeftZeroKeeps(f) /\ a = 0 -> y
          [] RightZeroKeeps(f) /\ b = 0 -> x
          [] f = "or" /\ (a = MaxWord \/ b = MaxWord) -> Lit(MaxWord)
          [] f = "mul" /\ a = 1 -> y
          [] f = "mul" /\ b = 1 -> x
          [] f = "mul" /\ (a = 0 \/ b = 0) -> Lit(0)
          [] f \in {"shl", "shr"} /\ a = 0 -> y
          [] OTHER -> call

RECURSIVE Fold(_)
Fold(e) ==
    IF ~IsCall(e) THEN e
    ELSE LET args == MapArgs(Fold, e)
             call == Call(e[2], args)
         IN  CASE Len(args) = 2 /\ IsLit(args[1]) /\ IsLit(args[2])
                  /\ e[2] \in FoldedOnLiterals
                    -> Lit(Apply2(e[2], args[1][2], args[2][2]))
               [] Len(args) = 1 /\ IsLit(args[1]) /\ e[2] \in Builtins1
                    -> Lit(Apply1(e[2], args[1][2]))
               [] Len(args) = 2 -> FoldIdentity(e[2], args[1], args[2], call)
               [] OTHER -> call

(* Fold until nothing changes, at most FoldRounds times.                   *)
FoldRounds == 32

RECURSIVE FoldN(_, _)
FoldN(e, n) ==
    LET next == Fold(e) IN IF n = 0 \/ next = e THEN e ELSE FoldN(next, n - 1)

FoldFixpoint(e) == FoldN(e, FoldRounds)
=============================================================================
