--------------------------- MODULE MCConditionWalk ---------------------------
(***************************************************************************)
(* Words of three bits; x is declared two bits wide, y the whole word.     *)
(* The conditions are the shapes solc writes: range checks on one          *)
(* variable, comparisons of two, cleanups and width checks around them,    *)
(* the overflow and underflow checks of checked arithmetic, and            *)
(* conjunctions of comparisons.                                            *)
(***************************************************************************)
EXTENDS ConditionWalk

X == Id("x")
Y == Id("y")

MCLoaded ==
    {[x |-> <<<<2, 3>>, <<0, 0>>, <<3, 1>>>>,      \* out of order, one empty
      y |-> <<<<4, 7>>, <<0, 3>>>>],
     [x |-> <<<<0, 1>>, <<1, 2>>, <<3, 3>>>>,      \* overlapping and adjacent
      y |-> <<<<6, 7>>, <<1, 2>>>>],
     [x |-> <<<<0, 1>>, <<2, 3>>>>,                \* one set, written twice
      y |-> <<<<0, 3>>>>]}

MCSplitConds ==
    {Call2("lt", X, Lit(2)), Call2("gt", X, Lit(0)),
     Call2("slt", Y, Lit(1)),
     Call2("eq", Call2("signextend", Lit(1), Y), Y),
     Call2("or", Call2("eq", Y, Lit(0)), Call2("gt", Y, Lit(2)))}

MCWritten ==
    {Call2("lt", Call2("and", X, Lit(3)), Y),
     Call2("eq", X, Y), Call1("iszero", Call2("eq", Y, X)),
     Call2("gt", Call2("sub", Y, X), Y),
     Call2("lt", Call2("add", Y, Lit(1)), Y),
     Call2("gt", Call2("sub", Lit(0), Y), Lit(4)),
     Call2("sgt", X, Y),
     Call2("and", Call2("lt", Y, Lit(2)), Call1("iszero", X))}

MCValues ==
    {X, Call2("add", X, Lit(1)), Call2("sub", Y, X), Call2("sub", Lit(0), X),
     Call2("and", Lit(6), Y), Call2("lt", X, Y)}

MCPathConds == {FoldFixpoint(cond) : cond \in MCWritten}
MCFoldedValues == {FoldFixpoint(e) : e \in MCValues}

(* x is declared two bits wide: masks that keep two bits are taken off it. *)
MCValuations == {val \in [Vars -> Word] : val["x"] \in 0 .. 3}

RECURSIVE SubTerms(_)
SubTerms(t) ==
    {t} \cup (IF IsCall(t) THEN UNION {SubTerms(t[3][i]) : i \in DOMAIN t[3]} ELSE {})

KeyTerms(key) == IF key[1] = "==" THEN key[2] ELSE {key[2], key[3]}

MCPathTerms ==
    UNION {SubTerms(t) : t \in UNION {KeyTerms(PathRelation(cond).key) : cond \in MCPathConds}
                              \cup {PathTerm(e) : e \in MCFoldedValues}}
=============================================================================
