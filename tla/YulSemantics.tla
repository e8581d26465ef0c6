---------------------------- MODULE YulSemantics ----------------------------
(***************************************************************************)
(* What a call of the contract does on concrete words: Yul's semantics and *)
(* the part of the EVM the contracts use.  It is written from the language *)
(* and shares with the translator only the syntax and the arithmetic; the  *)
(* model the program builds is checked against it.                         *)
(*                                                                         *)
(* A machine m is a record: vars, memory, storage (both zero where not     *)
(* mapped), out ("go", or how control left).  g says where it runs: defs,  *)
(* env (the caller and the like), other, the calls a callee can make, as   *)
(* <<function, arguments, environment>>, spec and slotOf, the properties    *)
(* and where their variables live, and level, how deep callees call back   *)
(* in.  How an external call comes out is not known: running yields a set. *)
(***************************************************************************)
EXTENDS Lower

CONSTANTS FreeAt, FreePointer   \* the free memory pointer: where, and at first

At(f, a) == IF a \in DOMAIN f THEN f[a] ELSE 0

(* A hash is a number no word is, different for different contents, and so *)
(* is a place some way past it.                                            *)
Hash(words) == FoldLeft(LAMBDA acc, x : 100 * acc + x + 1, 1, words) + MaxWord

Leaves(m, how) == {[vals |-> <<>>, m |-> [m EXCEPT !.out = how]]}
Gives(m, v) == {[vals |-> <<v>>, m |-> m]}

(* Whether a property's assertion holds of concrete storage.               *)
RECURSIVE Asserts(_, _, _)
Asserts(a, storage, slotOf) ==
    LET value(o) == IF o[1] = "uint" THEN o[2] ELSE At(storage, slotOf[o[2]])
        l == value(a[2])
        r == value(a[3])
    IN  CASE a[1] = "ule" -> l <= r
          [] a[1] = "ult" -> l < r
          [] a[1] = "uge" -> l >= r
          [] a[1] = "ugt" -> l > r
          [] a[1] = "eq" -> l = r
          [] a[1] = "ne" -> l # r
          [] a[1] = "and" -> \A x \in Range(a[2]) : Asserts(x, storage, slotOf)
          [] a[1] = "or" -> \E x \in Range(a[2]) : Asserts(x, storage, slotOf)
          [] a[1] = "not" -> ~Asserts(a[2], storage, slotOf)

Broken(storage, g) == \E p \in Range(g.spec) : ~Asserts(p.assertion, storage, g.slotOf)

RECURSIVE Reentered(_, _), RunExpr(_, _, _), RunArgs(_, _, _), RunBody(_, _, _),
          RunStmt(_, _, _), RunLoop(_, _, _)

(* A callee that fails takes back whatever was done under it.              *)
External(name, m, g) ==
    Gives(m, 0) \cup
    UNION {Gives([m EXCEPT !.storage = s], 1) :
              s \in IF name = "call" THEN Reentered(m.storage, g) ELSE {m.storage}}

Opcode(name, v, m, g) ==
    CASE name = "add" /\ Max({v[1], v[2]}) > MaxWord -> Gives(m, v[1] + v[2])
      [] name \in Builtins2 -> Gives(m, Apply2(name, v[1], v[2]))
      [] name \in Builtins1 -> Gives(m, Apply1(name, v[1]))
      [] name = "mload" -> Gives(m, At(m.memory, v[1]))
      [] name = "mstore" -> {[vals |-> <<>>, m |-> [m EXCEPT !.memory = With(@, v[1], v[2])]]}
      [] name = "sload" -> Gives(m, At(m.storage, v[1]))
      [] name = "sstore" -> {[vals |-> <<>>, m |-> [m EXCEPT !.storage = With(@, v[1], v[2])]]}
      [] name = "log1" -> {[vals |-> <<>>, m |-> m]}
      [] name = "keccak256"
           -> Gives(m, Hash([i \in 1 .. v[2] |-> At(m.memory, v[1] + i - 1)]))
      [] name \in {"revert", "invalid"} -> Leaves(m, "revert")
      [] name \in {"return", "stop"} -> Leaves(m, "return")
      [] name \in CallOpcodes -> External(name, m, g)
      [] OTHER -> Gives(m, g.env[name])

Function(name, v, m, g) ==
    LET d == g.defs[name]
        entered == [m EXCEPT !.vars =
                       [x \in Range(d.params) \cup Range(d.returns) |->
                           IF x \in Range(d.params)
                           THEN v[CHOOSE i \in 1 .. Len(v) : d.params[i] = x] ELSE 0]]
        left(r) == [vals |-> [i \in 1 .. Len(d.returns) |-> r.vars[d.returns[i]]],
                    m |-> [r EXCEPT !.vars = m.vars,
                                    !.out = IF @ = "leave" THEN "go" ELSE @]]
    IN  {left(r) : r \in RunBody(d.body, entered, g)}

(* Arguments are evaluated from the last to the first.                     *)
RunArgs(args, m, g) ==
    IF args = <<>> THEN {[vals |-> <<>>, m |-> m]}
    ELSE UNION {IF r.m.out # "go" THEN {r}
                ELSE {[vals |-> s.vals \o r.vals, m |-> s.m] : s \in RunExpr(Head(args), r.m, g)}
                : r \in RunArgs(Tail(args), m, g)}

RunExpr(e, m, g) ==
    CASE IsLit(e) -> Gives(m, e[2])
      [] IsId(e) -> Gives(m, m.vars[e[2]])
      [] OTHER -> UNION {IF r.m.out # "go" THEN {r}
                         ELSE IF e[2] \in DOMAIN g.defs THEN Function(e[2], r.vals, r.m, g)
                         ELSE Opcode(e[2], r.vals, r.m, g)
                         : r \in RunArgs(e[3], m, g)}

(* A condition: the machines in which it is true, or false.                *)
On(e, m, g, Then(_), Else(_)) ==
    UNION {CASE r.m.out # "go" -> {r.m}
             [] r.vals[1] # 0 -> Then(r.m)
             [] OTHER -> Else(r.m) : r \in RunExpr(e, m, g)}

Assigned(names, r) ==
    LET set(m, i) == [m EXCEPT !.vars = With(@, names[i], r.vals[i])]
    IN  IF r.m.out # "go" THEN r.m ELSE FoldLeft(set, r.m, [i \in 1 .. Len(names) |-> i])

CaseTaken(cases, v) ==
    LET exact == {i \in 1 .. Len(cases) : cases[i][1] = Lit(v)}
        default == {i \in 1 .. Len(cases) : cases[i][1] = NoValue}
    IN  IF exact # {} THEN exact ELSE default

RunStmt(s, m, g) ==
    LET same(n) == {n}
        body(n) == RunBody(s[3], n, g)
        zeros == [i \in 1 .. Len(s[2]) |-> 0]
    IN  CASE s[1] \in {"let", "assign"} ->
               IF s[3] = NoValue THEN {Assigned(s[2], [vals |-> zeros, m |-> m])}
               ELSE {Assigned(s[2], r) : r \in RunExpr(s[3], m, g)}
          [] s[1] = "expr" -> {r.m : r \in RunExpr(s[2], m, g)}
          [] s[1] = "if" -> On(s[2], m, g, body, same)
          [] s[1] = "switch" ->
               UNION {IF r.m.out # "go" THEN {r.m}
                      ELSE LET c == CaseTaken(s[3], r.vals[1])
                           IN  IF c = {} THEN {r.m} ELSE RunBody(s[3][Min(c)][2], r.m, g)
                      : r \in RunExpr(s[2], m, g)}
          [] s[1] = "for" -> UNION {IF n.out # "go" THEN {n} ELSE RunLoop(s, n, g)
                                    : n \in RunBody(s[2], m, g)}
          [] s[1] = "block" -> RunBody(s[2], m, g)
          [] OTHER -> {[m EXCEPT !.out = s[1]]}

RunLoop(s, m, g) ==
    LET done(n) == {n}
        again(n) == UNION {IF p.out # "go" THEN {p} ELSE RunLoop(s, p, g) : p \in RunBody(s[4], n, g)}
        after(n) == CASE n.out \in {"go", "continue"} -> again([n EXCEPT !.out = "go"])
                      [] n.out = "break" -> {[n EXCEPT !.out = "go"]}
                      [] OTHER -> {n}
        round(n) == UNION {after(x) : x \in RunBody(s[5], n, g)}
    IN  On(s[3], m, g, round, done)

RunBody(body, m, g) ==
    IF body = <<>> THEN {m}
    ELSE UNION {IF n.out # "go" THEN {n} ELSE RunBody(Tail(body), n, g)
                : n \in RunStmt(Head(body), m, g)}

-----------------------------------------------------------------------------
(* A transaction: a revert leaves the storage as it was.                   *)
Transact(f, args, storage, g) ==
    LET start == [vars |-> <<>>, memory |-> [a \in {FreeAt} |-> FreePointer],
                  storage |-> storage, out |-> "go"]
    IN  {[reverts |-> r.m.out = "revert",
          storage |-> IF r.m.out = "revert" THEN storage ELSE r.m.storage]
            : r \in Function(f, args, start, g)}

(* Where the calls a callee makes back into the contract can leave it: any *)
(* number of them, each complete.                                          *)
Reentered(storage, g) ==
    LET inner == [g EXCEPT !.level = @ - 1]
        one(s) == {o.storage : o \in UNION {Transact(c[1], c[2], s, [inner EXCEPT !.env = c[3]])
                                             : c \in g.other}}
    IN  IF g.level = 0 THEN {storage} ELSE Closure({storage}, one)
=============================================================================
