------------------------------- MODULE Lower -------------------------------
(***************************************************************************)
(* From the Yul solc emits to the form the walk runs on (lower.rs): the    *)
(* control flow graph of each function, what each may do transitively, and *)
(* the checks, each with the condition it passes on.                       *)
(*                                                                         *)
(* A statement is <<"let", names, value>>, <<"assign", names, value>>,     *)
(* <<"expr", e>>, <<"if", cond, body>>, <<"switch", value, cases>> with a  *)
(* case <<literal or NoValue, body>>, <<"for", pre, cond, post, body>>,    *)
(* <<"break">>, <<"continue">>, <<"leave">> or <<"block", body>>.  defs    *)
(* maps a function's name to [kind, params, returns, body].                *)
(***************************************************************************)
EXTENDS Conditions

Closure(S, Step(_)) ==
    LET RECURSIVE grow(_)
        grow(T) == LET next == T \cup UNION {Step(x) : x \in T}
                   IN  IF next = T THEN T ELSE grow(next)
    IN  grow(S)

-----------------------------------------------------------------------------
(* What a builtin does, as a set of effects (builtins.rs).  A builtin that *)
(* is not modelled counts as unsupported.                                  *)
BuiltinEffects(name) ==
    CASE name \in {"mstore", "memoryguard"} -> {"writes_memory"}
      [] name = "sload" -> {"reads_storage"}
      [] name = "sstore" -> {"writes_storage"}
      [] name = "calldataload" -> {"reads_calldata"}
      [] name \in {"caller", "callvalue", "gas", "timestamp", "balance"}
           -> {"reads_environment"}
      [] name = "log1" -> {"logs"}
      [] name \in {"return", "stop"} -> {"can_return"}
      [] name \in {"revert", "invalid"} -> {"can_revert"}
      [] name \in CallOpcodes -> {"external_call"}
      [] name \in {"delegatecall", "create", "selfdestruct"} -> {"unsupported"}
      [] OTHER -> {}

KnownBuiltins ==
    Builtins1 \cup Builtins2 \cup CallOpcodes \cup
    {"mload", "keccak256", "mstore", "memoryguard", "sload", "sstore",
     "calldataload", "caller", "callvalue", "gas", "timestamp", "balance",
     "log1", "return", "stop", "revert", "invalid", "delegatecall", "create",
     "selfdestruct", "loadimmutable", "codesize", "address"}

Supported(eff) == "unsupported" \notin eff

(* How far a value is from a function of its arguments: an external call   *)
(* or a possible revert does not count against it.                         *)
Purity(eff) ==
    CASE ~Supported(eff) \/ eff \cap {"writes_storage", "writes_memory", "logs"} # {}
           -> "effectful"
      [] "reads_storage" \in eff -> "reads_state"
      [] "reads_environment" \in eff -> "reads_environment"
      [] "reads_calldata" \in eff -> "reads_calldata"
      [] OTHER -> "pure"

(* The names a body calls, at any depth but not in the functions it calls. *)
RECURSIVE CallsIn(_)
CallsIn(body) ==
    LET of(s) ==
            CASE s[1] \in {"let", "assign"} -> CalledNames(s[3])
              [] s[1] = "expr" -> CalledNames(s[2])
              [] s[1] = "if" -> CalledNames(s[2]) \cup CallsIn(s[3])
              [] s[1] = "switch" -> CalledNames(s[2]) \cup
                                    UNION {CallsIn(c[2]) : c \in Range(s[3])}
              [] s[1] = "for" -> CalledNames(s[3]) \cup CallsIn(s[2]) \cup
                                 CallsIn(s[4]) \cup CallsIn(s[5])
              [] s[1] = "block" -> CallsIn(s[2])
              [] OTHER -> {}
    IN  UNION {of(s) : s \in Range(body)}

(* Everything a function may do, through every function it reaches; a      *)
(* callee without a definition is not modelled.                            *)
OwnEffects(f) == IF f \in KnownBuiltins THEN BuiltinEffects(f) ELSE {"unsupported"}

EffectTable(defs) ==
    LET calls == Tabled([f \in DOMAIN defs |-> CallsIn(defs[f].body)])
        callees(f) == IF f \in DOMAIN defs THEN calls[f] ELSE {}
        everything(f) == UNION {OwnEffects(g) : g \in Closure(calls[f], callees) \ DOMAIN defs}
    IN  Tabled([f \in DOMAIN defs |-> everything(f)])

EffectsOf(e, effects) ==
    UNION {IF f \in DOMAIN effects THEN effects[f] ELSE OwnEffects(f) : f \in CalledNames(e)}

(* Some statement of the body is a revert, or cannot but revert.           *)
RECURSIVE BodyReverts(_, _)
BodyReverts(body, reverting) ==
    \E s \in Range(body) :
        \/ s[1] = "expr" /\ IsCall(s[2])
           /\ s[2][2] \in {"revert", "invalid"} \cup reverting
        \/ s[1] = "switch" /\ (\E c \in Range(s[3]) : c[1] = NoValue)
           /\ \A c \in Range(s[3]) : BodyReverts(c[2], reverting)
        \/ s[1] = "block" /\ BodyReverts(s[2], reverting)

RECURSIVE RevertingFrom(_, _)
RevertingFrom(reverting, defs) ==
    LET next == {f \in DOMAIN defs : BodyReverts(defs[f].body, reverting)}
    IN  IF next = reverting THEN next ELSE RevertingFrom(next, defs)

AlwaysReverting(defs) == RevertingFrom({}, defs)

(* A condition passes where the revert is not taken.                       *)
Negated(cond) == Call1("iszero", cond)
PassOf(cond) == IF IsCallOf(cond, "iszero", 1) THEN cond[3][1] ELSE Negated(cond)

(* Functions without results that are one test and a revert.               *)
GuardHelpers(defs, reverting, effects) ==
    LET isGuard(d) ==
            /\ d.returns = <<>> /\ Len(d.body) = 1 /\ d.body[1][1] = "if"
            /\ BodyReverts(d.body[1][3], reverting)
            /\ LET eff == EffectsOf(d.body[1][2], effects)
               IN  /\ eff \cap {"writes_storage", "writes_memory", "can_revert"} = {}
                   /\ Supported(eff)
        names == {f \in DOMAIN defs : isGuard(defs[f])}
    IN  Tabled([f \in names |-> [params |-> defs[f].params,
                                  pass |-> PassOf(defs[f].body[1][2])]])

(* Running a straight-line body over expressions: one definition a line.   *)
Straight(body) ==
    \A s \in Range(body) : /\ s[1] \in {"let", "assign"}
                           /\ Len(s[2]) = 1 /\ s[3] # NoValue

Symbolic(body) ==
    LET step(env, s) == With(env, s[2][1], Substitute(s[3], env))
    IN  FoldLeft(step, <<>>, body)

(* Pure functions of one result that are an alias for an expression.       *)
Aliases(defs, effects) ==
    LET names == {f \in DOMAIN defs :
                    LET d == defs[f]
                    IN  /\ Len(d.returns) = 1 /\ Straight(d.body)
                        /\ Purity(effects[f]) = "pure"
                        /\ d.returns[1] \in DOMAIN Symbolic(d.body)}
        body(d) == FoldFixpoint(Symbolic(d.body)[d.returns[1]])
    IN  Tabled([f \in names |-> [params |-> defs[f].params, body |-> body(defs[f])]])

Bound(params, args) ==
    [x \in Range(params) |-> args[CHOOSE i \in 1 .. Len(params) : params[i] = x]]

RECURSIVE InlineAliases(_, _)
InlineAliases(e, aliases) ==
    IF ~IsCall(e) THEN e
    ELSE LET inline(a) == InlineAliases(a, aliases)
             args == MapArgs(inline, e)
         IN  IF e[2] \in DOMAIN aliases /\ Len(aliases[e[2]].params) = Len(args)
             THEN Substitute(aliases[e[2]].body, Bound(aliases[e[2]].params, args))
             ELSE Call(e[2], args)

(* Writing a variable narrower than its slot merges it into the word read. *)
RECURSIVE StripByteSlice(_)
StripByteSlice(e) ==
    CASE ~IsCall(e) -> e
      [] IsCallOf(e, "update_byte_slice", 2) /\ IsCallOf(e[3][1], "sload", 1)
           -> StripByteSlice(e[3][2])
      [] OTHER -> Call(e[2], MapArgs(StripByteSlice, e))

RECURSIVE Reduced(_, _, _)
Reduced(e, aliases, n) ==
    LET next == FoldFixpoint(InlineAliases(StripByteSlice(e), aliases))
    IN  IF n = 0 \/ next = e THEN e ELSE Reduced(next, aliases, n - 1)

(* Helpers whose one store is of a parameter into a parameter's slot.      *)
StoreHelpers(defs, aliases, effects) ==
    LET isStore(s) == s[1] = "expr" /\ IsCallOf(s[2], "sstore", 2)
        isDef(s) == ~isStore(s)
        stores(d) == SelectSeq(d.body, isStore)
        env(d) == Symbolic(SelectSeq(d.body, isDef))
        param(d, e) ==
            LET r == Reduced(FoldFixpoint(Substitute(e, env(d))), aliases, 32)
            IN  {i \in 1 .. Len(d.params) : r = Id(d.params[i])}
        at(f, k) == param(defs[f], stores(defs[f])[1][2][3][k])
        names == {f \in DOMAIN defs :
                    /\ "writes_storage" \in effects[f]
                    /\ "external_call" \notin effects[f] /\ Supported(effects[f])
                    /\ Len(stores(defs[f])) = 1
                    /\ Straight(SelectSeq(defs[f].body, isDef))
                    /\ at(f, 1) # {} /\ at(f, 2) # {}}
    IN  Tabled([f \in names |-> [slot |-> Get(at(f, 1)), value |-> Get(at(f, 2))]])

-----------------------------------------------------------------------------
(* Control flow.  A builder has the blocks so far, the one being filled,   *)
(* whether it is closed, and the <<break, continue>> targets of the loops  *)
(* around; tables holds what the helpers above were recognised as.         *)
NewBuilder == [blocks |-> <<[ins |-> <<>>, term |-> <<"leave">>]>>, current |-> 1,
               closed |-> FALSE, loops |-> <<>>]

NewBlocks(b, n) ==
    [b EXCEPT !.blocks = @ \o [i \in 1 .. n |-> [ins |-> <<>>, term |-> <<"leave">>]]]

Emit(b, ins) ==
    IF b.closed THEN b ELSE [b EXCEPT !.blocks[b.current].ins = Append(@, ins)]

Terminate(b, term) ==
    IF b.closed THEN b
    ELSE [b EXCEPT !.blocks[b.current].term = term, !.closed = TRUE]

SwitchTo(b, block) == [b EXCEPT !.current = block, !.closed = FALSE]

StorageWrite(e, stores) ==
    CASE IsCallOf(e, "sstore", 2) -> Some([slot |-> e[3][1], value |-> e[3][2]])
      [] IsCall(e) /\ e[2] \in DOMAIN stores
           -> Some([slot |-> e[3][stores[e[2]].slot], value |-> e[3][stores[e[2]].value]])
      [] OTHER -> Nothing

Instruction(op, targets, value, tables) ==
    [op |-> op, targets |-> targets, value |-> value,
     eff |-> EffectsOf(value, tables.effects),
     write |-> StorageWrite(value, tables.stores)]

RECURSIVE LowerStmts(_, _, _)

(* A body in a block of its own, and then on to the block after.           *)
LowerInto(b, block, body, next, tables) ==
    Terminate(LowerStmts(SwitchTo(b, block), body, tables), <<"jump", next>>)

LowerCall(b, e, tables) ==
    LET effect == Instruction("effect", <<>>, e, tables)
    IN  CASE e[2] \in {"revert", "invalid"} -> Terminate(b, <<"revert">>)
          [] e[2] = "return" -> Terminate(b, <<"return">>)
          [] e[2] = "stop" -> Terminate(b, <<"stop">>)
          [] e[2] \in tables.reverting -> Terminate(Emit(b, effect), <<"revert">>)
          [] OTHER -> Emit(b, effect)

LowerSwitch(b, s, tables) ==
    LET n == Len(b.blocks)
        cont == n + 1
        cases == s[3]
        isArm(i) == cases[i][1] # NoValue
        arms == [i \in {j \in 1 .. Len(cases) : isArm(j)} |-> <<cases[i][1], n + 1 + i>>]
        default == {n + 1 + i : i \in {j \in 1 .. Len(cases) : ~isArm(j)}}
        opened == Terminate(NewBlocks(b, 1 + Len(cases)),
                            <<"switch", s[2], Range(arms), default>>)
        body(acc, i) == LowerInto(acc, n + 1 + i, cases[i][2], cont, tables)
    IN  SwitchTo(FoldLeft(body, opened, [i \in 1 .. Len(cases) |-> i]), cont)

LowerFor(b, s, tables) ==
    LET pre == LowerStmts(b, s[2], tables)
        head == Len(pre.blocks) + 1
        opened == Terminate(NewBlocks(pre, 4), <<"jump", head>>)
        test == Terminate(SwitchTo(opened, head), <<"branch", s[3], head + 1, head + 3>>)
        inner == [test EXCEPT !.loops = Append(@, <<head + 3, head + 2>>)]
        body == LowerInto(inner, head + 1, s[5], head + 2, tables)
        post == LowerInto([body EXCEPT !.loops = b.loops], head + 2, s[4], head, tables)
    IN  SwitchTo(post, head + 3)

LowerStmt(b, s, tables) ==
    LET n == Len(b.blocks)
        loop == IF b.loops = <<>> THEN <<"unsupported">> ELSE Last(b.loops)
    IN  CASE b.closed -> b
          [] s[1] \in {"let", "assign"} -> Emit(b, Instruction(s[1], s[2], s[3], tables))
          [] s[1] = "expr" -> LowerCall(b, s[2], tables)
          [] s[1] = "if" ->
               LET opened == Terminate(NewBlocks(b, 2), <<"branch", s[2], n + 1, n + 2>>)
               IN  SwitchTo(LowerInto(opened, n + 1, s[3], n + 2, tables), n + 2)
          [] s[1] = "switch" -> LowerSwitch(b, s, tables)
          [] s[1] = "for" -> LowerFor(b, s, tables)
          [] s[1] \in {"break", "continue"} /\ b.loops = <<>>
               -> Terminate(b, <<"unsupported">>)
          [] s[1] = "break" -> Terminate(b, <<"jump", loop[1]>>)
          [] s[1] = "continue" -> Terminate(b, <<"jump", loop[2]>>)
          [] s[1] = "leave" -> Terminate(b, <<"leave">>)
          [] s[1] = "block" -> LowerStmts(b, s[2], tables)

LowerStmts(b, body, tables) ==
    LET step(acc, s) == LowerStmt(acc, s, tables) IN FoldLeft(step, b, body)

Successors(term) ==
    CASE term[1] = "jump" -> {term[2]}
      [] term[1] = "branch" -> {term[3], term[4]}
      [] term[1] = "switch" -> {c[2] : c \in term[3]} \cup term[4]
      [] OTHER -> {}

(* Blocks every path from which reverts: a backward fixpoint.              *)
RECURSIVE RevertingBlocks(_, _, _)
RevertingBlocks(S, blocks, reverting) ==
    LET byCall(b) == \E i \in Range(b.ins) : i.op = "effect" /\ i.value[2] \in reverting
        byEnd(t) == CASE t[1] = "revert" -> TRUE
                      [] t[1] = "switch" -> t[4] # {} /\ Successors(t) \subseteq S
                      [] OTHER -> Successors(t) # {} /\ Successors(t) \subseteq S
        next == {i \in 1 .. Len(blocks) : byCall(blocks[i]) \/ byEnd(blocks[i].term)}
    IN  IF next = S THEN S ELSE RevertingBlocks(next, blocks, reverting)

-----------------------------------------------------------------------------
(* A definition reaches every use it dominates.                            *)
Dominates(d, at, blocks) ==
    LET step(x) == IF x = d THEN {} ELSE Successors(blocks[x].term)
    IN  at = d \/ at \notin Closure({1}, step)

(* Pure locals assigned once, with where: <<block, index>> and the value.  *)
LocalDefs(blocks) ==
    LET places == UNION {{<<b, i>> : i \in 1 .. Len(blocks[b].ins)} : b \in 1 .. Len(blocks)}
        at(p) == blocks[p[1]].ins[p[2]]
        assigning(x) == {p \in places : x \in Range(at(p).targets)}
        defining(x) == {p \in assigning(x) : /\ at(p).targets = <<x>>
                                             /\ at(p).value # NoValue
                                             /\ Purity(at(p).eff) = "pure"}
        names == {x \in UNION {Range(at(p).targets) : p \in places} :
                    Cardinality(assigning(x)) = 1 /\ defining(x) # {}}
    IN  Tabled([x \in names |-> [at |-> Get(defining(x)), value |-> at(Get(defining(x))).value]])

(* One round of replacing locals by their definitions and aliases by their *)
(* bodies, at instruction `place' of a function.                           *)
RECURSIVE SimplifyOnce(_, _, _, _, _)
SimplifyOnce(e, locals, blocks, place, aliases) ==
    LET visible(d) == IF d[1] = place[1] THEN d[2] < place[2]
                      ELSE Dominates(d[1], place[1], blocks)
        simpler(a) == SimplifyOnce(a, locals, blocks, place, aliases)
    IN  CASE IsLit(e) -> e
          [] IsId(e) -> IF e[2] \in DOMAIN locals /\ visible(locals[e[2]].at)
                        THEN locals[e[2]].value ELSE e
          [] OTHER -> LET call == Call(e[2], MapArgs(simpler, e))
                      IN  IF e[2] \in DOMAIN aliases
                             /\ Len(aliases[e[2]].params) = Len(e[3])
                          THEN Substitute(aliases[e[2]].body,
                                          Bound(aliases[e[2]].params, call[3]))
                          ELSE call

RECURSIVE SimplifyN(_, _, _, _, _, _)
SimplifyN(e, locals, blocks, place, aliases, n) ==
    LET next == FoldFixpoint(SimplifyOnce(e, locals, blocks, place, aliases))
    IN  IF n = 0 \/ next = e THEN e
        ELSE SimplifyN(next, locals, blocks, place, aliases, n - 1)

SimplifyRounds == 64

Simplify(e, blocks, place, aliases) ==
    SimplifyN(e, LocalDefs(blocks), blocks, place, aliases, SimplifyRounds)

(* A store's slot and value read over the function's own parameters.       *)
ResolveWrites(blocks, aliases) ==
    LET locals == LocalDefs(blocks)
        simple(e, p) == SimplifyN(e, locals, blocks, p, aliases, SimplifyRounds)
        resolved(ins, p) ==
            [ins EXCEPT !.write = {[slot |-> simple(w.slot, p), value |-> simple(w.value, p)] : w \in @}]
        all(blk, b) == [blk EXCEPT !.ins = Listed([i \in 1 .. Len(@) |-> resolved(@[i], <<b, i>>)])]
    IN  Listed([b \in 1 .. Len(blocks) |-> all(blocks[b], b)])

LowerFunction(f, tables) ==
    LET def == tables.defs[f]
        built == LowerStmts(NewBuilder, def.body, tables)
        blocks == Terminate(built, <<"leave">>).blocks
    IN  [kind |-> def.kind, params |-> def.params, returns |-> def.returns,
         blocks |-> ResolveWrites(blocks, tables.aliases),
         eff |-> tables.effects[f]]

-----------------------------------------------------------------------------
(* Checks: the calls of guard helpers, and the branches of which one side  *)
(* only reverts.  index 0 is the branch at the end of the block.           *)
HelperChecks(name, f, tables) ==
    LET places == UNION {{<<b, i>> : i \in 1 .. Len(f.blocks[b].ins)} : b \in 1 .. Len(f.blocks)}
        at(p) == f.blocks[p[1]].ins[p[2]]
        guarded == {p \in places : /\ at(p).op = "effect" /\ IsCall(at(p).value)
                                   /\ at(p).value[2] \in DOMAIN tables.guards
                                   /\ Len(at(p).value[3]) =
                                          Len(tables.guards[at(p).value[2]].params)}
        pass(p) == LET g == tables.guards[at(p).value[2]]
                   IN  Substitute(g.pass, Bound(g.params, at(p).value[3]))
    IN  {[function |-> name, block |-> p[1], index |-> p[2],
          cond |-> Simplify(pass(p), f.blocks, p, tables.aliases), passTo |-> 0] :
            p \in guarded}

BranchChecks(name, f, tables) ==
    LET reverting == RevertingBlocks({}, f.blocks, tables.reverting)
        isCheck(t) == t[1] = "branch" /\ (t[3] \in reverting) # (t[4] \in reverting)
        raw(t) == IF t[3] \in reverting THEN Negated(t[2]) ELSE t[2]
        check(b) == LET t == f.blocks[b].term
                        end == <<b, Len(f.blocks[b].ins) + 1>>
                    IN  [function |-> name, block |-> b, index |-> 0,
                         cond |-> Simplify(raw(t), f.blocks, end, tables.aliases),
                         passTo |-> IF t[3] \in reverting THEN t[4] ELSE t[3]]
    IN  {c \in {check(b) : b \in {x \in 1 .. Len(f.blocks) : isCheck(f.blocks[x].term)}} :
            Purity(EffectsOf(c.cond, tables.effects)) # "effectful"}

(* The program the walk runs on.                                           *)
Tables(defs, effects, reverting, aliases) ==
    [defs |-> defs, effects |-> effects, reverting |-> reverting, aliases |-> aliases,
     guards |-> GuardHelpers(defs, reverting, effects),
     stores |-> StoreHelpers(defs, aliases, effects)]

WithChecks(functions, tables) ==
    [functions |-> functions, effects |-> tables.effects,
     checks |-> UNION {HelperChecks(f, functions[f], tables)
                       \cup (IF f \in DOMAIN tables.guards THEN {}
                             ELSE BranchChecks(f, functions[f], tables))
                       : f \in DOMAIN functions}]

LoweredWith(tables) ==
    WithChecks(Tabled([f \in DOMAIN tables.defs |-> LowerFunction(f, tables)]), tables)

Lowered(defs) ==
    LET with(effects) == Tables(defs, effects, AlwaysReverting(defs), Aliases(defs, effects))
    IN  LoweredWith(with(EffectTable(defs)))
=============================================================================
