------------------------------ MODULE Regions ------------------------------
(***************************************************************************)
(* What the walk over a contract starts from (model.rs, spec.rs): the      *)
(* properties compiled to predicates, the entrypoints, the regions the     *)
(* arguments and each storage variable are cut into, and the storage the   *)
(* constructor leaves.                                                     *)
(*                                                                         *)
(* A contract b is a record: functions and checks (Lower), defs; entries,  *)
(* each [sig, external, types]; storage, a sequence of [label, slot, type, *)
(* whole]; spec, a sequence of [id, assertion]; immutables; reentrancy;    *)
(* limits.                                                                 *)
(***************************************************************************)
EXTENDS Lower

(* Properties (spec.rs).  An operand is <<"uint", n>> or <<"storage", l>>, *)
(* of which only a variable that owns its slot can be spoken about.        *)
OperandSide(o, vars) ==
    IF o[1] = "uint" THEN Some(Lit(o[2]))
    ELSE {Id(v.label) : v \in {u \in Range(vars) :
             u.label = o[2] /\ u.whole /\ DomainOf(u.type) # Nothing}}

CompileOrder(left, right, vars, OnLeft(_), OnRight(_)) ==
    LET on(l, r) == IF IsLit(l) /\ IsLit(r)
                    THEN Some(IF l[2] \in OnLeft(r[2]) THEN PTrue ELSE PFalse)
                    ELSE Compare(l, r, OnLeft, OnRight, Nothing)
    IN  UNION {on(l, r) : l \in OperandSide(left, vars), r \in OperandSide(right, vars)}

RECURSIVE CompileAssertion(_, _)
CompileAssertion(a, vars) ==
    LET Point(k) == {k}
        both(acc, x) == UNION {PAnd(p, q) : p \in acc, q \in CompileAssertion(x, vars)}
        either(acc, x) == UNION {POr(p, q) : p \in acc, q \in CompileAssertion(x, vars)}
    IN  CASE a[1] = "ule" -> CompileOrder(a[2], a[3], vars, Le, Ge)
          [] a[1] = "ult" -> CompileOrder(a[2], a[3], vars, Lt, Gt)
          [] a[1] = "uge" -> CompileOrder(a[2], a[3], vars, Ge, Le)
          [] a[1] = "ugt" -> CompileOrder(a[2], a[3], vars, Gt, Lt)
          [] a[1] = "eq" -> CompileOrder(a[2], a[3], vars, Point, Point)
          [] a[1] = "ne" -> CompileOrder(a[2], a[3], vars, NeTo, NeTo)
          [] a[1] = "and" -> FoldLeft(both, Some(PTrue), a[2])
          [] a[1] = "or" -> FoldLeft(either, Some(PFalse), a[2])
          [] a[1] = "not" -> {Negate(p) : p \in CompileAssertion(a[2], vars)}

(* One assertion outside the fragment rejects the whole specification.     *)
CompileSpec(spec, vars) ==
    LET one(s) == {[id |-> s.id, predicate |-> p] : p \in CompileAssertion(s.assertion, vars)}
    IN  IF \E s \in Range(spec) : one(s) = {} THEN Nothing
        ELSE Some(UNION {one(s) : s \in Range(spec)})

About(b, label) == {p \in b.props : PVar(p.predicate) = Some(label)}

-----------------------------------------------------------------------------
(* Helpers that only compute, and conditions read through them.            *)
MaxPureBody == 32
MaxInline == 6

PureHelpers(functions, checks) ==
    LET pure(f) == /\ functions[f].eff \cap {"writes_storage", "can_revert"} = {}
                   /\ \A c \in checks : c.function # f
                   /\ Len(functions[f].blocks) = 1
                   /\ Len(functions[f].blocks[1].ins) <= MaxPureBody
                   /\ functions[f].returns # <<>>
    IN  Tabled([f \in {g \in DOMAIN functions : pure(g)} |->
                   [params |-> functions[f].params, result |-> functions[f].returns[1],
                    single |-> Len(functions[f].returns) = 1,
                    body |-> functions[f].blocks[1].ins]])

RECURSIVE InlinePure(_, _, _)
InlinePure(e, pure, depth) ==
    LET inline(a) == InlinePure(a, pure, depth + 1)
        args == MapArgs(inline, e)
        g == pure[e[2]]
        given == [x \in {g.params[i] : i \in 1 .. Min({Len(g.params), Len(args)})} |->
                     args[CHOOSE i \in 1 .. Len(args) : g.params[i] = x]]
        run(env, i) == IF i.op # "effect" /\ i.value # NoValue /\ Len(i.targets) = 1
                       THEN With(env, i.targets[1], inline(Substitute(i.value, env)))
                       ELSE env
        after == FoldLeft(run, given, g.body)
    IN  CASE depth >= MaxInline \/ ~IsCall(e) -> e
          [] /\ e[2] \in DOMAIN pure \ StorageIdioms
             /\ g.single /\ g.result \in DOMAIN after -> after[g.result]
          [] OTHER -> Call(e[2], args)

(* A condition over locals, rewritten over what defines them where it      *)
(* stands: the last definition before it in its own block, or the only     *)
(* definition the function has.                                            *)
MaxResolve == 8

RECURSIVE ResolveLocals(_, _, _, _, _)
ResolveLocals(e, f, block, before, depth) ==
    LET single(i) == i.op # "effect" /\ Len(i.targets) = 1 /\ i.value # NoValue
        ins(p) == f.blocks[p[1]].ins[p[2]]
        places == UNION {{<<b, i>> : i \in 1 .. Len(f.blocks[b].ins)} : b \in 1 .. Len(f.blocks)}
        writing == {p \in places : e[2] \in Range(ins(p).targets)}
        here == {p \in writing : p[1] = block /\ p[2] < before /\ single(ins(p))}
        last == Max({p[2] : p \in here})
        whole == {p \in writing : Cardinality(writing) = 1 /\ single(ins(p))}
        through(a) == ResolveLocals(a, f, block, before, depth + 1)
    IN  CASE depth >= MaxResolve \/ IsLit(e) -> e
          [] IsCall(e) -> Call(e[2], MapArgs(through, e))
          [] e[2] \in Range(f.params) -> e
          [] here # {} -> ResolveLocals(ins(<<block, last>>).value, f, block, last, depth + 1)
          [] whole # {} -> through(ins(Get(whole)).value)
          [] OTHER -> e

ResolveRounds == 4

RECURSIVE Resolved(_, _, _, _)
Resolved(e, c, b, n) ==
    LET f == b.functions[c.function]
        before == IF c.index = 0 THEN Len(f.blocks[c.block].ins) + 1 ELSE c.index
        next == ResolveLocals(InlinePure(e, b.pure, 0), f, c.block, before, 0)
    IN  IF n = 0 \/ next = e THEN e ELSE Resolved(next, c, b, n - 1)

GuardCondition(c, b) ==
    LET f == b.functions[c.function]
        before == IF c.index = 0 THEN Len(f.blocks[c.block].ins) + 1 ELSE c.index
    IN  Resolved(ResolveLocals(c.cond, f, c.block, before, 0), c, b, ResolveRounds)

(* Where a check stands is its id.                                         *)
CheckId(c) == <<c.function, c.block, c.index>>

IsPure(c, b) == Purity(EffectsOf(c.cond, b.effects)) = "pure"

(* The checks of a function that are predicates over one variable; one     *)
(* that reads more than its arguments is refused.                          *)
ChecksOf(f, b) == {c \in b.checks : c.function = f}

Guards(f, domain, b) ==
    LET predicate(c) == Translate(GuardCondition(c, b), domain)
        known == {c \in ChecksOf(f, b) : IsPure(c, b) /\ predicate(c) # Nothing}
    IN  Tabled([id \in {CheckId(c) : c \in known} |->
                   Get(predicate(CHOOSE c \in known : CheckId(c) = id))])

-----------------------------------------------------------------------------
(* Entrypoints.  The body behind an external function is the first         *)
(* function of that kind it calls, in the order its calls are written.     *)
RECURSIVE Calls(_)
Calls(e) ==
    IF IsCall(e) THEN <<e[2]>> \o FlattenSeq([i \in 1 .. Len(e[3]) |-> Calls(e[3][i])]) ELSE <<>>

CallsOf(f) ==
    LET of(ins) == FlattenSeq([k \in 1 .. Len(ins) |-> Calls(ins[k].value)])
    IN  FlattenSeq([n \in 1 .. Len(f.blocks) |-> of(f.blocks[n].ins)])

BodyBehind(e, b) ==
    LET isBody(f) == f \in DOMAIN b.functions /\ b.functions[f].kind = "body"
        bodies == SelectSeq(CallsOf(b.functions[e.external]), isBody)
    IN  IF bodies = <<>> THEN Nothing ELSE Some(Head(bodies))

EntryRefusal(e, b) ==
    CASE BodyBehind(e, b) = Nothing -> {<<"no body", e.sig>>}
      [] ~Supported(b.functions[Get(BodyBehind(e, b))].eff) -> {<<"effects", e.sig>>}
      [] OTHER -> {}

(* A body that takes another number of parameters than its ABI lists takes *)
(* each over the whole word.                                               *)
EntryOf(e, b) ==
    LET f == Get(BodyBehind(e, b))
        params == b.functions[f].params
        type(i) == IF Len(e.types) = Len(params) THEN e.types[i] ELSE <<"uint", W>>
    IN  [sig |-> e.sig, func |-> f,
         params |-> [i \in 1 .. Len(params) |->
                        [name |-> params[i], type |-> type(i),
                         domain |-> DomainOrWholeWord(type(i))]]]

Entries(b) ==
    LET accepted(e) == EntryRefusal(e, b) = {}
        es == SelectSeq(b.entries, accepted)
    IN  [i \in 1 .. Len(es) |-> EntryOf(es[i], b)]

Widest(e) ==
    LET wider(a, p) == IF a \subseteq p.domain THEN p.domain ELSE a
    IN  IF e.params = <<>> THEN Word ELSE FoldLeft(wider, {}, e.params)

(* The functions an entrypoint may run: the ones called as a definition or *)
(* a statement of their own, other than the guard helpers.                 *)
GuardHelperNames(b) ==
    {b.functions[c.function].blocks[c.block].ins[c.index].value[2] :
        c \in {d \in b.checks : d.index # 0}}

Reachable(func, b) ==
    LET callee(i) == IF i.write = {} /\ IsCall(i.value)
                        /\ (i.op = "effect" => i.value[2] \notin GuardHelperNames(b))
                     THEN {i.value[2]} \cap DOMAIN b.functions ELSE {}
        callees(f) == UNION {UNION {callee(i) : i \in Range(b.functions[f].blocks[n].ins)}
                             : n \in 1 .. Len(b.functions[f].blocks)}
    IN  Closure({func}, callees)

-----------------------------------------------------------------------------
(* Cutting a universe by sets: the non-empty atoms, lowest first.          *)
Pieces(atoms, S) == ({a \cap S : a \in atoms} \cup {a \ S : a \in atoms}) \ {{}}

PartitionWithin(universe, sets) ==
    LET lower(A, B) == Lo(A) < Lo(B)
    IN  SortSeq(Enumerated(FoldSet(LAMBDA S, atoms : Pieces(atoms, S), {universe}, sets)), lower)

DomainOfSlot(v) == IF DomainIn(v.type) = Nothing THEN Word ELSE Get(DomainIn(v.type))

SlotRegions(b) ==
    [i \in 1 .. Len(b.storage) |->
        PartitionWithin(DomainOfSlot(b.storage[i]),
                        {PSet(p.predicate) : p \in About(b, b.storage[i].label)})]

LabelAt(n, b) ==
    LET at == {i \in 1 .. Len(b.storage) : b.storage[i].slot = n}
    IN  IF at = {} THEN Nothing ELSE Some(b.storage[Min(at)].label)

(* The sets an entrypoint cuts its arguments by: its guards, its branches, *)
(* and the properties of a variable a parameter is written to.             *)
CutsBy(p, f) == /\ PVar(p) # Nothing /\ Get(PVar(p)) \in Range(f.params)
                /\ PSet(p) \notin {Word, {}}

GuardCuts(f, domain, b) ==
    LET g == Guards(f, domain, b)
    IN  {<<<<"check", id>>, PSet(g[id])>> : id \in {d \in DOMAIN g : CutsBy(g[d], b.functions[f])}}

BranchCuts(f, domain, b) ==
    LET fn == b.functions[f]
        branches == {n \in 1 .. Len(fn.blocks) : fn.blocks[n].term[1] = "branch"}
    IN  UNION {{<<<<"branch", f, n>>, PSet(p)>> :
                   p \in {q \in Translate(fn.blocks[n].term[2], domain) : CutsBy(q, fn)}}
               : n \in branches}

SpecCuts(f, b) ==
    LET fn == b.functions[f]
        writes == UNION {UNION {i.write : i \in Range(fn.blocks[n].ins)} : n \in 1 .. Len(fn.blocks)}
        ofParameter == {w \in writes : IsLit(w.slot) /\ Idents(w.value) \cap Range(fn.params) # {}}
        labels == UNION {LabelAt(w.slot[2], b) : w \in ofParameter}
    IN  {<<<<"spec", p.id>>, PSet(p.predicate)>> : p \in UNION {About(b, l) : l \in labels}}

(* A cut keeps the first set it was named with.                            *)
AddCuts(cuts, new) ==
    cuts @@ Tabled([id \in {c[1] : c \in new} |-> (CHOOSE c \in new : c[1] = id)[2]])

ArgumentCuts(entries, b) ==
    LET byEntry(cuts, e) ==
            AddCuts(cuts, UNION {GuardCuts(f, Widest(e), b) \cup BranchCuts(f, Widest(e), b)
                                 \cup SpecCuts(f, b) : f \in Reachable(e.func, b)})
        byType(cuts, e) ==
            AddCuts(cuts, {<<<<"type", p.type>>, p.domain>> :
                              p \in {q \in Range(e.params) : q.domain # Word}})
    IN  FoldLeft(byType, FoldLeft(byEntry, <<>>, entries), entries)

(* The guards of a function are those of the last entrypoint reaching it.  *)
GuardTable(entries, b) ==
    LET add(table, e) ==
            LET reached == Reachable(e.func, b)
            IN  Tabled([f \in reached |-> Guards(f, Widest(e), b)]) @@ table
    IN  FoldLeft(add, <<>>, entries)

GuardRefusals(entries, b) ==
    {<<"guard", CheckId(c)>> :
        c \in {d \in b.checks : ~IsPure(d, b) /\ \E e \in Range(entries) :
                                    d.function \in Reachable(e.func, b)}}

-----------------------------------------------------------------------------
(* Fault: a write of a value that is not a literal is passed over.         *)
ConstructorStepLiteral(effect, i) ==
    LET w == Get(i.write)
        slot == FoldFixpoint(w.slot)
    IN  IF i.write # {} /\ IsLit(slot) /\ IsLit(FoldFixpoint(w.value))
        THEN [effect EXCEPT !.known = With(@, slot[2] + 1, FoldFixpoint(w.value)[2])]
        ELSE effect

(* The storage the constructor leaves: known words, slots it leaves        *)
(* unknown, and whether a write could not be placed at all.                *)
ConstructorStep(effect, i) ==
    LET w == Get(i.write)
        slot == FoldFixpoint(w.slot)
        value == FoldFixpoint(w.value)
        v == slot[2] + 1
    IN  CASE i.write = Nothing \/ ~IsLit(slot) -> [effect EXCEPT !.every = TRUE]
          [] v > effect.slots -> effect
          [] IsLit(value) -> [effect EXCEPT !.known = With(@, v, value[2]), !.unknown = @ \ {v}]
          [] OTHER -> [effect EXCEPT !.known = Without(@, {v}), !.unknown = @ \cup {v}]

ConstructorWrites(b) ==
    LET writes(i) == "writes_storage" \in i.eff
        of(f) == SelectSeq(FlattenSeq([n \in 1 .. Len(b.functions[f].blocks) |->
                                           b.functions[f].blocks[n].ins]), writes)
        constructors == {f \in DOMAIN b.functions : b.functions[f].kind = "constructor"}
    IN  FlattenSeq(Enumerated({of(f) : f \in constructors}))

ConstructorStorage(b) ==
    FoldLeft(ConstructorStep,
             [known |-> <<>>, unknown |-> {}, every |-> FALSE, slots |-> Len(b.storage)],
             ConstructorWrites(b))

(* The first region that holds every one of the values.                    *)
RegionOf(regions, values) ==
    LET holding == {r \in 1 .. Len(regions) : values \subseteq regions[r]}
    IN  IF holding = {} THEN Nothing ELSE Some(Min(holding))

InitialRegions(effect, i, regions) ==
    LET value == IF i \in DOMAIN effect.known THEN effect.known[i] ELSE 0
        region == RegionOf(regions, {value})
    IN  CASE effect.every \/ i \in effect.unknown -> 1 .. Len(regions)
          [] region = Nothing -> {1}
          [] OTHER -> region

Products(sets) ==
    LET by(i, choices) == {i :> x @@ c : x \in sets[i], c \in choices}
    IN  FoldSet(by, {<<>>}, DOMAIN sets)

InitialStorage(b) ==
    LET effect == ConstructorStorage(b)
    IN  Products([i \in 1 .. Len(b.storage) |-> InitialRegions(effect, i, b.slotRegions[i])])
=============================================================================
