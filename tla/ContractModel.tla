---------------------------- MODULE ContractModel ----------------------------
(***************************************************************************)
(* What ModelBuilder builds from a contract's functions: how the contract  *)
(* is read, its words divided and its jobs listed, what each walk finds,   *)
(* and where transactions lead.  Everything built is checked against the   *)
(* concrete calls (YulSemantics).                                          *)
(***************************************************************************)
EXTENDS ModelBuilder, Walk, CallProperty

S == INSTANCE YulSemantics

-----------------------------------------------------------------------------
(* What a build starts from.  Too many boundaries between arguments, or    *)
(* too many walks, and the contract is refused before any walk.            *)
Choice(e, b) ==
    [i \in 1 .. Len(e.params) |->
        {r \in 1 .. Len(b.argRegions) : b.argRegions[r] \subseteq e.params[i].domain}]

PlannedWalks(b) ==
    LET ways(set) == Max({1, Cardinality(set)})
        per(e) == FoldLeft(LAMBDA n, set : n * ways(set), 1, Choice(e, b))
    IN  FoldLeft(LAMBDA n, e : n + per(e) * Cardinality(b.allStorage), 0, b.walked)

StorageRegions(b) == Products([i \in 1 .. Len(b.storage) |-> 1 .. Len(b.slotRegions[i])])

Labels(storage) ==
    [n \in {v.slot : v \in Range(storage)} |-> (CHOOSE v \in Range(storage) : v.slot = n).label]

WithTables(P, ir) ==
    P @@ ir @@ [props |-> Get(CompileSpec(P.spec, P.storage)), slots |-> Labels(P.storage),
                pure |-> PureHelpers(ir.functions, ir.checks), reach |-> Nothing]

(* The regions of the words, and what was refused before any walk.         *)
Divided(b, entries, cuts) ==
    LET tooMany == Cardinality(DOMAIN cuts) > b.limits.boundaries
        unread == UNION {EntryRefusal(e, b) : e \in Range(b.entries)} \cup GuardRefusals(entries, b)
    IN  b @@ [slotRegions |-> SlotRegions(b), guards |-> GuardTable(entries, b), walked |-> entries,
              argRegions |-> PartitionWithin(Word, IF tooMany THEN {} ELSE Range(cuts)),
              early |-> IF tooMany THEN unread \cup {<<"boundaries">>} ELSE unread]

Reached(b) ==
    LET with(entries) == Divided(b, entries, ArgumentCuts(entries, b))
    IN  with(Entries(b))

Planned(b) ==
    IF PlannedWalks(b) <= b.limits.walks THEN b
    ELSE [b EXCEPT !.walked = <<>>, !.early = @ \cup {<<"walks", e.sig>> : e \in Range(b.walked)}]

Started(b) == b @@ [allStorage |-> StorageRegions(b), initial |-> InitialStorage(b)]

Jobs(b) ==
    LET of(e) == LET all == {<<e, s, a>> : s \in b.allStorage, a \in Products(Choice(e, b))}
                 IN  Enumerated(all)
    IN  FlattenSeq([i \in 1 .. Len(b.walked) |-> of(b.walked[i])])

Contract(P) ==
    LET b == Planned(Started(Reached(WithTables(P, Lowered(P.defs)))))
    IN  b @@ [jobs |-> Jobs(b)]

(* Which storages the transactions of a model lead each to.                *)
IdleReachability(transitions, b) ==
    LET next(n) == {t[3] : t \in {u \in transitions : u[1] = n}}
        idles == {Idle(s) : s \in b.allStorage}
    IN  [s \in b.allStorage |-> {n[2] : n \in Closure({Idle(s)}, next) \cap idles}]

-----------------------------------------------------------------------------
(* Concrete calls to compare with: every entrypoint, every argument of its *)
(* ABI type, every storage of the declared types (a mapping's own slot     *)
(* holds nothing).                                                         *)
Typed(types) == Products([i \in 1 .. Len(types) |-> DomainOrWholeWord(types[i])])

Storages(P) ==
    LET words(v) == IF v.type[1] = "mapping" THEN {0} ELSE DomainOfSlot(v)
        slots == [v \in Range(P.contract.storage) |-> words(v)]
        places == [n \in {v.slot : v \in DOMAIN slots} |->
                      slots[CHOOSE v \in DOMAIN slots : v.slot = n]] @@ P.cells
    IN  Products(places)

(* The entrypoints whose body the semantics can run.                       *)
Runnable(P) == {e \in Range(P.contract.entries) : e.body \in DOMAIN P.contract.defs}

Machine(P, env) ==
    [defs |-> P.contract.defs, env |-> env, spec |-> P.contract.spec,
     slotOf |-> [l \in {v.label : v \in Range(P.contract.storage)} |->
                    (CHOOSE v \in Range(P.contract.storage) : v.label = l).slot],
     other |-> UNION {{<<e.body, v, n>> : v \in Typed(e.types), n \in P.envs} : e \in Runnable(P)},
     level |-> IF P.contract.reentrancy THEN P.depth ELSE 0]

OutcomesOf(P) ==
    LET calls(e) == Typed(e.types) \X Storages(P) \X P.envs
        outcome(e, c) == {[sig |-> e.sig, args |-> c[1], storage |-> c[2], env |-> c[3],
                           reverts |-> o.reverts, after |-> o.storage]
                             : o \in S!Transact(e.body, c[1], c[2], Machine(P, c[3]))}
    IN  UNION {UNION {outcome(e, c) : c \in calls(e)} : e \in Runnable(P)}

(* A program: the contract, what its calls do, and what to ask of it.      *)
Ready(P) == [P EXCEPT !.contract = Contract(@)] @@ [outcomes |-> OutcomesOf(P)]

RegionIn(regions, v) == CHOOSE r \in 1 .. Len(regions) : v \in regions[r]
StorageIn(storage) ==
    [i \in 1 .. Len(B.storage) |-> RegionIn(B.slotRegions[i], S!At(storage, B.storage[i].slot))]
ArgsIn(args) == [i \in 1 .. Len(args) |-> RegionIn(B.argRegions, args[i])]

Breaks(storage) == S!Broken(storage, Machine(Read[program], <<>>))

(* What was cut short says nothing of the whole.                           *)
IsCut(sig) == \E r \in refused : r[1] # "guard" /\ (Len(r) = 2 => r[2] = sig)

Compared == {o \in Read[program].outcomes : ~IsCut(o.sig)}

(* The states a call's first state leads to before the transaction ends.   *)
Within(start) ==
    LET next(n) == {t[3] : t \in {u \in impl : u[1] = n /\ u[2] # <<"next_tx">>}}
    IN  Closure({start}, next)

(* Every call the contract can carry out is in the model, up to regions:   *)
(* it is a path, and a run of the implementation that ends where the call  *)
(* ends, in the bad state exactly when the call breaks a property.  The    *)
(* one exception is an entrypoint reported as cut (model.rs:1967-1979,     *)
(* model.rs:2043-2047).                                                    *)
EveryCallIsModelled ==
    phase = "done" =>
        LET calls == {<<o.sig, ArgsIn(o.args), StorageIn(o.storage)>> : o \in Compared}
            ends == [c \in calls |-> Within(<<c[1], "#", 0, <<c[2], c[3]>>>>)]
            on(o, p) == /\ p.entrypoint = o.sig /\ p.reverts = o.reverts
                        /\ \A i \in DOMAIN o.args : o.args[i] \in p.args[i]
                        /\ \A v \in Range(B.storage) :
                              S!At(o.storage, v.slot) \in p.storage[v.label]
        IN  \A o \in Compared :
                LET a == ArgsIn(o.args)
                    s == StorageIn(o.storage)
                    end == IF o.reverts THEN <<o.sig, "#rev", s>>
                           ELSE <<o.sig, "#ret", StorageIn(o.after)>>
                    bad == ~o.reverts /\ Breaks(o.after)
                IN  /\ <<Idle(s), <<"call", o.sig, a>>, <<o.sig, "#", 0, <<a, s>>>>>> \in impl
                    /\ end \in ends[<<o.sig, a, s>>]
                    /\ <<end, <<"next_tx">>, Bad>> \in impl <=> bad
                    /\ \E p \in paths : on(o, p)

(* A question about one call, in the terms of CallProperty, on a concrete  *)
(* call.                                                                   *)
CellAt(slot, keys) == FoldLeft(LAMBDA at, k : S!Hash(<<k, at>>), slot, keys)

SlotNamed(label) == (CHOOSE v \in Range(B.storage) : v.label = label).slot

RECURSIVE TermOn(_, _), ConditionOn(_, _)
TermOn(t, o) ==
    CASE t[1] = "argument" -> o.args[t[2] + 1]
      [] t[1] = "storage" -> S!At(o.storage, SlotNamed(t[2]))
      [] t[1] = "cell" -> S!At(o.storage,
                               CellAt(SlotNamed(t[2]), [i \in 1 .. Len(t[3]) |-> TermOn(t[3][i], o)]))
      [] t[1] = "field" -> S!At(o.storage,
             CellAt(SlotNamed(t[2]), [i \in 1 .. Len(t[3]) |-> TermOn(t[3][i], o)]) + t[4])
      [] t[1] = "slot" -> S!At(o.storage, t[2])
      [] t[1] = "env" -> o.env[t[2]]
      [] t[1] = "immutable" -> o.env.loadimmutable
      [] t[1] = "lit" -> t[2]
      [] OTHER -> Apply2(t[1], TermOn(t[2], o), TermOn(t[3], o))

ConditionOn(c, o) ==
    CASE c[1] = "all" -> \A x \in Range(c[2]) : ConditionOn(x, o)
      [] c[1] = "any" -> \E x \in Range(c[2]) : ConditionOn(x, o)
      [] c[1] = "not" -> ~ConditionOn(c[2], o)
      [] OTHER -> LET l == TermOn(c[2], o)
                      r == TermOn(c[3], o)
                  IN  CASE c[1] = "ule" -> l <= r [] c[1] = "ult" -> l < r
                        [] c[1] = "uge" -> l >= r [] c[1] = "ugt" -> l > r
                        [] c[1] = "eq" -> l = r [] OTHER -> l # r

Matches(o, rule, invariants) ==
    /\ o.sig = rule.entrypoint /\ ConditionOn(rule.given, o)
    /\ \A i \in invariants : ConditionOn(i, o)

(* What is answered "holds" holds of every call there is: no call that     *)
(* matches the question, from a storage the invariants allow, ends the     *)
(* other way (call_property.rs:203).                                       *)
HoldsIsTrue ==
    phase = "done" =>
        \A q \in Read[program].questions :
            Check(q.rules, q.invariants, paths) = "holds" =>
                \A rule \in q.rules, o \in Compared :
                    Matches(o, rule, q.invariants) => o.reverts = rule.reverts

(* The storage a deployment leaves is in a state the model starts in       *)
(* (model.rs:1194-1245).                                                   *)
DeploymentIsInitial ==
    LET P == Read[program]
        zero == [n \in {v.slot : v \in Range(P.contract.storage)} |-> 0]
        constructed(f, env) == {o.storage : o \in {x \in S!Transact(f, <<>>, zero, Machine(P, env)) :
                                                      ~x.reverts}}
        deployed == IF P.constructor = "" THEN {zero}
                    ELSE UNION {constructed(P.constructor, env) : env \in P.envs}
    IN  \A storage \in deployed : StorageIn(storage) \in B.initial
=============================================================================
