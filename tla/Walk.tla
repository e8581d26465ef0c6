-------------------------------- MODULE Walk --------------------------------
(***************************************************************************)
(* One walk over an entrypoint (Walk::trace): the abstract execution of    *)
(* its body from one region of every argument and storage variable.  Where *)
(* nothing says which way the program goes the walk takes the next number  *)
(* of its splits; with none left it stops and says how many ways there     *)
(* are, and is run again with one more.                                    *)
(*                                                                         *)
(* A walk w is a record: frames, storage (a region of every variable),     *)
(* memory, steps, facts, revertedAt (the facts when a check first failed), *)
(* versions and raw (the writes so far), splits (what is left of them), n  *)
(* (steps taken), at (the instruction it is at, 0 for the end of a block), *)
(* answer (of the last question), widest (the entrypoint's widest domain)  *)
(* and status, which is <<"running">>, <<"return">>, <<"revert">>,         *)
(* <<"undecided", ways>> or <<"refused", why>>.                            *)
(***************************************************************************)
EXTENDS Regions

CONSTANTS FreeAt, FreePointer   \* the free memory pointer: where, and at first

MaxFrames == 32

(* solc's dispatcher leaves memory word FreeAt set before the body runs.   *)
StartOfWalk(e, args, storage, splits, b) ==
    LET names == {e.params[i].name : i \in 1 .. Len(e.params)}
        at(x) == CHOOSE i \in 1 .. Len(e.params) : e.params[i].name = x
    IN  [frames |-> <<[func |-> e.func, block |-> 1, index |-> 1,
                       env |-> [x \in names |-> b.argRegions[args[at(x)]]],
                       terms |-> [x \in names |-> Id(x)],
                       returnsTo |-> <<>>, visited |-> {}]>>,
         storage |-> storage, memory |-> [a \in {FreeAt} |-> {FreePointer}],
         steps |-> <<>>, facts |-> <<>>, revertedAt |-> Nothing,
         versions |-> <<>>, raw |-> <<>>, splits |-> splits, n |-> 0,
         at |-> <<e.func, 1, 1>>, answer |-> FALSE, widest |-> Widest(e),
         status |-> <<"running">>]

Running(w) == w.status = <<"running">>
Top(w) == Last(w.frames)
WithTop(w, fr) == [w EXCEPT !.frames[Len(w.frames)] = fr]
Stops(w, status) == [w EXCEPT !.status = status]

Names(w, b) == [slots |-> b.slots, immutables |-> b.immutables,
                versions |-> w.versions, raw |-> w.raw]

Context(w, b) ==
    [env |-> Top(w).env, memory |-> w.memory, pure |-> b.pure,
     region |-> [i \in 1 .. Len(b.storage) |-> b.slotRegions[i][w.storage[i]]]]

TermIn(w, e, b) == Term(e, Top(w).terms, Names(w, b))

-----------------------------------------------------------------------------
(* One of a number of ways, the next split says which (from 0).            *)
Forked(w, ways, Then(_, _)) ==
    IF w.splits = <<>> THEN Stops(w, <<"undecided", ways>>)
    ELSE Then([w EXCEPT !.splits = Tail(@)], Head(w.splits))

(* Whether a condition holds: by predicate, by value, by what the path     *)
(* assumed, or by a fork the path then remembers.                          *)
Asked(w, cond, predicate, read, b) ==
    LET rel == RelationOf(read, Top(w).terms, Names(w, b))
        answer == AnswerOf(cond, predicate, Context(w, b), rel, w.facts)
        record(x, pick) == [x EXCEPT !.facts = Recorded(rel, pick = 1, @), !.answer = pick = 1]
    IN  IF answer # Nothing THEN [w EXCEPT !.answer = Get(answer)]
        ELSE Forked(w, 2, record)

(* A question about the instruction itself, not about a condition.         *)
AskedNet(w, kind, at, b) ==
    LET net == Call(kind, <<Id(at[1]), Lit(at[2]), Lit(at[3])>>)
    IN  Asked(w, net, Nothing, net, b)

AskedCheck(w, c, b) ==
    LET g == IF c.function \in DOMAIN b.guards THEN Found(b.guards[c.function], CheckId(c))
             ELSE Nothing
    IN  Asked(w, c.cond, g, InlinePure(c.cond, b.pure, 0), b)

(* A failed check is remembered, and the walk goes on past it: the plant   *)
(* needs what a program without the check would do.                        *)
Checked(w, c) ==
    [w EXCEPT !.steps = Append(@, <<"check", CheckId(c), w.answer>>),
              !.revertedAt = IF ~w.answer /\ @ = Nothing THEN Some(w.facts) ELSE @]

CheckAt(at, b) == {c \in b.checks : CheckId(c) = at}

-----------------------------------------------------------------------------
(* Storage.  What is written equals the variable's next version.           *)
Written(w, i, to, label, slot, value, b) ==
    LET moved == [w EXCEPT !.storage[i] = to, !.versions = Bump(@, label)]
        after == NormalTerm(Call1("sload", Lit(slot)), Names(moved, b))
    IN  [moved EXCEPT !.facts = With(@, EqKey(after, value), TRUE),
                      !.steps = Append(@, <<"store", i, to>>)]

(* The region by what the path assumed, each variable bounded by its       *)
(* region's end under the name it had when the call started.               *)
RegionByFacts(w, i, term, b) ==
    LET bound(j) == <<<<"storage", b.storage[j].label, 0>>,
                      Lit(Hi(b.slotRegions[j][w.storage[j]])), FALSE>>
        edges == EdgesOf(w.facts) \cup {bound(j) : j \in 1 .. Len(b.storage)}
    IN  RegionOf(b.slotRegions[i], BoundsOf(edges, term))

StoreDeclared(w, i, values, term, b) ==
    LET v == b.storage[i]
        byValue == UNION {RegionOf(b.slotRegions[i], S) : S \in values}
        region == IF byValue # Nothing THEN byValue ELSE RegionByFacts(w, i, term, b)
        store(x, to) == Written(x, i, to, v.label, v.slot, term, b)
        pick(x, way) == store(x, way + 1)
    IN  CASE region # Nothing -> store(w, Get(region))
          [] Len(b.slotRegions[i]) = 1 -> store(w, 1)
          [] OTHER -> Forked(w, Len(b.slotRegions[i]), pick)

(* A literal slot without a name is one place; a computed one is a cell of *)
(* a variable, or some cell the walk cannot tell.                          *)
StoreUnnamed(w, slot, e, b) ==
    LET moved == [w EXCEPT !.raw = Bump(@, slot)]
        after == NormalTerm(Call1("sload", Lit(slot)), Names(moved, b))
    IN  [moved EXCEPT !.facts = With(@, EqKey(after, TermIn(w, e, b)), TRUE)]

StoreCell(w, e, b) ==
    LET base == UNION {Found(b.slots, s) : s \in BaseSlot(TermIn(w, e, b))}
        bumped(versions, v) == Bump(versions, v.label)
    IN  IF base # Nothing THEN [w EXCEPT !.versions = Bump(@, Get(base))]
        ELSE [w EXCEPT !.versions = FoldLeft(bumped, @, b.storage)]

Store(w, write, b) ==
    LET slot == FoldFixpoint(Substitute(write.slot, Top(w).terms))
        named == {i \in 1 .. Len(b.storage) : b.storage[i].slot = slot[2]}
    IN  CASE ~IsLit(slot) -> StoreCell(w, write.slot, b)
          [] named # {} -> 
               StoreDeclared(w, Min(named), ValueSet(write.value, Top(w).env),
                             TermIn(w, write.value, b), b)
          [] OTHER -> StoreUnnamed(w, slot[2], write.value, b)

-----------------------------------------------------------------------------
(* Control leaves the contract.  A callee that may call back leaves every  *)
(* variable where some sequence of transactions can.                       *)
ReenteredAt(w, to, b) ==
    LET one(x, i) == [x EXCEPT !.versions = Bump(@, b.storage[i].label),
                               !.storage[i] = to[i],
                               !.steps = IF w.storage[i] = to[i] THEN @
                                         ELSE Append(@, <<"store", i, to[i]>>)]
    IN  FoldLeft(one, w, [i \in 1 .. Len(b.storage) |-> i])

(* Fault: a callee that calls back changes nothing.                        *)
ReentryTargetsNone(w, b) == {w.storage}

ReentryTargets(w, b) ==
    LET reached == IF w.storage \in DOMAIN Get(b.reach) THEN Get(b.reach)[w.storage] ELSE {}
    IN  CASE b.reach = Nothing -> b.allStorage
          [] reached = {} -> {w.storage}
          [] OTHER -> reached

CallsOut(e) == CalledNames(e) \cap CallOpcodes # {}

CalledOut(w, b) ==
    LET gone == [w EXCEPT !.steps = Append(@, <<"call">>)]
        targets == Enumerated(ReentryTargets(w, b))
        pick(x, way) == ReenteredAt(x, targets[way + 1], b)
    IN  CASE ~b.reentrancy -> gone
          [] Len(targets) = 1 -> ReenteredAt(gone, targets[1], b)
          [] OTHER -> Forked(gone, Len(targets), pick)

-----------------------------------------------------------------------------
(* Locals.  Effects that only compute bind what is known of their value.   *)
(* A term of more than MAX_TERM characters, which the code gives up        *)
(* (model.rs:4194), is longer than any here.                               *)
StampedTerm(w, e, b) ==
    NormalTerm(StripTerm(InlinePure(FoldFixpoint(Substitute(e, Top(w).terms)), b.pure, 0)),
               Names(w, b))

Forget(fr, xs) == [fr EXCEPT !.env = Without(@, xs), !.terms = Without(@, xs)]

Defined(w, ins, values, b) ==
    LET fr == Top(w)
        x == ins.targets[1]
    IN  IF Len(ins.targets) # 1 THEN WithTop(w, Forget(fr, Range(ins.targets)))
        ELSE WithTop(w, [fr EXCEPT !.env = SetOrDrop(@, x, values),
                                   !.terms = With(@, x, StampedTerm(w, ins.value, b))])

Zeroed(w, ins) ==
    LET zero(fr, x) == [fr EXCEPT !.env = With(@, x, {0}), !.terms = With(@, x, Lit(0))]
    IN  WithTop(w, FoldLeft(zero, Top(w), ins.targets))

MemoryStored(w, at, e, b) ==
    LET a == FoldFixpoint(at)
    IN  IF IsLit(a) THEN [w EXCEPT !.memory = SetOrDrop(@, a[2], Eval(e, Context(w, b)))]
        ELSE [w EXCEPT !.memory = <<>>]

(* Whether every check inside an expression passes on what is known here.  *)
InnerCheckPasses(call, w, b) ==
    LET g == b.functions[call[2]]
        n == Min({Len(call[3]), Len(g.params)})
        known == [i \in 1 .. n |-> Eval(call[3][i], Context(w, b))]
        inner == [x \in {g.params[i] : i \in 1 .. n} |->
                     Get(known[CHOOSE i \in 1 .. n : g.params[i] = x])]
    IN  CASE call[2] \notin DOMAIN b.functions -> call[2] \notin {"revert", "invalid"}
          [] "can_revert" \notin g.eff -> TRUE
          [] ChecksOf(call[2], b) = {} \/ Nothing \in Range(known) -> FALSE
          [] OTHER -> \A c \in ChecksOf(call[2], b) :
                         DecideCond(c.cond, [Context(w, b) EXCEPT !.env = inner]) = Some(TRUE)

EveryInnerCheckPasses(e, w, b) == \A c \in CollectCalls(e) : InnerCheckPasses(c, w, b)

(* A call is walked when its callee writes storage, reverts or checks.     *)
Matters(f, b) ==
    /\ f \in DOMAIN b.functions
    /\ \/ b.functions[f].eff \cap {"writes_storage", "can_revert"} # {}
       \/ ChecksOf(f, b) # {}

Entered(w, call, targets, b) ==
    LET g == b.functions[call[2]]
        fr == Top(w)
        n == Min({Len(call[3]), Len(g.params)})
        at(x) == call[3][CHOOSE i \in 1 .. n : g.params[i] = x]
        bound == {g.params[i] : i \in 1 .. n}
        known == {x \in bound : Eval(at(x), Context(w, b)) # Nothing}
    IN  IF Len(w.frames) >= MaxFrames THEN Stops(w, <<"refused", "call depth">>)
        ELSE [w EXCEPT !.frames = Append(@,
                 [func |-> call[2], block |-> 1, index |-> 1,
                  env |-> [x \in known |-> Get(Eval(at(x), Context(w, b)))],
                  terms |-> [x \in bound |-> FoldFixpoint(Substitute(at(x), fr.terms))],
                  returnsTo |-> targets, visited |-> {}])]

(* A question of which TRUE ends the walk in a revert.                     *)
RevertsOr(w, Then(_)) ==
    CASE ~Running(w) -> w
      [] w.answer -> Stops([w EXCEPT !.revertedAt = IF @ = Nothing THEN Some(w.facts) ELSE @],
                           <<"revert">>)
      [] OTHER -> Then(w)

Walked(w, ins, b) ==
    LET targets == IF ins.op = "effect" THEN <<>> ELSE ins.targets
        enter(x) == Entered(x, ins.value, targets, b)
    IN  IF \A a \in Range(ins.value[3]) : EveryInnerCheckPasses(a, w, b) THEN enter(w)
        ELSE RevertsOr(AskedNet(w, "panic-in-args", w.at, b), enter)

(* What can revert inside an instruction that is not walked.               *)
Netted(w, ins, b) ==
    LET define(x) == IF ins.op = "effect" THEN x ELSE Defined(x, ins, Nothing, b)
    IN  IF ins.value # NoValue /\ EveryInnerCheckPasses(ins.value, w, b) THEN define(w)
        ELSE RevertsOr(AskedNet(w, "panic-in", w.at, b), define)

-----------------------------------------------------------------------------
(* One instruction.                                                        *)
Computed(w, ins, b) ==
    LET computes == ins.eff \cap {"writes_storage", "can_revert"} = {}
        call == IsCall(ins.value)
    IN  CASE ins.op = "effect" /\ IsCallOf(ins.value, "mstore", 2)
               -> MemoryStored(w, ins.value[3][1], ins.value[3][2], b)
          [] ins.op # "effect" /\ computes /\ ins.value = NoValue -> Zeroed(w, ins)
          [] ins.op # "effect" /\ computes
               -> Defined(w, ins, Eval(ins.value, Context(w, b)), b)
          [] call /\ Matters(ins.value[2], b) -> Walked(w, ins, b)
          [] "can_revert" \in ins.eff /\ "writes_storage" \notin ins.eff -> Netted(w, ins, b)
          [] ~computes -> Stops(w, <<"refused", "effects">>)
          [] OTHER -> w

Instructed(w, ins, b) ==
    LET c == Get(CheckAt(w.at, b))
        check == AskedCheck(w, c, b)
        on(x) == IF Running(x) THEN Computed(x, ins, b) ELSE x
        cleared == IF "external_call" \in ins.eff THEN [w EXCEPT !.memory = <<>>] ELSE w
    IN  CASE CheckAt(w.at, b) # {} /\ ins.write = {}
               -> IF Running(check) THEN Checked(check, c) ELSE check
          [] ins.write # {} -> Store(w, Get(ins.write), b)
          [] CallsOut(ins.value) -> on(CalledOut(cleared, b))
          [] OTHER -> on(cleared)

-----------------------------------------------------------------------------
(* Going to a block; one visited already is a loop.                        *)
Went(w, block) ==
    LET fr == Top(w)
    IN  WithTop(w, [fr EXCEPT !.block = block, !.index = 1, !.visited = @ \cup {block}])

Visits(w, block) ==
    IF block \in Top(w).visited THEN Stops(w, <<"refused", "revisits">>) ELSE Went(w, block)

(* The blocks on a cycle through the head.                                 *)
LoopBody(f, head) ==
    LET next(n) == Successors(f.blocks[n].term)
    IN  {n \in Closure({head}, next) : n = head \/ head \in Closure(next(n), next)}

(* A loop is not unrolled: everything its body writes is then unknown.     *)
LoopWrites(f, body, b) ==
    LET ins == UNION {Range(f.blocks[n].ins) : n \in body}
        writing == {i \in ins : "writes_storage" \in i.eff}
        labelled(i) == UNION {LabelAt(x.slot[2], b) : x \in {y \in i.write : IsLit(y.slot)}}
        labels == UNION {labelled(i) : i \in writing}
    IN  IF \E i \in writing : i.write = {} THEN 1 .. Len(b.storage)
        ELSE {j \in 1 .. Len(b.storage) : b.storage[j].label \in labels}

RECURSIVE LoopStores(_, _, _)
LoopStores(w, slots, b) ==
    LET i == Min(slots)
        store(x, to) == [x EXCEPT !.storage[i] = to, !.versions = Bump(@, b.storage[i].label),
                                  !.steps = Append(@, <<"store", i, to>>)]
        onward(x, way) == LoopStores(store(x, way + 1), slots \ {i}, b)
    IN  CASE slots = {} -> w
          [] Len(b.slotRegions[i]) = 1 -> onward(w, 0)
          [] OTHER -> Forked(w, Len(b.slotRegions[i]), onward)

LoopDefines(f, body) == UNION {UNION {Range(i.targets) : i \in Range(f.blocks[n].ins)} : n \in body}

LoopReverts(f, body) ==
    \E n \in body : \/ f.blocks[n].term = <<"revert">>
                    \/ \E i \in Range(f.blocks[n].ins) : "can_revert" \in i.eff

Looped(w, head, b) ==
    LET f == b.functions[Top(w).func]
        body == LoopBody(f, head)
        term == f.blocks[head].term
        exit == IF term[3] \in body THEN term[4] ELSE term[3]
        forgotten(x) == WithTop(x, Forget(Top(x), LoopDefines(f, body)))
        leave(x) == Went(x, exit)
        stored == LoopStores(w, LoopWrites(f, body, b), b)
    IN  CASE term[1] # "branch" \/ exit \in body -> Stops(w, <<"refused", "loop">>)
          [] ~Running(stored) -> stored
          [] LoopReverts(f, body)
               -> RevertsOr(AskedNet(forgotten(stored), "loop-reverts", <<Top(w).func, head, 0>>, b), leave)
          [] OTHER -> leave(forgotten(stored))

(* A check that fails is passed all the same; any other branch is taken.   *)
Branched(w, term, b) ==
    LET check == CheckAt(w.at, b)
        c == Get(check)
        asked == IF check # {} THEN AskedCheck(w, c, b)
                 ELSE Asked(w, term[2], Translate(term[2], w.widest), term[2], b)
    IN  CASE ~Running(asked) -> asked
          [] check # {} -> Visits(Checked(asked, c), c.passTo)
          [] OTHER -> Visits(asked, IF asked.answer THEN term[3] ELSE term[4])

(* What is known of the results goes to the variables the call defined.    *)
Returned(w, b) ==
    LET done == Top(w)
        rets == b.functions[done.func].returns
        give(fr, i) ==
            LET x == done.returnsTo[i]
            IN  IF i > Len(rets) THEN Forget(fr, {x})
                ELSE [fr EXCEPT !.env = SetOrDrop(@, x, Found(done.env, rets[i])),
                                !.terms = SetOrDrop(@, x, Found(done.terms, rets[i]))]
        rest == [w EXCEPT !.frames = Front(@)]
    IN  IF Len(w.frames) = 1 THEN Stops(w, <<"return">>)
        ELSE WithTop(rest, FoldLeft(give, Top(rest), [i \in 1 .. Len(done.returnsTo) |-> i]))

(* Past a switch with no arm for the value the frame is left.              *)
Popped(w) ==
    IF Len(w.frames) = 1 THEN Stops(w, <<"return">>) ELSE [w EXCEPT !.frames = Front(@)]

Armed(w, arm) == IF arm = Nothing THEN Popped(w) ELSE Visits(w, Get(arm))

(* The arms the value may take: the one it must, or each it can and the    *)
(* default where it may be none of them.                                   *)
PossibleArms(set, term) ==
    LET literal(c) == c[1][2]
        must == {c \in term[3] : set = {literal(c)}}
        may == {Some(c[2]) : c \in {d \in term[3] : literal(d) \in set}}
        other == IF set \subseteq {literal(c) : c \in term[3]} THEN {} ELSE {term[4]}
    IN  IF must # {} THEN {Some(c[2]) : c \in must} ELSE may \cup other

Switched(w, term, b) ==
    LET arms == Enumerated(term[3])
        boolean == Len(arms) = 1 /\ arms[1][1] = Lit(0) /\ term[4] # {}
        asked == Asked(w, term[2], Nothing, InlinePure(term[2], b.pure, 0), b)
        set == Eval(term[2], Context(w, b))
        possible == Enumerated(PossibleArms(Get(set), term))
        key(i) == EqKey(TermIn(w, term[2], b), arms[i][1])
        unknown(x, way) ==
            LET note(facts, i) == With(facts, key(i), i = way + 1)
                noted == [x EXCEPT !.facts = FoldLeft(note, @, [i \in 1 .. Len(arms) |-> i])]
            IN  Armed(noted, IF way < Len(arms) THEN Some(arms[way + 1][2]) ELSE term[4])
        pick(x, way) == Armed(x, possible[way + 1])
    IN  CASE boolean -> IF ~Running(asked) THEN asked
                        ELSE Visits(asked, IF asked.answer THEN Get(term[4]) ELSE arms[1][2])
          [] set = Nothing -> Forked(w, Len(arms) + 1, unknown)
          [] Len(possible) > 1 -> Forked(w, Len(possible), pick)
          [] OTHER -> Armed(w, possible[1])

Terminated(w, term, b) ==
    CASE term[1] = "jump" -> IF term[2] \in Top(w).visited THEN Looped(w, term[2], b)
                             ELSE Went(w, term[2])
      [] term[1] = "branch" -> Branched(w, term, b)
      [] term[1] = "switch" -> Switched(w, term, b)
      [] term[1] = "revert" -> Stops(w, <<"revert">>)
      [] term[1] \in {"return", "stop"} -> Stops(w, <<"return">>)
      [] term[1] = "leave" -> Returned(w, b)
      [] OTHER -> Stops(w, <<"refused", "unsupported">>)

-----------------------------------------------------------------------------
Step(w, b) ==
    LET fr == Top(w)
        blk == b.functions[fr.func].blocks[fr.block]
        counted == [w EXCEPT !.n = @ + 1]
        inside == [WithTop(counted, [fr EXCEPT !.index = @ + 1]) EXCEPT
                      !.at = <<fr.func, fr.block, fr.index>>]
        atEnd == [counted EXCEPT !.at = <<fr.func, fr.block, 0>>]
    IN  CASE counted.n > b.limits.steps -> Stops(counted, <<"refused", "steps">>)
          [] fr.index <= Len(blk.ins) -> Instructed(inside, blk.ins[fr.index], b)
          [] OTHER -> Terminated(atEnd, blk.term, b)

RECURSIVE Trace(_, _)
Trace(w, b) == IF Running(w) THEN Trace(Step(w, b), b) ELSE w
=============================================================================
