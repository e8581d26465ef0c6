--------------------------- MODULE MCModelBuilder ---------------------------
(***************************************************************************)
(* Small contracts as solc emits them, on words of three bits: memory      *)
(* words 0 and 1 are scratch, the free memory pointer is at 2 and starts   *)
(* at 4.                                                                   *)
(***************************************************************************)
EXTENDS ContractModel

Let(x, e) == <<"let", <<x>>, e>>
Set(x, e) == <<"assign", <<x>>, e>>
Do(f, args) == <<"expr", Call(f, args)>>
If(c, body) == <<"if", c, body>>
IsZero(e) == Call1("iszero", e)
Def(kind, params, returns, body) ==
    [kind |-> kind, params |-> params, returns |-> returns, body |-> body]
Helper(params, returns, body) == Def("helper", params, returns, body)

x == Id("x")
y == Id("y")
v == Id("v")

(* The helpers solc puts into every contract.                              *)
Runtime ==
    [cleanup_t |-> Helper(<<"value">>, <<"cleaned">>, <<Set("cleaned", Id("value"))>>),
     convert_t |-> Helper(<<"value">>, <<"converted">>,
                          <<Set("converted", Call1("cleanup_t", Id("value")))>>),
     prepare_store_t |-> Helper(<<"value">>, <<"ret">>, <<Set("ret", Id("value"))>>),
     update_byte_slice |-> Helper(<<"value", "toInsert">>, <<"result">>,
         <<Let("mask", Lit(7)),
           Set("toInsert", Call2("and", Id("toInsert"), Id("mask"))),
           Set("value", Call2("and", Id("value"), Call1("not", Id("mask")))),
           Set("result", Call2("or", Id("value"), Call2("and", Id("toInsert"), Id("mask"))))>>),
     read_from_storage |-> Helper(<<"slot">>, <<"value">>, <<Set("value", Call1("sload", Id("slot")))>>),
     update_storage |-> Helper(<<"slot", "value">>, <<>>,
         <<Let("convertedValue", Call1("convert_t", Id("value"))),
           Do("sstore", <<Id("slot"),
                          Call2("update_byte_slice", Call1("sload", Id("slot")),
                                Call1("prepare_store_t", Id("convertedValue")))>>)>>),
     require_helper |-> Helper(<<"condition">>, <<>>,
         <<If(IsZero(Id("condition")), <<Do("revert", <<Lit(0), Lit(0)>>)>>)>>),
     panic_error |-> Helper(<<>>, <<>>, <<Do("revert", <<Lit(0), Lit(1)>>)>>),
     checked_add |-> Helper(<<"x", "y">>, <<"sum">>,
         <<Set("x", Call1("cleanup_t", x)), Set("y", Call1("cleanup_t", y)),
           Set("sum", Call2("add", x, y)),
           If(Call2("gt", x, Id("sum")), <<Do("panic_error", <<>>)>>)>>),
     checked_sub |-> Helper(<<"x", "y">>, <<"diff">>,
         <<Set("x", Call1("cleanup_t", x)), Set("y", Call1("cleanup_t", y)),
           Set("diff", Call2("sub", x, y)),
           If(Call2("gt", Id("diff"), x), <<Do("panic_error", <<>>)>>)>>),
     mapping_index_access |-> Helper(<<"slot", "key">>, <<"dataSlot">>,
         <<Do("mstore", <<Lit(0), Call1("convert_t", Id("key"))>>),
           Do("mstore", <<Lit(1), Id("slot")>>),
           Set("dataSlot", Call2("keccak256", Lit(0), Lit(2)))>>),
     allocate_memory |-> Helper(<<"size">>, <<"memPtr">>,
         <<Set("memPtr", Call1("mload", Lit(2))),
           Let("newFreePtr", Call2("add", Id("memPtr"), Id("size"))),
           If(Call2("or", Call2("gt", Id("newFreePtr"), Lit(6)),
                    Call2("lt", Id("newFreePtr"), Id("memPtr"))),
              <<Do("panic_error", <<>>)>>),
           Do("mstore", <<Lit(2), Id("newFreePtr")>>)>>)]

-----------------------------------------------------------------------------
Limits == [steps |-> 10000, splits |-> 24, forks |-> 4096, walks |-> 4096,
           boundaries |-> 12, rounds |-> 8, clock |-> 256, budget |-> 20000000, slow |-> FALSE]

Var(label, slot, type) == [label |-> label, slot |-> slot, type |-> type, whole |-> TRUE]
Word8 == <<"uint", 3>>
Flag == <<"bool", 1>>
Ule(label, n) == <<"ule", <<"storage", label>>, <<"uint", n>>>>
Prop(id, a) == [id |-> id, assertion |-> a]

Entry(sig, types) == [sig |-> sig, external |-> "external_" \o sig, types |-> types, body |-> "fun_" \o sig]

(* The external function only decodes and calls the body.                  *)
External(sig, params) ==
    Def("external", <<>>, <<>>,
        [i \in 1 .. Len(params) |-> Let(params[i], Call1("calldataload", Lit(i)))]
        \o <<Do("fun_" \o sig, [i \in 1 .. Len(params) |-> Id(params[i])])>>)

Body(params, body) == Def("body", params, <<>>, body)

Owner0 == [caller |-> 0, gas |-> 0]
Owner1 == [caller |-> 1, gas |-> 0]
Caller == Call("caller", <<>>)

(* A question is of one rule or of several, alone or under the invariants  *)
(* its author claims.                                                      *)
Rule(sig, given, reverts) == [entrypoint |-> sig, given |-> given, reverts |-> reverts]
AskAll(rules) == [rules |-> rules, invariants |-> {}]
Ask(sig, given, reverts) == AskAll({Rule(sig, given, reverts)})
Under(invariants, question) == [question EXCEPT !.invariants = invariants]
Arg(i) == <<"argument", i>>
Stored(label) == <<"storage", label>>
Always == <<"all", <<>>>>
N(n) == <<"lit", n>>

Program(defs, entries, storage, spec) ==
    [contract |-> [defs |-> Runtime @@ defs, entries |-> entries, storage |-> storage,
                   spec |-> spec, immutables |-> <<>>, reentrancy |-> FALSE, limits |-> Limits],
     envs |-> {Owner0}, cells |-> <<>>, questions |-> {}, constructor |-> "", depth |-> 0]

(* A bounded setter, and one nobody guarded.                               *)
Limit ==
    [Program(
        [external_set |-> External("set", <<"p">>),
         fun_set |-> Body(<<"v">>,
            <<Let("expr", Call2("gt", v, Lit(4))),
              Do("require_helper", <<IsZero(Id("expr"))>>),
              Let("_1", v), Do("update_storage", <<Lit(0), Id("_1")>>)>>),
         external_force |-> External("force", <<"p">>),
         fun_force |-> Body(<<"v">>, <<Do("update_storage", <<Lit(0), v>>)>>),
         ctor |-> Def("constructor", <<>>, <<>>, <<Do("update_storage", <<Lit(0), Lit(3)>>)>>)],
        <<Entry("set", <<Word8>>), Entry("force", <<Word8>>)>>,
        <<Var("limit", 0, Word8)>>, <<Prop("bounded", Ule("limit", 5))>>)
     EXCEPT !.constructor = "ctor",
            !.questions = {Ask("set", <<"ugt", Arg(0), N(4)>>, TRUE),
                           Ask("set", <<"ult", Arg(0), N(5)>>, FALSE),
                           Ask("force", Always, FALSE), Ask("set", Always, FALSE),
                           AskAll({Rule("set", <<"ugt", Arg(0), N(4)>>, TRUE),
                                   Rule("set", <<"ult", Arg(0), N(5)>>, FALSE),
                                   Rule("force", Always, FALSE)}),
                           AskAll({Rule("force", Always, FALSE), Rule("set", Always, FALSE)})}]

(* A total under a cap, added to with checked arithmetic; taking from it   *)
(* nests one checked call in another's arguments.                          *)
Counter ==
    [Program(
        [external_add |-> External("add", <<"p">>),
         fun_add |-> Body(<<"v">>,
            <<Let("_1", v),
              Let("_2", Call1("read_from_storage", Lit(0))),
              Let("expr_1", Call2("checked_add", Id("_2"), Id("_1"))),
              Let("expr_2", IsZero(Call2("gt", Id("expr_1"), Lit(5)))),
              Do("require_helper", <<Id("expr_2")>>),
              Let("_3", Call1("read_from_storage", Lit(0))),
              Let("_4", Call2("checked_add", Id("_3"), Id("_1"))),
              Do("update_storage", <<Lit(0), Id("_4")>>)>>),
         external_take |-> External("take", <<"p", "q">>),
         fun_take |-> Body(<<"v", "u">>,
            <<Let("_5", Call1("read_from_storage", Lit(0))),
              Let("_6", Call2("checked_sub", Id("_5"),
                              Call2("checked_add", v, Id("u")))),
              Do("update_storage", <<Lit(0), Id("_6")>>)>>)],
        <<Entry("add", <<Word8>>), Entry("take", <<<<"uint", 1>>, <<"uint", 2>>>>)>>,
        <<Var("total", 0, Word8)>>, <<Prop("capped", Ule("total", 5))>>)
     EXCEPT !.questions =
        {Ask("add", <<"ugt", <<"add", Stored("total"), Arg(0)>>, N(5)>>, TRUE),
         Ask("add", <<"ugt", Arg(0), N(5)>>, TRUE),
         Ask("add", <<"all", <<<<"ule", Stored("total"), N(5)>>, <<"eq", Arg(0), N(0)>>>>>>, FALSE),
         Ask("take", <<"ugt", Arg(0), Stored("total")>>, TRUE),
         Ask("take", <<"eq", Arg(0), N(0)>>, FALSE)}]

(* Balances in a mapping, moved from the caller to another.                *)
Balance(k) == S!Hash(<<k, 0>>)
BalanceOf(t) == <<"cell", "balances", <<t>>>>

Token ==
    [Program(
        [external_transfer |-> External("transfer", <<"p", "q">>),
         fun_transfer |-> Body(<<"to", "amount">>,
            <<Let("expr_a", Caller),
              Let("_1", Call2("mapping_index_access", Lit(0), Id("expr_a"))),
              Let("_2", Call1("read_from_storage", Id("_1"))),
              Let("expr_b", IsZero(Call2("gt", Id("amount"), Id("_2")))),
              Do("require_helper", <<Id("expr_b")>>),
              Let("_3", Call2("mapping_index_access", Lit(0), Id("expr_a"))),
              Let("_4", Call1("read_from_storage", Id("_3"))),
              Let("_5", Call2("checked_sub", Id("_4"), Id("amount"))),
              Do("update_storage", <<Id("_3"), Id("_5")>>),
              Let("_6", Call2("mapping_index_access", Lit(0), Id("to"))),
              Let("_7", Call1("read_from_storage", Id("_6"))),
              Let("_8", Call2("checked_add", Id("_7"), Id("amount"))),
              Do("update_storage", <<Id("_6"), Id("_8")>>)>>)],
        <<Entry("transfer", <<<<"address", 1>>, <<"uint", 2>>>>)>>,
        <<Var("balances", 0, <<"mapping", 0>>), Var("owner", 1, <<"address", 1>>)>>,
        <<Prop("owned", <<"ule", <<"storage", "owner">>, <<"uint", 0>>>>)>>)
     EXCEPT !.envs = {Owner0, Owner1},
            !.cells = Balance(0) :> 0 .. 4 @@ Balance(1) :> {0, 3, 6},
            !.questions =
        {Ask("transfer", <<"not", <<"ult", Arg(1), BalanceOf(<<"env", "caller">>)>>>>, TRUE),
         Ask("transfer", <<"ugt", Arg(1), BalanceOf(<<"env", "caller">>)>>, TRUE),
         Ask("transfer", <<"ule", Arg(1), BalanceOf(<<"env", "caller">>)>>, FALSE),
         Under({<<"ult", BalanceOf(<<"env", "caller">>), BalanceOf(Arg(0))>>,
                <<"ule", BalanceOf(Arg(0)), Arg(1)>>}, Ask("transfer", Always, TRUE)),
         Under({<<"ule", BalanceOf(<<"env", "caller">>), BalanceOf(Arg(0))>>,
                <<"ule", BalanceOf(Arg(0)), Arg(1)>>}, Ask("transfer", Always, TRUE)),
         Under({<<"ult", BalanceOf(Arg(0)), BalanceOf(<<"env", "caller">>)>>,
                <<"ule", Arg(1), BalanceOf(Arg(0))>>}, Ask("transfer", Always, TRUE)),
         Ask("transfer", <<"all", <<<<"ule", Arg(1), BalanceOf(<<"env", "caller">>)>>,
                                    <<"ult", BalanceOf(Arg(0)), N(3)>>,
                                    <<"ult", Arg(1), N(4)>>>>>>, FALSE)}]

-----------------------------------------------------------------------------
(* What a callee may do meanwhile: a claim paid before it is booked, and a *)
(* loan that must be settled before it ends.                               *)
CallOut == Call("call", <<Call("gas", <<>>), Caller, Lit(0), Lit(0), Lit(0), Lit(0), Lit(0)>>)
Reading(n) == Call1("read_from_storage", Lit(n))
Writing(n, e) == Do("update_storage", <<Lit(n), e>>)
Require(e) == Do("require_helper", <<e>>)

Reentrant(P) == [P EXCEPT !.contract.reentrancy = TRUE, !.depth = 1]

Vault ==
    [Reentrant(Program(
        [external_claim |-> External("claim", <<>>),
         fun_claim |-> Body(<<>>,
            <<Let("paid", Reading(0)), Require(Call2("lt", Id("paid"), Lit(1))),
              Let("sent", CallOut), Require(Id("sent")),
              Let("_1", Reading(0)), Let("_2", Call2("checked_add", Id("_1"), Lit(1))),
              Writing(0, Id("_2"))>>)],
        <<Entry("claim", <<>>)>>,
        <<Var("paid", 0, <<"uint", 2>>)>>, <<Prop("once", Ule("paid", 1))>>))
     EXCEPT !.questions =
        {Under({<<"ugt", Stored("paid"), N(1)>>}, Ask("claim", Always, TRUE)),
         Under({<<"ne", Stored("paid"), N(1)>>}, Ask("claim", Always, TRUE))}]

Loan ==
    Reentrant(Program(
        [external_borrow |-> External("borrow", <<>>),
         fun_borrow |-> Body(<<>>,
            <<Writing(0, Lit(1)), Let("sent", CallOut),
              Let("_1", Reading(0)), Require(IsZero(Id("_1")))>>),
         external_settle |-> External("settle", <<"p">>),
         fun_settle |-> Body(<<"v">>,
            <<Require(Call2("eq", v, Lit(1))), Writing(0, Lit(0)), Writing(1, v)>>)],
        <<Entry("borrow", <<>>), Entry("settle", <<Flag>>)>>,
        <<Var("owed", 0, Flag), Var("fee", 1, Flag)>>, <<Prop("settled", Ule("owed", 0))>>))

(* A callback only a borrower's callee can make: the loan is broken before *)
(* and after it, and the owner is not.                                     *)
Callback ==
    Reentrant(Program(
        [external_borrow |-> External("borrow", <<>>),
         fun_borrow |-> Body(<<>>,
            <<Writing(0, Lit(1)), Let("sent", CallOut), Writing(0, Lit(0))>>),
         external_settle |-> External("settle", <<"p">>),
         fun_settle |-> Body(<<"v">>, <<Let("_1", Reading(0)), Require(Call2("eq", Id("_1"), Lit(1))), Writing(1, v)>>)],
        <<Entry("borrow", <<>>), Entry("settle", <<Flag>>)>>,
        <<Var("owed", 0, Flag), Var("owner", 1, Flag)>>,
        <<Prop("settled", Ule("owed", 0)), Prop("owned", Ule("owner", 0))>>))

-----------------------------------------------------------------------------
(* Loops: one that can leave early and stores in its body, one whose body  *)
(* can revert and stores through a helper nobody recognises.               *)
For(i, below, body) ==
    <<"for", <<Let(i, Lit(0))>>, Call2("lt", Id(i), below),
      <<Set(i, Call2("add", Id(i), Lit(1)))>>, body>>

Filler ==
    Program(
        [store_both |-> Helper(<<"w">>, <<>>,
            <<Do("sstore", <<Lit(0), Id("w")>>), Do("sstore", <<Lit(1), Id("w")>>)>>),
         external_fill |-> External("fill", <<"p">>),
         fun_fill |-> Body(<<"v">>,
            <<For("i", v, <<If(Call2("eq", Id("i"), Lit(2)), <<<<"break">>>>),
                            If(Call2("eq", Id("i"), Lit(0)), <<<<"continue">>>>),
                            Writing(0, Id("i"))>>)>>),
         external_drain |-> External("drain", <<"p">>),
         fun_drain |-> Body(<<"v">>,
            <<Let("left", Lit(2)),
              For("i", v, <<Let("next", Call2("checked_sub", Id("left"), Lit(1))),
                            Set("left", Id("next")), Do("store_both", <<Id("left")>>)>>),
              Let("expr", Call2("gt", Id("left"), Lit(0))), Require(Id("expr"))>>)],
        <<Entry("fill", <<<<"uint", 2>>>>), Entry("drain", <<<<"uint", 2>>>>)>>,
        <<Var("mode", 0, <<"uint", 2>>), Var("last", 1, <<"uint", 1>>)>>,
        <<Prop("filled", <<"or", <<Ule("mode", 0), <<"eq", <<"storage", "mode">>, <<"uint", 1>>>>>>>>),
          Prop("last", <<"not", <<"ugt", <<"storage", "last">>, <<"uint", 0>>>>>>)>>)

(* Switches over an argument, a variable, a truth value and an unknown.    *)
Chooser ==
    [Program(
        [pick |-> Helper(<<"who">>, <<>>,
            <<<<"switch", Id("who"), <<<<Lit(1), <<Writing(0, Lit(1))>>>>,
                                       <<Lit(2), <<Writing(0, Lit(3))>>>>>>>>>>),
         external_mode |-> External("mode", <<"p">>),
         fun_mode |-> Body(<<"v">>,
            <<If(IsZero(v), <<<<"leave">>>>),
              <<"switch", v, <<<<Lit(1), <<Writing(0, Lit(0))>>>>,
                               <<Lit(2), <<Writing(0, Lit(2))>>>>,
                               <<NoValue, <<Do("revert", <<Lit(0), Lit(0)>>)>>>>>>>>>>),
         external_next |-> External("next", <<>>),
         fun_next |-> Body(<<>>,
            <<Let("at", Reading(0)),
              <<"switch", Id("at"), <<<<Lit(3), <<<<"block", <<Do("stop", <<>>)>>>>>>>>,
                                      <<NoValue, <<Do("pick", <<Caller>>)>>>>>>>>>>),
         external_only |-> External("only", <<>>),
         fun_only |-> Body(<<>>,
            <<<<"switch", Call2("eq", Caller, Lit(2)),
                <<<<Lit(0), <<Do("revert", <<Lit(0), Lit(0)>>)>>>>,
                  <<NoValue, <<Do("pick", <<Lit(2)>>), Do("return", <<Lit(0), Lit(0)>>)>>>>>>>>>>)],
        <<Entry("mode", <<<<"uint", 2>>>>), Entry("next", <<>>), Entry("only", <<>>)>>,
        <<Var("at", 0, <<"uint", 2>>)>>,
        <<Prop("within", <<"and", <<Ule("at", 2), <<"ult", <<"uint", 0>>, <<"uint", 1>>>>>>>>)>>)
     EXCEPT !.envs = {Owner0, Owner1, [caller |-> 2, gas |-> 0]}]

-----------------------------------------------------------------------------
(* Memory at literal and at computed addresses, allocation, and slots the  *)
(* layout does not name.                                                   *)
Keeper ==
    [Program(
        [external_keep |-> External("keep", <<"p", "q">>),
         fun_keep |-> Body(<<"v", "u">>,
            <<Do("mstore", <<Lit(5), v>>), Let("a", Call1("mload", Lit(5))),
              Let("at", Call1("allocate_memory", Lit(1))),
              If(Call2("lt", Id("a"), Lit(2)),
                 <<Do("mstore", <<Id("at"), Id("u")>>), Do("log1", <<Lit(0), Lit(0), v>>)>>),
              Let("more", Call1("allocate_memory", Lit(1))),
              Writing(0, Id("a"))>>),
         external_note |-> External("note", <<"p">>),
         fun_note |-> Body(<<"v">>,
            <<Do("sstore", <<Lit(7), v>>), Let("now", Call1("sload", Lit(7))),
              Let("expr", Call2("eq", Id("now"), v)), Require(Id("expr")),
              Do("sstore", <<Lit(7), Lit(3)>>), Let("then", Call1("sload", Lit(7))),
              Let("less", Call2("lt", Id("now"), Id("then"))), Require(Id("less")),
              Let("_1", Call2("mapping_index_access", Lit(2), v)),
              Let("field", Call1("sload", Call2("add", Id("_1"), Lit(1)))),
              Let("low", Call2("lt", Id("field"), Lit(4))), Require(Id("low")),
              Do("sstore", <<Call2("add", Id("_1"), Lit(1)), v>>)>>)],
        <<Entry("keep", <<<<"uint", 2>>, Flag>>), Entry("note", <<Flag>>)>>,
        <<Var("kept", 0, <<"uint", 2>>), Var("kind", 1, <<"enum", 2>>), Var("notes", 2, <<"mapping", 0>>)>>,
        <<Prop("kept", <<"ne", <<"storage", "kept">>, <<"uint", 3>>>>)>>)
     EXCEPT !.cells = S!Hash(<<0, 2>>) + 1 :> {0, 5} @@ S!Hash(<<1, 2>>) + 1 :> {3, 4},
            !.questions = {Ask("note", <<"uge", <<"field", "notes", <<Arg(0)>>, 1>>, N(4)>>, TRUE),
                           Ask("note", <<"uge", <<"slot", 7>>, Arg(0)>>, TRUE)}]

(* Checks within expressions, an immutable, signed arguments and a         *)
(* constructor that takes the owner from its caller.                       *)
Mixed ==
    [Program(
        [external_mix |-> External("mix", <<"p", "q">>),
         fun_mix |-> Body(<<"v", "u">>,
            <<Let("twice", Call2("mul", Call2("checked_add", v, Id("u")), Lit(2))),
              Do("log1", <<Lit(0), Lit(0), Call2("checked_sub", v, Id("u"))>>),
              Let("expr", Call2("slt", v, Id("u"))),
              Let("_1", IsZero(Id("expr"))), Require(Id("_1")),
              <<"let", <<"later">>, NoValue>>,
              Set("later", Call2("div", Id("twice"), Lit(2))),
              Writing(0, Id("later"))>>),
         external_own |-> External("own", <<>>),
         fun_own |-> Body(<<>>,
            <<If(Call("callvalue", <<>>), <<Do("revert", <<Lit(0), Lit(0)>>)>>),
              Let("me", Call1("loadimmutable", Lit(0))),
              Let("expr", Call2("eq", Caller, Id("me"))), Require(Id("expr")),
              Let("who", Reading(1)),
              Let("free", Call2("or", IsZero(Id("who")), Call2("eq", Id("who"), Caller))),
              Require(Id("free")), Writing(1, Caller)>>),
         ctor |-> Def("constructor", <<>>, <<>>,
            <<Let("owner", Caller), Writing(1, Id("owner")), Writing(0, Lit(3)),
              Writing(5, Lit(1))>>)],
        <<Entry("mix", <<<<"int", 3>>, <<"uint", 2>>>>), Entry("own", <<>>)>>,
        <<Var("sum", 0, Word8), Var("owner", 1, <<"address", 1>>)>>,
        <<Prop("sum", <<"ult", <<"storage", "sum">>, <<"uint", 4>>>>),
          Prop("owner", <<"ule", <<"storage", "owner">>, <<"uint", 0>>>>)>>)
     EXCEPT !.constructor = "ctor", !.contract.immutables = 0 :> "me",
            !.envs = {[caller |-> c, callvalue |-> n, loadimmutable |-> 1] : c \in 0 .. 1, n \in 0 .. 1},
            !.questions =
        {Ask("own", <<"ne", <<"env", "caller">>, <<"immutable", "me">>>>, TRUE),
         Ask("own", <<"ne", <<"env", "callvalue">>, N(0)>>, TRUE),
         Ask("own", <<"any", <<<<"not", <<"eq", Stored("owner"), N(0)>>>>, Always>>>>, TRUE)}]

(* Entrypoints the builder turns away or gives up on: no body, effects it  *)
(* does not model, and a call that never returns.                          *)
Refusing ==
    [Program(
        [again |-> Helper(<<>>, <<>>,
            <<If(IsZero(Call("callvalue", <<>>)), <<Do("again", <<>>)>>), Writing(0, Lit(1))>>),
         scatter |-> Helper(<<"w">>, <<>>, <<Do("sstore", <<Call2("keccak256", Lit(0), Lit(1)), Id("w")>>)>>),
         external_ghost |-> Def("external", <<>>, <<>>, <<Do("stop", <<>>)>>),
         external_proxy |-> External("proxy", <<>>),
         fun_proxy |-> Body(<<>>, <<Do("delegatecall", <<Caller>>)>>),
         external_dive |-> External("dive", <<>>),
         fun_dive |-> Body(<<>>, <<Do("again", <<>>)>>),
         external_set |-> External("set", <<"p">>),
         fun_set |-> Body(<<"v">>, <<Writing(0, v)>>),
         ctor |-> Def("constructor", <<>>, <<>>,
            <<Do("mstore", <<Lit(0), Lit(0)>>), Do("sstore", <<Call2("keccak256", Lit(0), Lit(1)), Lit(1)>>)>>)],
        <<Entry("ghost", <<>>), [Entry("proxy", <<>>) EXCEPT !.body = ""],
          Entry("dive", <<>>), Entry("set", <<Flag>>)>>,
        <<Var("flag", 0, Flag)>>, <<Prop("flag", Ule("flag", 0))>>)
     EXCEPT !.envs = {[caller |-> 0, callvalue |-> 1]}, !.constructor = "ctor"]

-----------------------------------------------------------------------------
(* The same contracts under limits that bite.                              *)
Cramped(P, limit, n) == [P EXCEPT !.contract.limits = [Limits EXCEPT ![limit] = n]]

Slow(P) == [P EXCEPT !.contract.limits = [Limits EXCEPT !.slow = TRUE, !.clock = 8]]

MCPrograms ==
    LET programs ==
            [limit |-> Limit, counter |-> Counter, token |-> Token, vault |-> Vault,
             loan |-> Loan, filler |-> Filler, chooser |-> Chooser, keeper |-> Keeper,
             mixed |-> Mixed, refusing |-> Refusing,
             fewSplits |-> Cramped(Counter, "splits", 2), fewForks |-> Cramped(Counter, "forks", 2),
             fewSteps |-> Cramped(Vault, "steps", 8), smallBudget |-> Cramped(Limit, "budget", 40),
             fewWalks |-> Cramped(Limit, "walks", 8),
             fewBoundaries |-> Cramped(Limit, "boundaries", 1),
             oneRound |-> Cramped(Loan, "rounds", 1), slowly |-> Slow(Loan)]
    IN  programs
MCCallback == [callback |-> Callback]

(* TLC's coverage unfolds every definition it can see, and these are too   *)
(* much of it.                                                             *)
MCRead(P) == LET read == Ready(P) IN read
MCWalk(e, s, a, splits, b) ==
    LET end == Trace(StartOfWalk(e, a, s, splits, b), b) IN end
MCIdle(transitions, b) == LET reached == IdleReachability(transitions, b) IN reached
=============================================================================
