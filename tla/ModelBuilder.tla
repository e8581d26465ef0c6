---------------------------- MODULE ModelBuilder ----------------------------
(***************************************************************************)
(* Building the finite model of a contract (Builder::build and Walk::run): *)
(* for every entrypoint, region of its arguments and region of storage,    *)
(* every path is walked, depth first over the forks, and written into the  *)
(* implementation, the reference plant and the list of paths.  What a      *)
(* callee that calls back can do is found in rounds.  What a contract is   *)
(* read as, and what a walk finds, come from ContractModel; nothing here   *)
(* depends on how.                                                         *)
(*                                                                         *)
(* States and events are tuples where the program has names: <<"idle", s>> *)
(* between transactions; <<sig, "#", i, at>> after i steps of a call, with *)
(* at the regions it was entered in and the storage's now if it has moved; *)
(* <<sig, "#ret", s>> and <<sig, "#rev", s>>; <<"bad">>.  The plant's have *)
(* "@" for "#", and <<sig, "@e", at>> where entering was allowed.          *)
(***************************************************************************)
EXTENDS ValueSets, SequencesExt

CONSTANTS
    Programs,                   \* by name: what there is to build
    ReadProgram(_),             \* a program with its contract read and divided
    WalkToEnd(_, _, _, _, _),   \* a walk of an entrypoint, from a storage and
                                \* arguments, down some splits
    IdleReach(_, _)             \* which storages transactions lead each to

(* What each program is read as, once.                                     *)
Read == [p \in DOMAIN Programs |-> ReadProgram(Programs[p])]

(* A contract's jobs are <<entry, storage, arguments>>, a storage being a  *)
(* region for each variable; no signature is the name of another state.    *)
IsJob(job, b) ==
    /\ job[1].sig \notin {"idle", "bad"}
    /\ job[2] \in [1 .. Len(b.storage) -> Nat]

ASSUME ReadAssumption ==
    \A p \in DOMAIN Programs :
        LET b == Read[p].contract
        IN  /\ b.jobs \in Seq(Range(b.jobs))
            /\ \A job \in Range(b.jobs) : IsJob(job, b)
            /\ \A n \in {"rounds", "splits", "forks", "steps", "budget"} : b.limits[n] \in Nat
            /\ b.limits.clock \in Nat \ {0}

VARIABLES
    program,      \* the contract being built, by name
    phase,        \* "round", "walk" or "done"
    round,        \* rounds of the reentrancy fixpoint begun
    reach,        \* where a callee calling back can leave each storage
    todo,         \* <<entry, storage, arguments>> still to walk
    stack,        \* splits still to try for the first of them
    forks,        \* splits met on it so far
    budget,       \* steps left for all walks of the round
    late,         \* the contract's minute is over
    refused,      \* what was cut, and for which entrypoint
    impl,         \* transitions of the implementation
    plant,        \* transitions of the reference plant
    sites,        \* <<check, plant state, implementation state>>
    paths         \* the paths taken

built == <<impl, plant, sites, paths>>
vars == <<program, phase, round, reach, todo, stack, forks, budget, late, refused, built>>

-----------------------------------------------------------------------------
(* Writing one path into the models.                                       *)
Idle(s) == <<"idle", s>>
Bad == <<"bad">>

(* Where the first i steps leave each variable: where the last store to it *)
(* put it.                                                                 *)
After(steps, s, i) ==
    [v \in DOMAIN s |->
        LET stores == {k \in 1 .. i : steps[k][1] = "store" /\ steps[k][2] = v}
        IN  IF stores = {} THEN s[v] ELSE steps[Max(stores)][3]]

(* Fault: a position does not say where a store has moved the storage to.  *)
PositionOnEntry(a, s, at) == <<a, s>>

(* A position is named by the regions the call was entered in, and by the  *)
(* storage's now when a store has moved it.                                *)
Position(a, s, at) == IF at = s THEN <<a, s>> ELSE <<a, s, at>>

PlantPosition(a, s, at) == Position(a, s, at)

Broken(s, b) ==
    \E p \in b.props :
        \/ p.predicate = PFalse
        \/ \E i \in 1 .. Len(b.storage) :
              /\ PVar(p.predicate) = Some(b.storage[i].label)
              /\ b.slotRegions[i][s[i]] \cap PSet(p.predicate) = {}

Boundary(state, s, returns, b) ==
    {<<state, <<"next_tx">>, IF returns /\ Broken(s, b) THEN Bad ELSE Idle(s)>>}

(* What a step is called in the implementation: a check by its result.     *)
EventOf(x) ==
    CASE x[1] = "check" -> <<IF x[3] THEN "pass" ELSE "fail", x[2]>>
      [] x[1] = "store" -> <<"store", x[2], x[3]>>
      [] OTHER -> <<"external_call">>

(* Fault: states of the implementation past the check that stops it.       *)
EveryCheck(steps) == {i \in 1 .. Len(steps) : steps[i][1] = "check"}

(* The implementation stops at the first check that fails.                 *)
FailedAt(steps) == {i \in 1 .. Len(steps) : steps[i][1] = "check" /\ ~steps[i][3]}
StopsAt(steps) == {i \in FailedAt(steps) : \A j \in FailedAt(steps) : j >= i}
PassedAt(steps) == {i \in 1 .. Len(steps) : \A j \in FailedAt(steps) : j > i}

(* The checks it gets to.                                                  *)
CheckedAt(steps) == {i \in EveryCheck(steps) : \A j \in FailedAt(steps) : j >= i}

ImplOf(e, s, a, w, b) ==
    LET n == Len(w.steps)
        node(i) == <<e.sig, "#", i, Position(a, s, After(w.steps, s, i))>>
        move(i, to) == <<node(i - 1), EventOf(w.steps[i]), to>>
        rev == <<e.sig, "#rev", s>>
        ret == <<e.sig, "#ret", After(w.steps, s, n)>>
        ending ==
            IF FailedAt(w.steps) # {}
            THEN {move(i, rev) : i \in StopsAt(w.steps)} \cup Boundary(rev, s, FALSE, b)
            ELSE IF w.status = <<"return">>
            THEN {<<node(n), <<"return">>, ret>>} \cup Boundary(ret, ret[3], TRUE, b)
            ELSE {<<node(n), <<"revert">>, rev>>} \cup Boundary(rev, s, FALSE, b)
    IN  {<<Idle(s), <<"call", e.sig, a>>, node(0)>>}
        \cup {move(i, node(i)) : i \in PassedAt(w.steps)} \cup ending

(* The plant goes on past every check; it may be continued or rejected     *)
(* there, and at the entry of a call that stores without any check.        *)
Unguarded(steps) ==
    LET kinds == {steps[i][1] : i \in 1 .. Len(steps)}
    IN  "store" \in kinds /\ "check" \notin kinds

PlantOf(e, s, a, w, b) ==
    LET n == Len(w.steps)
        at(i) == <<e.sig, "@", i, PlantPosition(a, s, After(w.steps, s, i))>>
        entered == <<e.sig, "@e", 0, <<a, s>>>>
        node(i) == IF i = 0 /\ Unguarded(w.steps) THEN entered ELSE at(i)
        rev == <<e.sig, "@rev", s>>
        ret == <<e.sig, "@ret", After(w.steps, s, n)>>
        entry == IF Unguarded(w.steps)
                 THEN {<<at(0), <<"cont_entry", e.sig>>, entered>>,
                       <<at(0), <<"rej_entry", e.sig>>, rev>>}
                 ELSE {}
        move(i) ==
            LET x == w.steps[i]
            IN  IF x[1] = "check"
                THEN {<<node(i - 1), <<"cont", x[2]>>, node(i)>>, <<node(i - 1), <<"rej", x[2]>>, rev>>}
                ELSE {<<node(i - 1), EventOf(x), node(i)>>}
        ending ==
            IF w.status = <<"return">>
            THEN {<<node(n), <<"return">>, ret>>} \cup Boundary(ret, ret[3], TRUE, b)
            ELSE {<<node(n), <<"revert">>, rev>>}
    IN  {<<Idle(s), <<"call", e.sig, a>>, at(0)>>} \cup entry
        \cup (UNION {move(i) : i \in 1 .. n}) \cup ending \cup Boundary(rev, s, FALSE, b)

SitesOf(e, s, a, w) ==
    {<<w.steps[i][2],
       <<e.sig, "@", i - 1, PlantPosition(a, s, After(w.steps, s, i - 1))>>,
       <<e.sig, "#", i - 1, Position(a, s, After(w.steps, s, i - 1))>>>>
        : i \in CheckedAt(w.steps)}

(* What a finished walk assumed, and whether the program reverts on it.    *)
Assumed(w) == IF w.revertedAt = Nothing THEN w.facts ELSE Get(w.revertedAt)
Reverts(w) == w.status = <<"revert">> \/ w.revertedAt # Nothing

PathOf(e, s, a, w, b) ==
    [entrypoint |-> e.sig,
     params |-> [i \in 1 .. Len(e.params) |-> e.params[i].name],
     args |-> [i \in 1 .. Len(a) |-> b.argRegions[a[i]]],
     storage |-> [l \in {v.label : v \in Range(b.storage)} |->
                     LET i == Min({j \in 1 .. Len(b.storage) : b.storage[j].label = l})
                     IN  b.slotRegions[i][s[i]]],
     assumed |-> Assumed(w), reverts |-> Reverts(w)]

-----------------------------------------------------------------------------
(* Rounds are only needed where a callee could move storage's region.      *)
NeedsRounds(b) ==
    /\ b.reentrancy /\ b.props # {}
    /\ \E f \in DOMAIN b.functions : "external_call" \in b.functions[f].eff

B == Read[program].contract

Begin(where, b) ==
    /\ phase' = "walk"
    /\ reach' = where
    /\ todo' = b.jobs /\ stack' = <<<<>>>> /\ forks' = 0
    /\ budget' = b.limits.budget
    /\ refused' = b.early
    /\ impl' = {} /\ plant' = {} /\ sites' = {} /\ paths' = {}

Init ==
    /\ program \in DOMAIN Programs
    /\ phase = "round" /\ round = 0 /\ late = FALSE
    /\ reach = IF NeedsRounds(B) THEN Some(<<>>) ELSE Nothing
    /\ todo = <<>> /\ stack = <<>> /\ forks = 0 /\ budget = 0 /\ refused = {}
    /\ impl = {} /\ plant = {} /\ sites = {} /\ paths = {}

(* The next round, on where the last found that callees can lead.  Out of  *)
(* time or rounds, a callee may lead anywhere.                             *)
BeginRound ==
    /\ phase = "round"
    /\ LET over == reach # Nothing /\ (late \/ round = B.limits.rounds)
       IN  Begin(IF over THEN Nothing ELSE reach, B)
    /\ round' = round + 1
    /\ UNCHANGED <<program, late>>

(* Steps a walk may take before one of the limits stops it.                *)
Allowed == Min({B.limits.steps, budget} \cup IF late THEN {B.limits.clock - 1} ELSE {})

CutShort(sig, why) == refused' = refused \cup {<<why, sig>>}

(* The walk of a job down some splits, when callees lead where they do and *)
(* a number of steps may be taken.                                         *)
WalkOf(job, splits, where, steps, b) ==
    WalkToEnd(job[1], job[2], job[3], splits,
              [b EXCEPT !.reach = where, !.limits.steps = steps])

(* One walk down the splits on top of the stack.                           *)
WalkOnce ==
    /\ phase = "walk" /\ todo # <<>> /\ stack # <<>>
    /\ LET e == Head(todo)[1]
           s == Head(todo)[2]
           a == Head(todo)[3]
           splits == Last(stack)
           w == WalkOf(Head(todo), splits, reach, Allowed, B)
           ways == w.status[2]
           tried == [i \in 1 .. ways |-> Append(splits, i - 1)]
       IN  /\ budget' = budget - Min({w.n, Allowed})
           /\ CASE w.status[1] = "refused" ->
                     /\ stack' = <<>> /\ CutShort(e.sig, "walk")
                     /\ UNCHANGED <<forks, built>>
                [] w.status[1] = "undecided" ->
                     /\ forks' = forks + 1
                     /\ IF Len(splits) >= B.limits.splits \/ forks' > B.limits.forks
                        THEN stack' = <<>> /\ CutShort(e.sig, "forks")
                        ELSE stack' = Front(stack) \o tried /\ UNCHANGED refused
                     /\ UNCHANGED built
                [] OTHER ->
                     /\ stack' = Front(stack)
                     /\ paths' = paths \cup {PathOf(e, s, a, w, B)}
                     /\ impl' = impl \cup ImplOf(e, s, a, w, B)
                     /\ plant' = plant \cup PlantOf(e, s, a, w, B)
                     /\ sites' = sites \cup SitesOf(e, s, a, w)
                     /\ UNCHANGED <<forks, refused>>
    /\ UNCHANGED <<program, phase, round, reach, todo, late>>

NextJob ==
    /\ phase = "walk" /\ todo # <<>> /\ stack = <<>>
    /\ todo' = Tail(todo) /\ stack' = <<<<>>>> /\ forks' = 0
    /\ UNCHANGED <<program, phase, round, reach, budget, late, refused, built>>

(* A round that finds what it assumed has settled.                         *)
EndRound ==
    /\ phase = "walk" /\ todo = <<>>
    /\ LET next == IdleReach(impl, B)
           settled == reach = Nothing \/ Get(reach) = next
       IN  /\ phase' = IF settled THEN "done" ELSE "round"
           /\ reach' = IF settled THEN reach ELSE Some(next)
    /\ UNCHANGED <<program, round, todo, stack, forks, budget, late, refused, built>>

(* The clock is looked at only where the limits say it may run out.        *)
MinuteIsOver ==
    /\ B.limits.slow /\ ~late /\ phase # "done"
    /\ late' = TRUE
    /\ UNCHANGED <<program, phase, round, reach, todo, stack, forks, budget, refused, built>>

Next == BeginRound \/ WalkOnce \/ NextJob \/ EndRound \/ MinuteIsOver

Spec == Init /\ [][Next]_vars

-----------------------------------------------------------------------------
(* A site pairs states that match: the implementation's takes one side of  *)
(* the site's own check, the plant's may be continued or rejected, and no  *)
(* state of the implementation at a check is left without its pair         *)
(* (model.rs:3599-3645).                                                   *)
SitesCorrespond ==
    /\ \A x \in sites :
          /\ \E t \in impl : t[1] = x[3] /\ t[2] \in {<<"pass", x[1]>>, <<"fail", x[1]>>}
          /\ {<<"cont", x[1]>>, <<"rej", x[1]>>} \subseteq {t[2] : t \in {u \in plant : u[1] = x[2]}}
    /\ \A t \in impl : t[2][1] \in {"pass", "fail"} =>
          \E x \in sites : x[1] = t[2][2] /\ x[3] = t[1]

(* Where the plant is when the implementation is at n, and what it sees.   *)
InPlant(n) ==
    IF n[1] \in {"idle", "bad"} THEN n
    ELSE IF n[2] = "#" THEN <<n[1], "@", n[3], n[4]>>
    ELSE <<n[1], IF n[2] = "#ret" THEN "@ret" ELSE "@rev", n[3]>>

EventInPlant(event) ==
    CASE event[1] = "pass" -> <<"cont", event[2]>>
      [] event[1] = "fail" -> <<"rej", event[2]>>
      [] OTHER -> event

(* The same state of a call, once entering was allowed.                    *)
PastEntry(n) == <<n[1], "@e", n[3], n[4]>>

(* The plant can do whatever the implementation does when each check that  *)
(* passes is continued, each that fails is rejected and every entry is     *)
(* continued: what the supervisor is measured against leaves nothing out   *)
(* of the program (model.rs:3558-3561).                                    *)
PlantFollows ==
    \A t \in impl :
        LET here == InPlant(t[1])
            follows(from) == <<from, EventInPlant(t[2]), InPlant(t[3])>> \in plant
        IN  \/ follows(here)
            \/ /\ t[1][1] # "idle" /\ t[1][2] = "#"
               /\ <<here, <<"cont_entry", t[1][1]>>, PastEntry(t[1])>> \in plant
               /\ follows(PastEntry(t[1]))

(* No state of either model has two successors on one event: the core takes*)
(* no other plant, and validation refuses the whole contract for one       *)
(* (model.rs:1077-1081, validate.rs:84-98).                                *)
Deterministic(transitions) ==
    \A t, u \in transitions : t[1] = u[1] /\ t[2] = u[2] => t[3] = u[3]

ModelsAreDeterministic == Deterministic(impl) /\ Deterministic(plant)

-----------------------------------------------------------------------------
(* What the proofs rest on: the names of a state and an event say where    *)
(* the event leads, whichever walk wrote the transition.                   *)
StorageAt(position) == IF Len(position) = 3 THEN position[3] ELSE position[2]

Moved(position, event) ==
    IF event[1] # "store" THEN position
    ELSE Position(position[1], position[2], [StorageAt(position) EXCEPT ![event[2]] = event[3]])

Ended(n) == IF n[2] \in {"#ret", "@ret"} /\ Broken(n[3], B) THEN Bad ELSE Idle(n[3])

ImplTarget(n, event) ==
    IF n[1] = "idle" THEN <<event[2], "#", 0, <<event[3], n[2]>>>>
    ELSE IF n[2] \in {"#ret", "#rev"} THEN Ended(n)
    ELSE CASE event[1] \in {"fail", "revert"} -> <<n[1], "#rev", n[4][2]>>
           [] event[1] = "return" -> <<n[1], "#ret", StorageAt(n[4])>>
           [] OTHER -> <<n[1], "#", n[3] + 1, Moved(n[4], event)>>

PlantTarget(n, event) ==
    IF n[1] = "idle" THEN <<event[2], "@", 0, <<event[3], n[2]>>>>
    ELSE IF n[2] \in {"@ret", "@rev"} THEN Ended(n)
    ELSE CASE event[1] \in {"rej", "rej_entry", "revert"} -> <<n[1], "@rev", n[4][2]>>
           [] event[1] = "return" -> <<n[1], "@ret", StorageAt(n[4])>>
           [] event[1] = "cont_entry" -> <<n[1], "@e", 0, n[4]>>
           [] OTHER -> <<n[1], "@", n[3] + 1, Moved(n[4], event)>>

TargetsAreNamed ==
    /\ \A t \in impl : t[3] = ImplTarget(t[1], t[2])
    /\ \A t \in plant : t[3] = PlantTarget(t[1], t[2])

BuiltInv ==
    /\ program \in DOMAIN Programs
    /\ todo \in Seq(Range(B.jobs))
    /\ TargetsAreNamed
    /\ SitesCorrespond
    /\ PlantFollows
=============================================================================
