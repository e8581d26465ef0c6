# A verification project for mulu

mulu is a static analyser for Solidity contracts based on supervisory control.
A contract is abstracted to a finite plant; a worker written in Lean computes
reachability, redundant checks, violations and the maximally permissive
supervisor on it; the Rust CLI cross-checks the answers, has the Lean kernel
re-check the certificates, and writes findings, a SARIF file and an exit code.

This directory holds TLA+ models of that program, the TLC runs that check them
on small instances, and theorems that TLAPS proves for every instance.
Definitions are named after the source, and `PROJECT.json` maps each of them to
the lines it models. Paths below are relative to the repository.

## 1. The system

### Components

| component | state | operations | what makes it correct |
|---|---|---|---|
| Finite plant (`lean/Mulu/Core/FinitePlant.lean`, `Reachability.lean`, `Envelope.lean`) | a plant: states, events, controllable, initial, marked, bad, edges | the sets defined over it | the sets are the least and greatest fixed points the theorems speak of |
| Worker: reachability, envelope (`lean/Mulu/Worker/Protocol.lean`) | current sets, rounds of fuel left, chain recorded | `reachIter`, `envelopeChain`, `coreachIter` | fuel never cuts a loop; the result is the fixed point; the chain certifies it |
| Worker: violation search | queue, parent list, seen, fuel | `findViolation`, `rebuild` | a path found is a path; no path means none exists |
| Worker: certificate checker (`lean/Mulu/Analysis/`) | position in the certificate, inner saturation | `checkCertificate` | accepted implies the claim; honest chains are accepted |
| Worker: requests (`lean/Main.lean`) | none | parse, limits, `analyze`, `verify` | declined requests decide nothing |
| Reference oracle (`crates/mulu-model/src/reference.rs`) | sets grown in place, edge by edge | `reach`, `envelope_chain`, `envelope_bruteforce`, `coreach_within` | agrees with the worker whatever the order of the edge list |
| Model schema (`crates/mulu-model`) | none | parse, validate, normalise to indices | everything after it may rely on indices in range and determinism |
| Worker call (`crates/mulu-cli/src/worker.rs`) | child process, reader thread, pipe, clock | spawn, request, poll, kill, join | whole answers only; returns; leaves nothing running |
| Analysis driver (`crates/mulu-cli/src/main.rs`) | findings, certificates, statuses, cross-check errors | handlers per analysis, kernel route, exit code | findings and exit code say no more than was decided |
| Kernel route (`crates/mulu-cli/src/lean.rs`) | `Check.lean` | generate, run, audit axioms | nothing the kernel refused is vouched for |
| Analysis directory and `verify` | the files of a directory | ordered writes; re-check of all of them | a directory that is accepted is one finished run |
| Obligation ledger (`obligations.rs`) | obligations by status | scopes, promotion | a scope is never wider than what is discharged |
| SARIF, report (`sarif.rs`, `report.rs`) | none | render, `check_against` | the SARIF says what the report says |
| Solidity driver and replay (`analyze.rs`, `build.rs`, `reproduce.rs`, `mulu-replay`) | witness, EVM state | deploy, replay, evaluate the specification | a verdict of reproduced or not is about the claim |
| Abstract domains (`mulu-abstraction`: interval, value, relation, order, types) | sets of words | set algebra, transfer functions | over-approximate 256-bit arithmetic, also at its ends |
| Predicates, partition, specification | cells | split, classify | cells are disjoint and cover |
| Model builder (`model.rs`) | the walk, versions, emitted states and edges | `build`, `run`, `trace`, `emit_*` | the plant simulates the contract; what is cut is said |
| Yul front end (`mulu-yul`), solc driver and imports (`mulu-solc`) | AST, IR | lex, parse, lower, fold; import resolution | the IR has the program's control flow |
| EvmYul comparison (`semantics/`, `semantics.rs`), benchmark (`mulu-bench`) | none | run both, compare | tools of development, outside an analysis |

### How they interact

    Solidity --solc--> Yul --lower--> IR --builder--> model (FiniteProduct)
                                                        | validate, normalise
                                                        v
    CLI --one process per call, JSON on stdin/stdout--> mulu-worker
     |     analyses and certificates                      |
     |<---------------------------------------------------+
     +-- reference oracle: compares sets, a difference is exit code 4
     +-- Check.lean: one theorem per certificate, run by the Lean kernel
     +-- replay of witnesses on an EVM, beside the certificate
     +-- files: model, core, core of the control plant, responses, certificates,
     |          Check.lean, ledger, manifest, report, SARIF, in that order
     +-- verify: reads them again, through worker and kernel

Concurrency is confined to the worker call: the calling thread, a reader
thread, the child process and the clock. Failure is everywhere: the worker may
time out, decline, crash or be wrong; the kernel may be missing or run out of
its budget; a run may be killed between two writes. The algorithms are loops on
fuel whose sufficiency is an argument about cardinalities, and two of them are
computed a second time by code with a different order of evaluation.

### Hard behaviours

`PROJECT.json` lists every hazard at its line. In short: loops on fuel
(`Protocol.lean:102`, `:127`, `Envelope.lean:124`), lists whose order and
copies are visible to an algorithm (`reference.rs:18`, `Protocol.lean:122`),
certificates nobody vouches for (`Envelope.lean:183`); in the model builder,
ranges of words that wrap around or touch at their ends (`interval.rs:163`,
`value.rs:264`), conditions answered from what a path already took for granted
(`model.rs:4032`), facts about storage that a callee may have changed
(`model.rs:2676`), callbacks found in rounds that may not converge
(`model.rs:601`), walks cut by limits (`model.rs:1973`), and two models written
from one walk (`model.rs:3629`); then the answer read by
another thread while the caller polls and looks at the clock
(`worker.rs:96-124`), one of several analyses cut off (`main.rs:447`, `:675`,
`:763`), the priority of exit codes (`main.rs:542-570`), and files written one
after the other into a directory that may hold an earlier run (`main.rs:401-627`).

## 2. Modules

| module | models | how |
|---|---|---|
| `Plant` | the plant and the sets over it | set comprehensions, no iteration: the reference definitions for all the rest |
| `Plants` | the request: a plant and an objective | two variables the computations share and never change |
| `ReachCrossCheck` | `reachIter` and `reference::reach` | one action per round of the worker, one per edge visited by the reference |
| `EnvelopeChain` | `envelopeChain`, `envStep`, `coreachIter` | one action per inner round, one per outer step, both on their fuel |
| `ReferenceEnvelope` | `envelope_chain`, `step`, `coreach_in` of the reference | one action per edge visited, in any order, without fuel |
| `GreatestGoodSet` | what an envelope computation promises | abstract: discards states, never one of a good set; announces only a good set. `EnvelopeChain` and `ReferenceEnvelope` are shown to implement it |
| `CrossCheck` | the three computations on one request | EXTENDS all of them; one stage after the other |
| `ViolationSearch` | `findViolation`, `rebuild`, `checkPath`, the status of safety | lists kept as sequences, because order and copies count |
| `CertificateCheck` | `checkCertificate` for its five kinds | an action per element where the code recurs over a path or chain |
| `WorkerCall` | `worker::call` and the process it starts | caller, reader thread, child, pipe and clock as separate actors; the spawn, the request and the wait may each fail |
| `AnalyzeModel` | `analyze_model_at`, its handlers, the kernel route, the exit code | one action per call, handler, kernel run and decision; the worker may answer anything of the shape of an answer, as often as `Faults` allows |
| `AnalysisDir` | the writes of a run, runs that end early, re-runs, `verify` | one action per write, that of the control plant where the model has one; `verify` is a condition on the files, each certificate checked on the core model it is listed with |
| `Words`, `IntervalSet` | words of W bits, their types, and expressions over them; `interval.rs` | sets of words for the modules that reason with them; sorted ranges where the form is the question |
| `Partition` | `partition_within`: the regions of the domains | read from a state file and normalised, then `Split` by the sets of predicates |
| `Yul`, `Builtins` | Yul expressions, the constant folder; the operations on words | `fold.rs` as one function on expressions |
| `ValueSets` | `arith` and masks of `value.rs`, `predicate.rs`, the comparisons of `decide_cond` | sums, differences, products and masks of value sets; predicates combined, negated and decided; what two value sets settle of a comparison |
| `Predicates` | `value.rs`, `predicate.rs` | what values an expression can take; a guard as a set of values of one variable; every refusal is `Nothing` |
| `Terms` | `relation.rs` | the canonical form of a condition, terms versioned by the writes before them |
| `Order` | relations as keys, `order.rs` | the edges of order facts, what the arithmetic of their terms adds, contradictions and bounds; what settles itself |
| `PathFacts` | `decide_or_split`: what a path takes for granted | `Fork` takes a side of a condition and records that side of its relation; conditions, terms and what they mean are constants |
| `Conditions` | the questions of `model.rs` a condition goes through | predicate, value sets, facts of the path, fork, in that order |
| `ConditionWalk` | the partition and the conditions of one path | EXTENDS `Partition` and `PathFacts`; `Split` cuts the partition by a predicate, `Take` meets the next condition, which is answered or a `Fork` |
| `Lower` | `lower.rs`, `simplify`, checks and effects of `mulu-yul` | statements to blocks, what a function does transitively, the condition each check passes on |
| `Regions` | `spec.rs`, entrypoints, partition, constructor storage of `model.rs` | from a contract to the regions of its arguments and variables, and the states a deployment leaves |
| `CallProperty` | `call_property.rs` | three-valued answers about one call, read off the paths |
| `Walk` | `Walk::trace` | abstract execution of one entrypoint from one region, a step per instruction |
| `ModelBuilder` | `Builder::build`, `Walk::run`, `emit_*`, the rounds of callbacks | `BeginRound`, `WalkOnce` (one walk, written into both models and the paths), `NextJob`, `EndRound`, `MinuteIsOver` (the deadline); how a contract is read, walked and reached between transactions are its constants |
| `ContractModel` | what `ModelBuilder` is run with, and the comparison with concrete calls | `Regions`, `Walk` and `CallProperty` put together: the definitions its constants are bound to |
| `YulSemantics` | external: what a call does on concrete words | written from the language, not from the translator; the model is compared with it |
| `MC*` | instances for TLC | plants, certificates, lists, options, conditions and contracts from small sets |
| `PlantTheorems` | lemmas about `Plant` | monotonicity, closure, extremality, cardinality |
| `*Proofs` | theorems about the module of the same name; `CrossCheckProofs` also those about `EnvelopeChain`, `ReachCrossCheck` and `ReferenceEnvelope` | section 5 |
| `AbstractionProofs` | theorems about `IntervalSet`, `Partition`, `ModelBuilder`, `PathFacts` and `ValueSets` | section 5 |

What is abstracted. A state or an event is its index, as after normalisation.
Lists whose order and copies cannot be observed are sets; where they can, they
are sequences (`ViolationSearch`) or are visited in any order (the reference's
passes). In `AnalyzeModel` the model under analysis is the set of claims true
of it, and a certificate is what its acceptance proves and whether it holds;
wording, locations, statistics and JSON layout are left out. In `AnalysisDir`
what a file says is the input it was written for. An answer through the pipe is
a number of chunks.

In the model builder a word has W bits instead of 256 and a byte is one bit,
so that an address or a `uint8` is a type narrower than the word and the whole
range is enumerable. Names of states, events and variables are tuples of what
the program renders into them, so a collision of rendered names cannot appear:
`short` keeps three letters of a label, and `store_event` joins label, letters
and region in one string (`model.rs:1093-1098`, `4235`). A term is a tree, since rendering is injective
on what is compared, and has no greatest size: `canon` gives up a term of more
than 4096 characters (`model.rs:4194`), far above those of the runs; the key of
a set of equations is the set. The ABI and
storage helpers solc emits appear as such helpers in the contracts of
`MCModelBuilder`. `ReadProgram`, `WalkToEnd` and `IdleReach` are constants of
`ModelBuilder`. The runs bind them to the definitions of `ContractModel`
(`MCRead`, `MCWalk`, `MCIdle`), so the whole translation is checked; the
theorems hold whatever they are, so they do not depend on how a contract is
read and walked, only on how the builder writes down what it is given (two of
them take it that a walk's steps and ways on are numbers, section 5).
What the mask of two words is (`WordAnd` of `ValueSets`) is a constant as well,
`&` in the runs. In the same way `PathFacts` has as constants the relation a condition is and
what a term means under values of the variables. `ConditionWalk` binds them to
`Rel` and `Term` of `Terms` and to Yul's own semantics, and every step of it is
a step of `PathFacts` or leaves the facts alone. A path meets a condition as
lowering left it, folded, and `FoldKeepsValue` compares it with the one written.

Operators marked *Fault* in the modules are variants of the definition that
follows them, with a bug someone could write there. The specifications do not
use them: they document, with `PROJECT.json`, which property each of them
breaks.

## 3. Runs

| run | bounds | shows |
|---|---|---|
| `cross_check` | every deterministic plant of 4 states, one of them bad, one controllable and one uncontrollable event, at most 3 edges, marked {0} or {0,1}, both objectives, every order of each pass | the worker's loops and the reference's reach the fixed points and agree; no loop is cut by its fuel; the recorded chain certifies; the worker refines `GreatestGoodSet`; all loops end |
| `certificate_check` | every deterministic plant with 2 live states and a bad one over 2 events, against all sets over 0..3 (3 is out of range), paths to length 2, chains to length 3 | accepted certificates are true; honest chains are never refused |
| `violation_search` | every list of at most 3 edges over 4 states and 2 events, two lists of initial states, last state bad or none | nothing seen is lost, the path checks and is shortest, no path means safe |
| `worker_call` | an answer of 4 chunks, a pipe of 2, a timeout of 2 ticks | whole answers only, a reason for every result, no process left unless the system refuses the wait; the call returns, the worker is never stuck |
| `analyze_model` | two checks (interchangeable), every option, every consistent truth; failing and cut off calls; in the base run one arbitrary wrong answer | what is called proven is true and certified; the exit code tells the truth; every check is answered for |
| `analysis_dir` | two models (one by two routes, the other with a control plant), up to 4 runs, killed between or inside any writes | a finished run verifies; an incomplete one is refused |
| `condition_walk` | words of 3 bits, a variable of 2 bits and one of 3, at most two splits of the partition and three conditions met, of the shapes solc writes | regions hold exactly the words meant and comparing their ranges compares them; what is answered without a fork is true of every value; a path given up as contradictory has no value; value sets and folding are sound |
| `model_builder` | eighteen contracts on words of 3 bits: counters, a token, a vault and a loan that call out, loops, helpers, memory, immutables, a constructor the builder does not understand; and limits small enough to bite (splits, forks, steps, walks, boundaries, one round, the deadline) | every concrete call, with callbacks, is a run of the emitted model or its entrypoint is reported as cut; `holds` is true, of one rule and of several, with and without invariants; sites pair states that match; the plant follows the implementation; both models are deterministic; the deployed storage is initial |
| `reentry_into_broken`, `search_initial_bad`, `analyze_unbound_claim`, `analysis_dir_stale` | small | four disagreements with the documentation, section 6 |

Why the bounds are enough to be interesting. Three edges over four states give
plants where the filter and the backward saturation feed each other over
several rounds, and passes over the edge list in which insertion order matters;
with fuel one or two rounds shorter, or after only one pass, the runs fail. The
answer is larger than the pipe, so the worker blocks on it; the timeout is
longer than one poll, so every order of exit, poll and expiry occurs. One
wrong answer is enough to break each comparison on its own. Four runs into a
directory let a third and fourth one meet what two others left. Every property
was seen to fail for a plausible bug (the mutants).

Words of three bits have a top and a bottom to wrap around at, room for a
narrower type with values outside it, and every value can be tried: each answer
of `condition_walk`, each call of `model_builder` is compared with all of them.
Three conditions are the least with which the order closure chains two facts to
answer a third. Each contract of `model_builder` is there for a part of the
builder (what forks, loops, calls out, is written from memory, is refused), and
each of the limits is small enough in one of them to cut a walk that would
otherwise finish; callees call back one level deep, which the rounds then
close under.

Counters are bounded by the code itself (fuel) or by the named constants:
`MaxEdges`, `MaxPath`, `MaxChain`, `Size`, `PipeCap`, `Timeout`, `Faults`,
`MaxRuns`, `MaxSplits`, `MaxMet`, and the width `W`; the contracts carry their
own limits. The clock stops one tick after the timeout, because nothing later
can be told apart.

Deadlock is not checked in any run: every model here describes one call, request or
sequence of runs that really ends. That it does not end too early is what
`Terminates`, `CallReturns` and `WorkerNeverStuck` are for.

## 4. Fairness

`CrossCheck`: `WF_vars(Next)`; the computations are sequential code that is
scheduled until it answers. There is no fairness between edges: whichever edge
of a pass is visited, the pass ends.

`WorkerCall`: `WF` on the caller and on the reader thread, which the operating
system schedules. Nothing is assumed of the child, which may compute for ever,
nor of time; `CallReturns` says that the call returns *if* time passes, and
`WorkerNeverStuck` that it returns or is out of time *if* the child keeps
taking the steps it can.

The other modules state safety only.

## 5. Proofs

| theorem | says | argument |
|---|---|---|
| `EnvelopeInvariant` and its corollaries `EnvelopeTypeOK`, `EnvelopeKeepsGoodSets`, `EnvelopeFuelSuffices`, `EnvelopeIsGreatestGoodSet`, `EnvelopeChainCertifies` | on every plant the worker's envelope is the union of all good sets, `num_states + 1` rounds suffice, the chain is certified | `ChainIInv`: every good set stays inside `W` (a good set survives F by monotonicity); outer fuel exceeds the cardinality of `W`, inner fuel plus what was found exceeds `num_states`, so a loop can only stop at a fixed point |
| `EnvelopeImplements`, `ReferenceImplements` | worker and reference both implement `GreatestGoodSet` | step by step: `Shrink` and `RefCompare` map to `Prune`, the last step to `Announce`, the rest stutters |
| `WorkerAlwaysCertifies`, `ReachAgrees` | both reachable sets are the least closed set, for every order of the edges | `ReachIInv`: only reachable states are in either set; a pass that has added nothing so far has seen only edges inside the set |
| `EnvelopesAlwaysAgree`, `CrossCheckNeverFails`, `CrossCheckTypeOK` | the caller's comparisons never fail on correct computations | `Spec => ReachSpec /\ ChainSpec /\ RefSpec`; the three invariants hold together and determine the same set |
| `CheckerSound` | `checkCertificate_sound`: accepted implies the claim, for every plant and certificate | `IInv`: the path so far ends in a reachable state; the chain so far keeps every good set, and the inner saturation stays inside the coreachable set, so closure makes it equal |
| `WorkerCallInvariant`, `AnswerAlwaysWhole`, `ResultAlwaysHasReason`, `CallLeavesNothingRunning` | for every answer size, pipe and timeout (a wait the system refuses, `worker.rs:97`, leaves the worker as it is) | `IInv`: chunks written are those read and those in the pipe; end of file is seen only after the exit; which parties exist at each point of the caller |
| `NobodyEverWaitsInVain`, `OutOfTimeAlwaysEnds` | no two parties of a worker call wait for each other; past the timeout, caller, reader and worker together take at most `2 * Size + 11` steps more, in any order | `StepsLeft` adds up what each party has still to do, two steps for a chunk not written and one for a chunk in the pipe: every step of every party lowers it |
| `CrossCheckDescends` | on no plant, and in no order of the edges, does a loop of the three computations go on for ever | a lexicographic rank for each computation: the stage, then the fuel left or the states still to drop or to find, then the edges left of a pass; a step lowers one rank and leaves the two others |
| `CallTypeOK`, `CrossCheckTypeOK`, `EnvelopeTypeOK` | types | conjuncts of the invariants above |
| `TrueChainsAlwaysAccepted` | a chain of envelope iterates down to a fixed point is never refused | `FuelInv`: the checker's own saturation has fuel left for every state it has not found, so it stops closed and equals what the chain records |
| `SearchInvariant`, `NothingSeenIsLost`, `RebuiltPathAlwaysChecks` | whatever the lists, the search loses nothing it saw and the path it rebuilds checks | `IInv`: queue and closed states make up what was seen; the parent list is a forest over the initial states whose entries point to earlier ones, so rebuilding moves to ever earlier entries and its own bound never cuts it |
| `PathAlwaysShortest` | no bad state is nearer than the one reported | `DepthInv`, `OrderInv`: distances along the queue never decrease and differ by at most one, so what is taken off it is nearest; the least counterexample replaces induction over the lists |
| `NoPathAlwaysMeansSafe`, `DistinctInitialFits` | finding nothing means that nothing bad is reachable, and is `complete` | `FuelInv`: fuel exceeds the queue and the edges not yet followed. The condition `QueueFits` is exact; initial lists without copies meet it (finding 5 is what happens otherwise) |
| `ProvenAlwaysCertified`, `WrongAnswersNeverPass` | for any set of checks, any worker, any number of wrong answers | `IInv`: only a finding whose certificate was kept is called proven; the kernel saw all that were kept; codes 0, 1 and 2 are set after both comparisons |
| `RunInvariant`, `ProvenAlwaysTrue`, `ExitAlwaysTellsTruth`, `EveryCheckAlwaysAnswered`, `CutOffAlwaysUndecided`, `FourAlwaysMeansRefused` | what is called proven is true, codes 0 and 1 say of the model what they mean, every check has its status, a call cut off never ends decided, 4 is a refusal | `RunInv`: what each stage has recorded against what is true and what it was answered; the last one for checks with distinct Lean names |
| `NormalizeEstablishes`, `CanonicalUnique`, `MeetIsIntersection`, `ComplementIsComplement`, `DifferenceIsDifference`, `JoinIsUnion`, `ComparisonsTellWords` | for words of any size, each operation of `interval.rs` gives the canonical ranges of the words it is named for, and comparing ranges compares words | each loop is a function on its rounds, and an invariant of the rounds (what has been put out, and what is left, make up the words meant) cannot have a first round at which it fails |
| `RegionsAlwaysCanonical`, `RegionsAlwaysCut`, `RangesAlwaysTell` | a region holds the values of its domain on its side of every set that cut it, and no others | `PartInv`: canonical ranges, and which side of each cut a region is on; each step from the theorems above |
| `BuiltAlways`, `SitesAlwaysCorrespond`, `PlantAlwaysFollows`, `ModelsAlwaysDeterministic` | for any contracts, however they are walked, cut or called back: checks and decisions pair, the plant does whatever the implementation does under the supervisor that decides as the checks do, and in both models an event leads to one state | `BuiltInv`: the jobs left are the contract's, and every transition leads where its source's name and its event say (`ImplTarget`, `PlantTarget`), which is why walks that meet in a state agree |
| `ExecutionsAlwaysWritten` | once a contract is built: for each job that was not reported as cut, and however an execution of it decides the forks, a walk that goes its way to the end is in the models, the sites and the paths; and the callbacks these walks assumed are anything, or exactly what these models let a callee do | `SearchInv`: the splits walked so far, with those still on the stack, leave out no way on from a fork; the longest splits of an execution that were walked therefore end (`LongestEnds`). What a limit leaves on the stack is covered by the cut it reports; a round that did not settle is walked again |
| `BuildingAlwaysProgresses` | a build ends: every step lowers the first of six numbers it changes | the deadline, rounds left, whether a round is walked, jobs left, forks left, splits on the stack; `RoundsInv` bounds the rounds and forks |
| `PlantReachesWhatProgramDoes` | along any sequence of transitions, the plant reaches the counterpart of what the implementation reaches, a broken property among it | the step-wise `PlantFollows`, and no first transition at which the two part |
| `ContradictionsAlwaysReal`, `BoundsAlwaysHold`, `MemoryAlwaysSound` | for words of any size, any terms and whatever a path forked on: its order facts contradict each other only where no value takes the path, the bounds they put on a term hold its value, and what it remembers answers a condition as every value on the path would | `FactsFromForks`: each fact is the side a fork took. So a value on the path makes every edge true; so are the edges the closure adds (a sum that has room, a difference that does not wrap, bits set or cleared, literals), and along true edges words do not fall, in any number of rounds (`FittingNotContradictory`) |
| `ArithHoldsValues`, `ComparisonsHoldForValues`, `SignedSetsTellWords` | for words of any size: the range of a sum, difference or product holds what the wrapping operation gives on every two values of its sides; a comparison the value sets settle, signed or not, goes that way for every two of them; a signed comparison with a literal names exactly its words | only the ends of the sets matter; a range is refused where an end could wrap, and the words of one sign compare as they are |
| `MaskedHolds` | for words of any size: a set under a mask, where it is not refused, holds what the mask leaves of each of its words, and only words | a word is halved until nothing is left: under a mask of low bits a number is its remainder (`LowMaskLeaves`), and the bits under a mask and under its complement make it up again (`ComplementsMakeUp`), so clearing low bits keeps order and the ends say enough (`RoundingKeepsOrder`) |
| `AndIsExact`, `DecisionsHold` (with `NegateIsExact`, `OrIsExact`, `JoinedHolds`) | a conjunction, disjunction or negation of predicates holds of exactly the values it should, or is refused; what is decided on the sets the variables are in is so of all their values | by the shapes of a predicate; `OrderOnHolds` for two variables, inclusion for one |
| `FinishedAlwaysVerifies`, `OkAlwaysMeansComplete` | whatever earlier runs left and wherever they died, a finished run verifies with every file its own; a directory of one input that lacks a file is refused | `DirInv`: what the writes so far have put in place |

An invariant is rarely inductive by itself. `FuelSuffices`, for instance, is
not: that fuel is positive now says nothing of the next round. The strengthening
relates the fuel to the cardinality of a set that must shrink or grow. The
strengthenings are defined beside the properties in the component's module,
except those about distances in `ViolationSearchProofs`, which quantify over
all naturals and which TLC could only evaluate up to a bound.

Assumptions, each on the constants and evaluated in the runs:
`PlantsAssumption` and `InputAssumption` (indices in range, which the worker
checks with `wellFormed` before any analysis; the shape of a parsed
certificate), `CallAssumption` (an answer has at least one chunk, a pipe holds
at least one), `ModelAssumption` (finitely many checks, truths that are
consistent), `InputsAssumption` (the lists of a search name exactly the sets of
its plant), `TopAssumption` (there are at least two words), `LoadedAssumption`
(a domain read back is a list of ranges of words), `ReadAssumption` (a contract
has a list of jobs, each with a region for each storage variable, no signature
is one of the two other names of states, which have no parenthesis, and limits
are numbers, that of the clock at least one),
`WAssumption` (a word has at least two bits),
`BitsAssumption` (the bits two words have in common, lowest bit first, and that
`2^W - 1` has all its bits: the provers do not know powers), `TermsAssumption`,
`RelationAssumption` and `ValuesAssumption` (a term means a word, a sum or
difference the wrapped one, an `or` or `and` of bits a word above or below its
parts; a condition is its relation in the sense recorded; a term has the value
of its expression: what `Terms` promises of the conditions of a run, and TLC
evaluates for every value of the variables),
`DirAssumption` and `ContentAssumption` (certificate names apart
from those of the other files, and none checked on a control plant the model
does not have; a file written whole is told from a missing or torn one).
Four theorems have a hypothesis besides: `QueueFits` (`NoPathAlwaysMeansSafe`),
that `Ident` is injective (`FourAlwaysMeansRefused`), and `WalksAreCounted`
(`ExecutionsAlwaysWritten`, `BuildingAlwaysProgresses`): the steps of a walk and
the ways on from a fork are `usize` in the code, so numbers. It speaks of all
splits and step counts, which TLC cannot enumerate, and is no assumption of the
module for that reason. Determinism of the plant, which `validate.rs` enforces, is not
needed by any proof.

The proofs do not restate the Lean ones: those speak of the functions on
lists and of the checker, these of the computations as they run, on fuel and
across the two languages. `EnvelopeFuelSuffices` and the agreement with the
reference have no counterpart in Lean.

Every invariant of the runs on the modules `Plant` to `AnalysisDir` is proved,
of the builder those about how it writes its models, and of a path those about
the order facts it collects. Only model-checked:

- liveness (`Terminates`, `CallReturns`, `WorkerNeverStuck`), whose proofs would
  need fairness and ENABLED. What they need of the steps is proved: each brings
  a number or a rank down (`CrossCheckDescends`, `OutOfTimeAlwaysEnds`), so no
  behaviour goes on for ever; that none stops too early is left to the runs;
- what is said of every expression: `RegionIsExact`, `AnswersAreSound`,
  `FoldKeepsValue` of `ConditionWalk`;
- what is said of every program: `EveryCallIsModelled`, `HoldsIsTrue`,
  `DeploymentIsInitial` of `ContractModel`, which compare with concrete calls.
  The part of `EveryCallIsModelled` that is the builder's own, that the search
  leaves no path out and cuts none in silence, is `ExecutionsAlwaysWritten`.

Of the answers, each step they are made of is proved where it does not recur:
the predicates and comparisons of `ValueSets`, and what a path remembers. What
is left to the runs is that the recursion over an expression puts the steps
together, and the widths of signed types.

The last two of these kinds recur over expressions and statements, with recursive
operators that put a module out of the provers' reach, and need induction over
them; and of every expression there is they are not true, only of those solc
writes (section 6 lists the others, an `and` of numbers among them). A theorem
would have to assume of the translation what the runs are there to check.
Loops on numbers do not recur so: they are functions on their rounds, and the
least counterexample stands in for induction (`FirstNumber` in
`AbstractionProofs`). For the same reason `Plant` defines its sets by
comprehension.

## 6. Findings

1. **Proven without the claim being checked** (`analyze_unbound_claim`).
   `handle_safety`, `handle_redundancy` and `handle_envelope` call a finding
   proven when the worker says that a certificate checked; nothing compares the
   certificate's kind or content with the claim, and `Check.lean` proves only that
   it checks. Even the worker's own certificate for `model-safe` is a
   reachability certificate, whose theorem does not mention bad states.
   `README.md:566-568` says the worker is not trusted for `proven`. What does
   hold, and is proved, is `ProvenIsCertified` and `WrongAnswerIsNoAnswer`.
2. **A bad initial state is an error** (`search_initial_bad`). The search
   answers with the empty path, which `checkPath` refuses, so the violation is
   reported with status `error`; `schemas/worker-protocol.v1.md:33-35` says that a
   search that found a violation is `complete`.
3. **A directory of two runs verifies** (`analysis_dir_stale`). `manifest.json`
   is written before `report.json` and `results.sarif`; a second run that ends
   in between leaves the first one's report beside the second one's model, and
   `verify` answers OK, which `main.rs:1234` says means consistent.

4. **A callback into a broken state is not followed** (`reentry_into_broken`).
   `idle_reachability` (`model.rs:218`) follows the transitions of the last
   round between idle states; a transaction that ends while a property is
   broken goes to `bad`, which has no successors. What a callee's own
   transaction writes between the write that breaks a property and the one that
   repairs it is therefore in no state of the model, and no entrypoint is
   refused, although `model.rs:2637-2639` says that the storage afterwards is
   any state a sequence of complete transactions can leave. `model_builder` has
   only contracts that do not call out with a property broken.
5. **Copies of an initial state use up the search's fuel** (no run).
   Validation and normalisation keep repetitions in the list of initial states
   (`validate.rs:61-67`, `core.rs:74`). With two states, one edge to a bad one
   and the initial state listed five times, the queue starts with as many
   entries as there is fuel: `findViolation` answers none and safety comes back
   `partial`, although the comment at `Protocol.lean:198-199` says that no
   analysis has a size reason to stop. `QueueFits` is the exact condition under
   which this does not happen.

Noted without a run of their own, first outside the model builder:

- a cross-check mismatch followed by an error of the second worker call exits 3,
  though `README.md:532` ranks 4 first;
- an index out of range in a worker's path panics (`main.rs:329-342`), code 101;
- check ids that differ only in punctuation share a Lean name and a file
  (`lean.rs:13-26`): an honest run exits 4;
- when one of the two calls is cut off, findings of the other remain proven while the
  exit code is 2, and with `--no-kernel` or without Lean findings also remain proven;
- an answer completed between the last poll and the deadline is dropped, a
  failed write of the request leaves the child unreaped (`worker.rs:88`), and a
  failed `try_wait` ends the call with the worker still running (`worker.rs:97`);
- in `verify` a worker timeout counts as a rejected certificate (`main.rs:1050`);
- two runs into one directory at the same time are not excluded by any lock.

And in the builder and the front end, each met while translating it. The
contracts of `model_builder` stay clear of them, so what that run shows is
limited to contracts that do:

- storage reads and `constructor_storage` use the number of a slot as the index
  of its variable; the contracts number slots in the order of the variables;
- variables packed into one slot: a write moves only the first one's region; a
  store to a computed slot bumps versions and moves no region;
- in a loop `loop_effect` ignores the writes it has no slot for (`Err(_) => {}`):
  writes to mapping cells bump no version, and memory is not cleared; terms of a
  `sload` of a computed slot carry no version (`cell_generation` is not used);
- a local without a term (one of several targets, or past the size of `canon`)
  keeps its bare name in the key of a fact, so a function called twice has its
  second condition answered by the fact of the first call, and paths on which
  the two differ are missing; the comment at `model.rs:4191` says such a
  condition forks as before;
- facts about panics are keyed by function, block and index and are reused on a
  second call of the function; a fact on a bound is kept past a write
  (`by_facts`, `model.rs:2505-2524`);
- an unnamed slot read before any write renders as `sload(7)` and, after the
  first write, as `sload(7@1)` (`relation.rs:336-346`), against the comment at
  `model.rs:2740-2743`;
- the guards of a function reached by two entrypoints are those of the last
  one's widest domain (`model.rs:737`);
- a revert inside the arguments of an `mstore`, or in the value of a store, is
  not asked about (`model.rs:2699-2712`);
- a helper that writes memory but neither checks, reverts nor stores is not
  walked, so known words go stale; one around `call` of that kind adds no
  callback; `Purity::of` does not look at external calls or memory;
- a check written directly over a storage read is refused as impure
  (`model.rs:475-482`), though the walk can decide it;
- questions about calls are answered from the paths there are, also when walks
  were cut, and a term no path mentions gives `fails`, where the documentation
  of `Verdict` has `undecided`;
- a switch without default may leave a stale `returns_to`, and past a switch
  with no arm that matches the frame is left; `block_always_reverts` does not
  see a conditional `leave`;
- `simplify_once` propagates a definition across an assignment to a variable it
  reads;
- `and` of operands that are not 0 or 1 is decided as a conjunction; the mask of
  high bits called exact is not (`value.rs:77-85`); a width check
  `and(y, m) == y` is stripped to `y == y` (`relation.rs:218-245`);
- a branch on `contains("signed")` can never be taken (`types.rs:101`).

## 7. Not modelled, and why

Not modelled yet (section 8): the ledger, the comparison of SARIF and report
finding by finding, validation and normalisation of models, the verdicts of a
replay, `coreach_within` and overrestriction, import resolution, limits and
parsing in the worker's requests. Of the builder, the report, descriptions and
the telling apart of overloads (`model.rs:3893-3952`) are left out, and calls
that call back are followed one level deep on the concrete side. Runs that
share a directory at the same time are not modelled: the code has nothing that
orders them, and says nothing of them. In
`AnalyzeModel` the verdict of a replay and the existence of overrestriction
candidates are free choices, in `AnalysisDir` a certificate holds exactly for
its model. Left out for good: lexing and text rendering (formatting), the solc and
EVM processes (external), the benchmark and the EvmYul comparison (tools of
development), the arithmetic of time in timeouts.

## 8. Plan

The order is by weight for the answers mulu gives. Done: the algorithms and
their certificates (modules `Plant` to `CertificateCheck`), the process
boundary (`WorkerCall`), the decision (`AnalyzeModel`), the directory
(`AnalysisDir`), the abstract domains and conditions (`Words` to
`ConditionWalk`), the front end and the builder (`Lower` to `ModelBuilder`)
against concrete calls, and the theorems above.

Next, to model:

1. `Ledger` and `Sarif`, composed with `AnalysisDir`: scopes and promotion,
   `check_against` finding by finding, and `verify` as steps with worker calls
   that may time out.
2. `Overrestriction`: pairing of implementation and control plant, with
   `coreach_within`.
3. `Normalise`: names to indices, what validation refuses, repeated initial
   states; composed with `ViolationSearch`.
4. `Replay`: the verdicts of a reproduction, and which of them reach the exit
   code; import resolution.
5. `ModelBuilder` on contracts with overloads and packed variables.

Next, to prove: that a width check on a signed type names exactly its words, for
words of any width; and, once expressions are kept by depth so that induction on it is on numbers,
`RegionIsExact` for the conditions solc writes.
