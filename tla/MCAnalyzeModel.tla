--------------------------- MODULE MCAnalyzeModel ---------------------------
(* Every consistent truth about a model with the given checks; the         *)
(* certificates of lean/ for it, one that does not hold, one that cannot   *)
(* be rendered.                                                            *)
EXTENDS AnalyzeModel, TLC

CONSTANTS c1, c2

OneCheck == {c1}
TwoChecks == {c1, c2}

(* The checks are interchangeable: each is its own identifier. *)
Symmetry == Permutations(Checks)

DistinctIdents == [c \in Checks |-> c]

CheckTruth(c) == {{MayFail(c)}, {NeverFails(c)}, {NeverFails(c), Unreachable(c)}}

MCTruths ==
  {{Covers, Greatest, s} \cup e \cup UNION {f[c] : c \in Checks} :
     s \in {BadReachable, BadUnreachable}, e \in {{}, {Unrealizable}},
     f \in {g \in [Checks -> UNION {CheckTruth(c) : c \in Checks}] :
            \A c \in Checks : g[c] \in CheckTruth(c)}}

GoodCertificates ==
  {[proves |-> p, good |-> TRUE] :
     p \in {{Covers}, {Covers, BadUnreachable}, {BadReachable}, {Greatest}}
          \cup UNION {{{NeverFails(c)}, {Unreachable(c)}} : c \in Checks}}

MCCertificates ==
  GoodCertificates \cup {Malformed, [proves |-> {Covers}, good |-> FALSE]}

Base == [spec |-> TRUE, marked |-> TRUE, control |-> "none", kernel |-> "runs",
         failOnCandidate |-> FALSE, unsupported |-> FALSE, sources |-> FALSE]

(* Every option with every other where the kernel runs, replays and parts  *)
(* left out apart; what the kernel does otherwise, with marked states.     *)
OptionRuns ==
  {r \in Run : /\ ~ r.unsupported /\ ~ r.sources
               /\ r.kernel # "runs" => r.marked /\ ~ r.failOnCandidate}
  \cup {[Base EXCEPT !.unsupported = u, !.sources = TRUE, !.control = p, !.kernel = k] :
           u \in BOOLEAN, p \in {"none", "specified"}, k \in {"runs", "skipped"}}

(* The base run, where the worker may also give one wrong answer. *)
BaseRuns == {Base}
OneWrongAnswer == [r \in Runs |-> IF r = Base THEN 1 ELSE 0]
=============================================================================
