---------------------------- MODULE AnalyzeModel ----------------------------
(***************************************************************************)
(* The CLI turning worker responses into findings and an exit code         *)
(* (analyze_model_at and its handlers).  The worker is another program: it *)
(* may answer wrongly, as often as Faults says of the run, so that no      *)
(* fault is the worker of lean/.  The Lean kernel is what re-checks; it    *)
(* never accepts a certificate that does not hold.                         *)
(*                                                                         *)
(* The model analysed is abstracted to the claims that are true of it, a   *)
(* certificate to the claims its acceptance proves and whether its data    *)
(* are right.  Claims are records [what, of], of being a check or "model". *)
(***************************************************************************)
EXTENDS Integers, FiniteSets

CONSTANTS
  Checks,        \* the checks of the model
  Ident,         \* the file and Lean name given to each check's certificate
  Runs,          \* the options and inputs a run may have
  Truths,        \* what may be true of the model
  Certificates,  \* the certificates a worker may hand over
  Faults         \* how many wrong answers the worker of a run may give

About(what, of) == [what |-> what, of |-> of]

BadReachable   == About("bad-reachable", "model")
BadUnreachable == About("bad-unreachable", "model")
Covers         == About("covers", "model")       \* a set holds every reachable state
Greatest       == About("winning", "model")      \* a set is the envelope
Unrealizable   == About("unrealizable", "model") \* and has no initial state
NeverFails(c)  == About("never-fails", c)
Unreachable(c) == About("unreachable", c)
MayFail(c)     == About("may-fail", c)

Run == [spec : BOOLEAN,                          \* the model has bad states
        marked : BOOLEAN,                        \* and marked ones
        control : {"none", "free", "specified"}, \* a control plant, with bad states
        kernel : {"runs", "short", "fails", "skipped"},
        failOnCandidate : BOOLEAN,
        unsupported : BOOLEAN,                   \* the front end left something out
        sources : BOOLEAN]                       \* there is a contract to replay on

(* A certificate the generator cannot render, e.g. null. *)
Malformed == [proves |-> {}, good |-> FALSE]

Consistent(truth) ==
  /\ {Covers, Greatest} \subseteq truth
  /\ BadReachable \in truth <=> BadUnreachable \notin truth
  /\ \A c \in Checks : /\ Unreachable(c) \in truth => NeverFails(c) \in truth
                       /\ MayFail(c) \in truth <=> NeverFails(c) \notin truth

ASSUME ModelAssumption ==
  /\ IsFiniteSet(Checks) /\ "model" \notin Checks
  /\ Runs \subseteq Run
  /\ \A truth \in Truths : Consistent(truth)
  /\ Malformed \in Certificates
  /\ Faults \in [Runs -> Nat]

VARIABLES
  run, truth,  \* the input, never changed
  pc,
  reply,       \* how the last call ended: "answer" or "partial", "none" before
  cutoff,      \* whether some call was cut off
  todo,        \* checks whose answer was not read yet
  diags,       \* the findings
  certs,       \* the certificates kept, as [id, of, cert]
  statuses,    \* <<analysis, status>>
  mismatch,    \* cross-check errors were recorded
  kernel,      \* "none", "accepted", "refused", "skipped"
  faults,      \* wrong answers given
  code         \* the exit code, Running before

vars == <<run, truth, pc, reply, cutoff, todo, diags, certs, statuses, mismatch,
          kernel, faults, code>>

input == <<run, truth>>

-----------------------------------------------------------------------------
Finished == {"complete", "unrealizable", "not-requested"}
Statuses == Finished \cup {"partial"}   \* partial stands for any other word

Finding(id, of, claim, status, evidence) ==
  [id |-> id, of |-> of, claim |-> claim, status |-> status, evidence |-> evidence]

Kept(id, of, cert) == [id |-> id, of |-> of, cert |-> cert]

Accepts(cert) == cert.good /\ cert.proves \subseteq truth

(* What lean/ hands over for a claim: the certificate of that claim. *)
CertOf(claim) == [proves |-> {claim}, good |-> TRUE]

(* The invariant is the reachable set, so it avoids the bad states if they *)
(* are unreachable; the kernel is only asked whether it is closed.         *)
Invariant == [proves |-> {Covers} \cup ({BadUnreachable} \cap truth), good |-> TRUE]

(* An answer is the right one, or it is one of the wrong answers left.  A  *)
(* reply that was cut off was not computed, so it is never a wrong answer. *)
Answered(right) ==
  IF right THEN UNCHANGED faults
  ELSE reply = "answer" /\ faults < Faults[run] /\ faults' = faults + 1

(* Before the exit, and the code of a process that panicked. *)
Running == -1
Panic == 101

Exit(c) == pc' = "done" /\ code' = c

-----------------------------------------------------------------------------
Init ==
  /\ run \in Runs /\ truth \in Truths
  /\ pc = "call" /\ reply = "none" /\ cutoff = FALSE
  /\ todo = Checks
  /\ diags = {} /\ certs = {}
  /\ statuses = IF run.unsupported THEN {<<"abstraction", "unsupported">>} ELSE {}
  /\ mismatch = FALSE /\ kernel = "none" /\ faults = 0 /\ code = Running

(* worker::call, for the model and then for its control plant: an error    *)
(* ends the run, a timeout or a declined model leaves it all partial.      *)
Call ==
  /\ pc \in {"call", "call-plant"}
  /\ \/ /\ Exit(3)
        /\ UNCHANGED <<reply, cutoff>>
     \/ /\ reply' \in {"answer", "partial"}
        /\ cutoff' = (cutoff \/ reply' = "partial")
        /\ pc' = IF pc = "call" THEN "reach" ELSE "reach-plant"
        /\ UNCHANGED code
  /\ UNCHANGED <<input, todo, diags, certs, statuses, mismatch, kernel, faults>>

ReachAnswers ==
  [status : Statuses, right : BOOLEAN, checked : BOOLEAN, cert : Certificates]

RightReach(a) ==
  IF reply = "partial" THEN a.status = "partial" /\ ~ a.checked
  ELSE a.status = "complete" /\ a.right /\ a.checked /\ a.cert = Invariant

(* A complete set is compared with the one computed here. *)
Reachability ==
  /\ pc \in {"reach", "reach-plant"}
  /\ \E a \in ReachAnswers :
       /\ Answered(RightReach(a))
       /\ statuses' = statuses \cup {<<pc, a.status>>}
       /\ mismatch' = (mismatch \/ (a.status = "complete" /\ ~ a.right))
       /\ certs' = IF a.checked THEN certs \cup {Kept(pc, "model", a.cert)} ELSE certs
  /\ pc' = IF pc = "reach" THEN "safety" ELSE "envelope"
  /\ UNCHANGED <<input, reply, cutoff, todo, diags, kernel, code>>

SafetyAnswers ==
  [status : Statuses, violation : BOOLEAN, inRange : BOOLEAN, checked : BOOLEAN,
   cert : Certificates]

RightSafety(a) ==
  /\ a.inRange
  /\ IF reply = "partial" THEN a.status = "partial"
     ELSE IF ~ run.spec THEN a.status = "not-requested"
     ELSE IF BadReachable \in truth
     THEN \/ a.status = "complete" /\ a.violation /\ a.checked /\ a.cert = CertOf(BadReachable)
          \/ a.status = "partial"   \* ViolationSearch: the search may give up
     ELSE a.status = "complete" /\ ~ a.violation /\ a.checked /\ a.cert = Invariant

(* Fault: a search that did not decide counts as one that found nothing. *)
SafetyFindingNoViolation(a) ==
  IF a.status = "complete" /\ a.violation
  THEN Finding("spec-violation", "model", BadReachable,
               IF a.checked THEN "proven" ELSE "candidate",
               IF a.checked THEN "checked" ELSE "unchecked")
  ELSE Finding("model-safe", "model", BadUnreachable, "proven", "none")

(* What a safety answer adds; a violation's certificate is kept whether or *)
(* not the worker says that it checked.                                    *)
SafetyFinding(a) ==
  CASE a.status = "not-requested" ->
         Finding("safety", "model", BadReachable, "not-requested", "none")
    [] a.status \notin {"complete", "not-requested"} ->
         Finding("safety", "model", BadReachable, "unknown", "none")
    [] a.status = "complete" /\ a.violation ->
         Finding("spec-violation", "model", BadReachable,
                 IF a.checked THEN "proven" ELSE "candidate",
                 IF a.checked THEN "checked" ELSE "unchecked")
    [] OTHER ->
         Finding("model-safe", "model", BadUnreachable,
                 IF a.checked THEN "proven" ELSE "unknown",
                 IF a.checked THEN "checked" ELSE "none")

Safety ==
  /\ pc = "safety"
  /\ \E a \in SafetyAnswers :
       /\ Answered(RightSafety(a))
       /\ statuses' = statuses \cup {<<"safety", a.status>>}
       /\ LET violation == a.status = "complete" /\ a.violation
          IN  /\ IF violation /\ ~ a.inRange   \* a state index nobody checked
                 THEN Exit(Panic) /\ UNCHANGED diags
                 ELSE /\ diags' = diags \cup {SafetyFinding(a)}
                      /\ pc' = "redundancy" /\ UNCHANGED code
              /\ certs' = IF violation \/ (a.status = "complete" /\ a.checked)
                          THEN certs \cup {Kept(SafetyFinding(a).id, "model", a.cert)}
                          ELSE certs
  /\ UNCHANGED <<input, reply, cutoff, todo, mismatch, kernel>>

-----------------------------------------------------------------------------
AfterRedundancy == IF run.control = "none" THEN "envelope" ELSE "call-plant"

(* Fault: nothing is said of checks that were not examined. *)
RedundancySilent ==
  /\ pc = "redundancy" /\ todo = Checks
  /\ \E s \in Statuses \ {"complete"} :
       /\ Answered(reply = "partial" /\ s = "partial")
       /\ statuses' = statuses \cup {<<"redundancy", s>>}
  /\ todo' = {}
  /\ pc' = AfterRedundancy
  /\ UNCHANGED <<input, reply, cutoff, diags, certs, mismatch, kernel, code>>

(* Not examined: every check of the model is said to be unknown. *)
RedundancyUndecided ==
  /\ pc = "redundancy" /\ todo = Checks
  /\ \E s \in Statuses \ {"complete"} :
       /\ Answered(reply = "partial" /\ s = "partial")
       /\ statuses' = statuses \cup {<<"redundancy", s>>}
  /\ diags' = diags \cup {Finding("check", c, NeverFails(c), "unknown", "none") : c \in Checks}
  /\ todo' = {}
  /\ pc' = AfterRedundancy
  /\ UNCHANGED <<input, reply, cutoff, certs, mismatch, kernel, code>>

RedundancyDecided ==
  /\ pc = "redundancy" /\ todo = Checks
  /\ Answered(reply = "answer")
  /\ statuses' = statuses \cup {<<"redundancy", "complete">>}
  /\ pc' = "checks"
  /\ UNCHANGED <<input, reply, cutoff, todo, diags, certs, mismatch, kernel, code>>

CheckAnswers == [verdict : {"never-fails", "unreachable", "may-fail", "other"},
                 checked : BOOLEAN, cert : Certificates]

RightCheck(c, a) ==
  /\ a.verdict = CASE Unreachable(c) \in truth -> "unreachable"
                   [] NeverFails(c) \in truth /\ Unreachable(c) \notin truth -> "never-fails"
                   [] OTHER -> "may-fail"
  /\ a.checked = (a.verdict # "may-fail")
  /\ a.checked => a.cert = CertOf(About(a.verdict, c))

(* Fault: the worker's word is enough to prove. *)
CheckStatusOnWord(a) ==
  CASE a.verdict = "may-fail" -> "candidate"
    [] a.verdict = "other" -> "unknown"
    [] OTHER -> "proven"

(* Proven only with a certificate the worker says it checked. *)
CheckStatus(a) ==
  CASE a.verdict = "may-fail" -> "candidate"
    [] a.verdict = "other" -> "unknown"
    [] OTHER -> IF a.checked THEN "proven" ELSE "candidate"

Check(c) ==
  /\ pc = "checks" /\ c \in todo
  /\ \E a \in CheckAnswers :
       /\ Answered(RightCheck(c, a))
       /\ diags' = diags \cup
            {Finding("check", c,
                     IF a.verdict = "other" THEN NeverFails(c) ELSE About(a.verdict, c),
                     CheckStatus(a), IF a.checked THEN "checked" ELSE "none")}
       /\ certs' = IF a.checked THEN certs \cup {Kept("check", c, a.cert)} ELSE certs
  /\ todo' = todo \ {c}
  /\ UNCHANGED <<input, pc, reply, cutoff, statuses, mismatch, kernel, code>>

(* A check the worker left out is not reported; one the model does not     *)
(* have is a cross-check error.                                            *)
CheckLeftOut(c) ==
  /\ pc = "checks" /\ c \in todo
  /\ Answered(FALSE)
  /\ todo' = todo \ {c}
  /\ mismatch' \in {mismatch, TRUE}
  /\ UNCHANGED <<input, pc, reply, cutoff, diags, certs, statuses, kernel, code>>

ChecksRead ==
  /\ pc = "checks" /\ todo = {}
  /\ pc' = AfterRedundancy
  /\ UNCHANGED <<input, reply, cutoff, todo, diags, certs, statuses, mismatch, kernel,
                 faults, code>>

-----------------------------------------------------------------------------
EnvelopeAnswers ==
  [status : Statuses, right : BOOLEAN, inRange : BOOLEAN, checked : BOOLEAN,
   cert : Certificates]

Supervised == run.marked \/ (IF run.control = "none" THEN run.spec
                                                      ELSE run.control = "specified")

RightEnvelope(a) ==
  /\ a.inRange
  /\ IF reply = "partial" THEN a.status = "partial"
     ELSE IF ~ Supervised THEN a.status = "not-requested"
     ELSE /\ a.status = IF Unrealizable \in truth THEN "unrealizable" ELSE "complete"
          /\ a.right /\ a.checked /\ a.cert = CertOf(Greatest)

EnvelopeDecides(a) == a.status \in {"complete", "unrealizable"}

EnvelopeFinding(a) ==
  CASE EnvelopeDecides(a) ->
         Finding("envelope", "model", IF a.status = "complete" THEN Greatest ELSE Unrealizable,
                 IF a.checked THEN "proven" ELSE "candidate",
                 IF a.checked THEN "checked" ELSE "unchecked")
    [] a.status = "not-requested" ->
         Finding("envelope", "model", Greatest, "not-requested", "none")
    [] OTHER ->
         Finding("envelope", "model", Greatest, "unknown", "none")

(* The winning set is compared with the two computed here; its certificate *)
(* is kept in any case.                                                    *)
Envelope ==
  /\ pc = "envelope"
  /\ \E a \in EnvelopeAnswers :
       /\ Answered(RightEnvelope(a))
       /\ statuses' = statuses \cup {<<"envelope", a.status>>}
       /\ mismatch' = (mismatch \/ (EnvelopeDecides(a) /\ ~ a.right))
       /\ certs' = IF EnvelopeDecides(a)
                   THEN certs \cup {Kept("envelope", "model", a.cert)} ELSE certs
       /\ IF EnvelopeDecides(a) /\ ~ a.inRange   \* a state index nobody checked
          THEN Exit(Panic) /\ UNCHANGED diags
          ELSE /\ diags' = diags \cup {EnvelopeFinding(a)}
               /\ pc' = IF EnvelopeDecides(a) /\ run.control # "none"
                        THEN "overrestriction" ELSE "kernel"
               /\ UNCHANGED code
  /\ UNCHANGED <<input, reply, cutoff, todo, kernel>>

(* Compared with the specification, if either model has one; the findings  *)
(* are candidates by construction.                                         *)
Overrestriction ==
  /\ pc = "overrestriction"
  /\ IF run.spec \/ run.control = "specified"
     THEN /\ diags' \in {diags, diags \cup
                           {Finding("overrestriction", "model", About("strict", "model"),
                                    "candidate", "none")}}
          /\ UNCHANGED statuses
     ELSE /\ statuses' = statuses \cup {<<"overrestriction", "not-requested">>}
          /\ diags' = diags \cup {Finding("overrestriction", "model",
                                    About("strict", "model"), "not-requested", "none")}
  /\ pc' = "kernel"
  /\ UNCHANGED <<input, reply, cutoff, todo, certs, mismatch, kernel, faults, code>>

-----------------------------------------------------------------------------
(* One theorem per certificate, named after the check it is for.  Two of   *)
(* one name are one definition too many, and a kernel whose budget is      *)
(* short refuses what holds.                                               *)
NamesClash ==
  \E c, d \in {k.of : k \in {x \in certs : x.id = "check"}} : c # d /\ Ident[c] = Ident[d]

KernelAccepts ==
  /\ \A k \in certs : Accepts(k.cert)
  /\ ~ NamesClash
  /\ run.kernel = "runs"

Kernel ==
  /\ pc = "kernel"
  /\ IF run.kernel = "fails" \/ \E k \in certs : k.cert = Malformed
     THEN Exit(3) /\ UNCHANGED kernel
     ELSE /\ kernel' = CASE run.kernel = "skipped" -> "skipped"
                         [] KernelAccepts -> "accepted"
                         [] OTHER -> "refused"
          /\ pc' = "exit"
          /\ UNCHANGED code
  /\ UNCHANGED <<input, reply, cutoff, todo, diags, certs, statuses, mismatch, faults>>

(* Fault: only an unfinished reachability leaves a run undecided. *)
UndecidedByReachability == \E s \in statuses : s[1] = "reach" /\ s[2] \notin Finished

Undecided ==
  \/ \E s \in statuses : s[2] \notin Finished
  \/ \E d \in diags : d.status = "unknown"

(* Faults: the kernel's answer is not looked at, or whatever has no        *)
(* certificate counts as one that failed.                                  *)
Verdict(failed, notReproduced) ==
  IF failed THEN 4
  ELSE IF notReproduced \/ Undecided THEN 2
  ELSE IF \E d \in diags : d.id = "spec-violation" /\ d.status = "proven" THEN 1 ELSE 0
ExitCodeNoKernel(notReproduced) == Verdict(mismatch, notReproduced)
ExitCodeUncertified(notReproduced) ==
  Verdict(mismatch \/ kernel = "refused" \/ \E d \in diags : d.evidence # "checked",
          notReproduced)

(* The exit code, once findings were replayed on the contract if there is  *)
(* one.                                                                    *)
ExitCode(notReproduced) ==
  IF mismatch \/ kernel = "refused" \/ \E d \in diags : d.evidence = "unchecked" THEN 4
  ELSE IF notReproduced \/ Undecided THEN 2
  ELSE IF \/ \E d \in diags : d.id = "spec-violation" /\ d.status = "proven"
          \/ run.failOnCandidate /\ \E d \in diags : d.status = "candidate"
  THEN 1 ELSE 0

Decide ==
  /\ pc = "exit"
  /\ \E notReproduced \in IF run.sources /\ diags # {} THEN BOOLEAN ELSE {FALSE} :
       Exit(ExitCode(notReproduced))
  /\ UNCHANGED <<input, reply, cutoff, todo, diags, certs, statuses, mismatch, kernel, faults>>

Next ==
  \/ Call \/ Reachability \/ Safety
  \/ RedundancyUndecided \/ RedundancyDecided
  \/ \E c \in Checks : Check(c) \/ CheckLeftOut(c)
  \/ ChecksRead \/ Envelope \/ Overrestriction \/ Kernel \/ Decide

Spec == Init /\ [][Next]_vars

-----------------------------------------------------------------------------
(* Whatever the worker answers, nothing is called proven without a         *)
(* certificate kept for that finding, so that Check.lean re-checks it; and *)
(* where the kernel accepted, what those certificates prove is true.       *)
ProvenIsCertified ==
  \A d \in diags : d.status = "proven" =>
    \E k \in certs : /\ k.id = d.id /\ k.of = d.of
                     /\ kernel = "accepted" => k.cert.proves \subseteq truth

(* What the two below rest on: only findings with a certificate are        *)
(* proven, the kernel saw every certificate kept, and an exit code that    *)
(* vouches for an analysis was decided after both comparisons.             *)
CertifiedInv ==
  \A d \in diags : d.status = "proven" => \E k \in certs : k.id = d.id /\ k.of = d.of

KernelInv ==
  /\ kernel \in {"none", "accepted", "refused", "skipped"}
  /\ kernel # "none" => pc \in {"exit", "done"}
  /\ pc = "exit" => kernel # "none"
  /\ kernel = "accepted" => \A k \in certs : Accepts(k.cert)
  /\ kernel = "skipped" => run.kernel = "skipped"

ExitInv ==
  /\ code # Running => pc = "done"
  /\ code \in {0, 1, 2} => ~ mismatch /\ kernel \in {"accepted", "skipped"}

IInv == CertifiedInv /\ KernelInv /\ ExitInv

(* What the exit code was decided on is still there at the end; a call cut *)
(* off has left an unfinished status since its reachability was read; and  *)
(* checks are answered for in the order they are taken off the list.       *)
Unfinished == \E s \in statuses : s[2] \notin Finished
ViolationFound == \E d \in diags : d.id = "spec-violation" /\ d.status = "proven"

VerdictInv ==
  /\ code \in {Running, 0, 1, 2, 3, 4, Panic}
  /\ code \in {0, 1} => ~ Undecided
  /\ code = 0 => ~ ViolationFound
  /\ code = 1 /\ ~ run.failOnCandidate => ViolationFound
  /\ code = 4 => mismatch \/ kernel = "refused" \/ \E d \in diags : d.evidence = "unchecked"
  /\ kernel = "refused" => run.kernel = "short" \/ NamesClash \/ \E k \in certs : ~ Accepts(k.cert)

CutInv ==
  cutoff => Unfinished \/ (pc \in {"reach", "reach-plant"} /\ reply = "partial")

TodoInv ==
  /\ todo \subseteq Checks
  /\ pc \notin {"call", "reach", "safety", "redundancy", "checks", "done"} => todo = {}
  /\ code \in {0, 1, 2, 4} => todo = {}
  /\ faults = 0 => \A c \in Checks \ todo : \E d \in diags : d.id = "check" /\ d.of = c

(* From a worker that gave no wrong answer.                                *)
HonestInv ==
  faults = 0 =>
    /\ ~ mismatch
    /\ \A d \in diags : /\ d.evidence # "unchecked"
                        /\ d.status = "proven" => d.claim \in truth
                        /\ d.id = "spec-violation" => d.claim = BadReachable
    /\ run.spec /\ BadReachable \in truth =>
         pc \in {"call", "reach", "safety"} \/ code \in {3, Panic} \/ ViolationFound \/ Unfinished

InputInv ==
  /\ run \in Runs /\ truth \in Truths /\ faults \in Nat
  /\ \A k \in certs : k.id = "check" => k.of \in Checks

RunInv == InputInv /\ VerdictInv /\ CutInv /\ TodoInv /\ HonestInv

(* A set the worker got wrong, or a certificate the kernel refuses, never  *)
(* leaves the run with an exit code that vouches for an analysis.          *)
WrongAnswerIsNoAnswer ==
  code \in {0, 1, 2} /\ run.kernel = "runs" =>
    ~ mismatch /\ \A k \in certs : Accepts(k.cert)

(* From a worker that answers what it computed, a finding called proven is *)
(* true of the model.                                                      *)
ProvenIsTrue ==
  faults = 0 /\ code \in {0, 1, 2} =>
    \A d \in diags : d.status = "proven" => d.claim \in truth

(* The exit code a pipeline reads: 0 never hides a violation that exists,  *)
(* and 1 is never raised without one (unless candidates were to count).    *)
ExitTellsTruth ==
  faults = 0 =>
    /\ code = 0 /\ run.spec => BadUnreachable \in truth
    /\ code = 1 /\ ~ run.failOnCandidate => BadReachable \in truth

(* A run that ends with a verdict has one for every check of the model.    *)
EveryCheckAnswered ==
  faults = 0 /\ code \in {0, 1, 2, 4} =>
    \A c \in Checks : \E d \in diags : d.id = "check" /\ d.of = c

(* A run some part of which was cut off never passes and never fails,      *)
(* whatever the rest of the worker's answers.                              *)
CutOffIsUndecided == cutoff => code \in {Running, 2, 3, 4, Panic}

(* README.md: 4 is for a certificate that failed to check.  A kernel that  *)
(* runs out of its budget is counted as that by design.                    *)
FourMeansRefused ==
  faults = 0 /\ code = 4 =>
    run.kernel = "short" \/ \E k \in certs : ~ Accepts(k.cert)

(* README.md: the compiled worker is "*not* trusted for proven", as        *)
(* Check.lean re-does the check under the kernel: whatever the worker      *)
(* answered, what is proven once the kernel accepted is true.              *)
ProvenNeedsNoTrust ==
  kernel = "accepted" /\ code \in {0, 1, 2} =>
    \A d \in diags : d.status = "proven" => d.claim \in truth
=============================================================================
