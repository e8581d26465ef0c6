------------------------- MODULE AnalyzeModelProofs -------------------------
(***************************************************************************)
(* What a run of the CLI guarantees whatever the worker answers, however   *)
(* often it answers wrongly and whatever checks the model has.             *)
(***************************************************************************)
EXTENDS AnalyzeModel, TLAPS

(* A safety finding is proven only from a complete answer that was checked *)
(* and then its certificate is kept under the finding's own name.          *)
LEMMA SafetyFindingKept ==
  ASSUME NEW a \in SafetyAnswers,
         SafetyFinding(a).status = "proven"
  PROVE  /\ a.status = "complete" /\ a.checked
         /\ SafetyFinding(a).of = "model"
<1>1. CASE a.status = "not-requested"
  BY <1>1 DEF SafetyFinding, Finding
<1>2. CASE a.status \notin {"complete", "not-requested"}
  BY <1>2 DEF SafetyFinding, Finding
<1>3. CASE a.status = "complete" /\ a.violation
  BY <1>3 DEF SafetyFinding, Finding
<1>4. CASE a.status = "complete" /\ ~ a.violation
  BY <1>4 DEF SafetyFinding, Finding
<1> QED BY <1>1, <1>2, <1>3, <1>4

(* Nothing about the certificates kept is lost while findings are added:   *)
(* it is enough that what is new has its certificate.                      *)
LEMMA CertifiedGrows ==
  ASSUME CertifiedInv, certs \subseteq certs',
         \A d \in diags' \ diags :
           d.status = "proven" => \E k \in certs' : k.id = d.id /\ k.of = d.of
  PROVE  CertifiedInv'
BY DEF CertifiedInv

(* The inductive invariant holds initially ... *)
LEMMA InitIInv == Init => IInv
BY DEF Init, IInv, CertifiedInv, KernelInv, ExitInv, Running

(* ... is kept by what happens before the kernel is asked: there only a    *)
(* code that vouches for nothing can be set ...                            *)
LEMMA EarlySteps ==
  ASSUME IInv, pc \notin {"kernel", "exit", "done"},
         UNCHANGED <<run, truth, kernel>>,
         pc' # "exit",
         code' = code \/ (code' \in {3, Panic} /\ pc' = "done")
  PROVE  (KernelInv /\ ExitInv)'
<1>1. kernel = "none" /\ kernel' = "none" /\ code = Running
  BY DEF IInv, KernelInv, ExitInv
<1>2. KernelInv'
  BY <1>1 DEF KernelInv
<1>3. ExitInv'
  BY <1>1 DEF ExitInv, Running, Panic
<1> QED BY <1>2, <1>3

(* ... and by every step. *)
LEMMA StepIInv == IInv /\ [Next]_vars => IInv'
<1> SUFFICES ASSUME IInv, [Next]_vars PROVE IInv'
  OBVIOUS
<1>1. CASE Call
  <2>1. (KernelInv /\ ExitInv)'
    BY <1>1, EarlySteps DEF Call, Exit, input
  <2>2. CertifiedInv'
    BY <1>1, CertifiedGrows DEF Call, IInv
  <2> QED BY <2>1, <2>2 DEF IInv
<1>2. CASE Reachability
  <2>1. (KernelInv /\ ExitInv)'
    BY <1>2, EarlySteps DEF Reachability, input
  <2>2. certs \subseteq certs' /\ diags' = diags
    BY <1>2 DEF Reachability
  <2>3. CertifiedInv'
    BY <2>2, CertifiedGrows DEF IInv
  <2> QED BY <2>1, <2>3 DEF IInv
<1>3. CASE Safety
  <2>1. PICK a \in SafetyAnswers :
          LET violation == a.status = "complete" /\ a.violation
          IN  /\ IF violation /\ ~ a.inRange
                 THEN Exit(Panic) /\ UNCHANGED diags
                 ELSE /\ diags' = diags \cup {SafetyFinding(a)}
                      /\ pc' = "redundancy" /\ UNCHANGED code
              /\ certs' = IF violation \/ (a.status = "complete" /\ a.checked)
                          THEN certs \cup {Kept(SafetyFinding(a).id, "model", a.cert)}
                          ELSE certs
    BY <1>3 DEF Safety
  <2>2. (KernelInv /\ ExitInv)'
    BY <1>3, <2>1, EarlySteps DEF Safety, Exit, input
  <2>3. SafetyFinding(a).status = "proven" =>
          \E k \in certs' : k.id = SafetyFinding(a).id /\ k.of = SafetyFinding(a).of
    <3> SUFFICES ASSUME SafetyFinding(a).status = "proven"
                 PROVE  \E k \in certs' : /\ k.id = SafetyFinding(a).id
                                          /\ k.of = SafetyFinding(a).of
      OBVIOUS
    <3>1. a.status = "complete" /\ a.checked /\ SafetyFinding(a).of = "model"
      BY SafetyFindingKept
    <3>2. Kept(SafetyFinding(a).id, "model", a.cert) \in certs'
      BY <2>1, <3>1
    <3> QED BY <3>1, <3>2 DEF Kept
  <2>4. CertifiedInv'
    BY <2>1, <2>3, CertifiedGrows DEF IInv
  <2> QED BY <2>2, <2>4 DEF IInv
<1>4. CASE RedundancyUndecided
  <2>1. (KernelInv /\ ExitInv)'
    BY <1>4, EarlySteps DEF RedundancyUndecided, AfterRedundancy, input
  <2>2. \A d \in diags' \ diags : d.status # "proven"
    BY <1>4 DEF RedundancyUndecided, Finding
  <2>3. CertifiedInv'
    BY <1>4, <2>2, CertifiedGrows DEF RedundancyUndecided, IInv
  <2> QED BY <2>1, <2>3 DEF IInv
<1>5. CASE RedundancyDecided
  <2>1. (KernelInv /\ ExitInv)'
    BY <1>5, EarlySteps DEF RedundancyDecided, input
  <2>2. CertifiedInv'
    BY <1>5, CertifiedGrows DEF RedundancyDecided, IInv
  <2> QED BY <2>1, <2>2 DEF IInv
<1>6. ASSUME NEW c \in Checks, Check(c) PROVE IInv'
  <2>1. PICK a \in CheckAnswers :
          /\ diags' = diags \cup
               {Finding("check", c,
                        IF a.verdict = "other" THEN NeverFails(c) ELSE About(a.verdict, c),
                        CheckStatus(a), IF a.checked THEN "checked" ELSE "none")}
          /\ certs' = IF a.checked THEN certs \cup {Kept("check", c, a.cert)} ELSE certs
    BY <1>6 DEF Check
  <2>2. (KernelInv /\ ExitInv)'
    BY <1>6, EarlySteps DEF Check, input
  <2>3. CheckStatus(a) = "proven" => a.checked
    BY DEF CheckStatus
  <2>4. \A d \in diags' \ diags : d.id = "check" /\ d.of = c /\ d.status = CheckStatus(a)
    BY <2>1 DEF Finding
  <2>5. CertifiedInv'
    BY <2>1, <2>3, <2>4, CertifiedGrows DEF IInv, Kept
  <2> QED BY <2>2, <2>5 DEF IInv
<1>7. ASSUME NEW c \in Checks, CheckLeftOut(c) PROVE IInv'
  <2>1. (KernelInv /\ ExitInv)'
    BY <1>7, EarlySteps DEF CheckLeftOut, input
  <2>2. CertifiedInv'
    BY <1>7, CertifiedGrows DEF CheckLeftOut, IInv
  <2> QED BY <2>1, <2>2 DEF IInv
<1>8. CASE ChecksRead
  <2>1. (KernelInv /\ ExitInv)'
    BY <1>8, EarlySteps DEF ChecksRead, AfterRedundancy, input
  <2>2. CertifiedInv'
    BY <1>8, CertifiedGrows DEF ChecksRead, IInv
  <2> QED BY <2>1, <2>2 DEF IInv
<1>9. CASE Envelope
  <2>1. (KernelInv /\ ExitInv)'
    BY <1>9, EarlySteps DEF Envelope, Exit, input
  <2>2. PICK a \in EnvelopeAnswers :
          /\ certs' = IF EnvelopeDecides(a)
                      THEN certs \cup {Kept("envelope", "model", a.cert)} ELSE certs
          /\ IF EnvelopeDecides(a) /\ ~ a.inRange
             THEN Exit(Panic) /\ UNCHANGED diags
             ELSE /\ diags' = diags \cup {EnvelopeFinding(a)}
                  /\ pc' = IF EnvelopeDecides(a) /\ run.control # "none"
                           THEN "overrestriction" ELSE "kernel"
                  /\ UNCHANGED code
    BY <1>9 DEF Envelope
  <2>3. EnvelopeFinding(a).status = "proven" => EnvelopeDecides(a)
    <3>1. CASE ~ EnvelopeDecides(a) /\ a.status = "not-requested"
      BY <3>1 DEF EnvelopeFinding, Finding
    <3>2. CASE ~ EnvelopeDecides(a) /\ a.status # "not-requested"
      BY <3>2 DEF EnvelopeFinding, Finding
    <3> QED BY <3>1, <3>2
  <2>4. EnvelopeFinding(a).id = "envelope" /\ EnvelopeFinding(a).of = "model"
    <3>1. CASE EnvelopeDecides(a)
      BY <3>1 DEF EnvelopeFinding, EnvelopeDecides, Finding
    <3>2. CASE ~ EnvelopeDecides(a) /\ a.status = "not-requested"
      BY <3>2 DEF EnvelopeFinding, Finding
    <3>3. CASE ~ EnvelopeDecides(a) /\ a.status # "not-requested"
      BY <3>3 DEF EnvelopeFinding, Finding
    <3> QED BY <3>1, <3>2, <3>3
  <2>5. \A d \in diags' \ diags : d = EnvelopeFinding(a)
    BY <2>2
  <2>6. CertifiedInv'
    <3>1. certs \subseteq certs'
      BY <2>2
    <3>2. CASE EnvelopeDecides(a)
      <4> DEFINE k == Kept("envelope", "model", a.cert)
      <4>1. k \in certs'
        BY <2>2, <3>2
      <4>2. k.id = "envelope" /\ k.of = "model"
        BY DEF Kept
      <4> HIDE DEF k
      <4> QED BY <2>4, <2>5, <3>1, <4>1, <4>2, CertifiedGrows DEF IInv
    <3>3. CASE ~ EnvelopeDecides(a)
      BY <2>3, <2>5, <3>1, <3>3, CertifiedGrows DEF IInv
    <3> QED BY <3>2, <3>3
  <2> QED BY <2>1, <2>6 DEF IInv
<1>10. CASE Overrestriction
  <2>1. (KernelInv /\ ExitInv)'
    BY <1>10, EarlySteps DEF Overrestriction, input
  <2>2. \A d \in diags' \ diags : d.status # "proven"
    BY <1>10 DEF Overrestriction, Finding
  <2>3. CertifiedInv'
    BY <1>10, <2>2, CertifiedGrows DEF Overrestriction, IInv
  <2> QED BY <2>1, <2>3 DEF IInv
<1>11. CASE Kernel
  <2>1. CertifiedInv'
    BY <1>11, CertifiedGrows DEF Kernel, IInv
  <2>2. kernel = "none" /\ code = Running
    BY <1>11 DEF Kernel, IInv, KernelInv, ExitInv
  <2>3. KernelInv'
    BY <1>11, <2>2 DEF Kernel, KernelInv, KernelAccepts, Accepts, Exit, input
  <2>4. ExitInv'
    BY <1>11, <2>2 DEF Kernel, ExitInv, Exit, Running
  <2> QED BY <2>1, <2>3, <2>4 DEF IInv
<1>12. CASE Decide
  <2>1. CertifiedInv'
    BY <1>12, CertifiedGrows DEF Decide, IInv
  <2>2. KernelInv'
    BY <1>12 DEF Decide, IInv, KernelInv, Accepts, Exit, input
  <2>3. PICK notReproduced \in BOOLEAN : Exit(ExitCode(notReproduced))
    BY <1>12 DEF Decide
  <2>4. ExitCode(notReproduced) # 4 => ~ mismatch /\ kernel # "refused"
    BY DEF ExitCode
  <2>5. kernel \in {"accepted", "refused", "skipped"}
    BY <1>12 DEF Decide, IInv, KernelInv
  <2>6. ExitInv'
    BY <1>12, <2>3, <2>4, <2>5 DEF Decide, ExitInv, Exit
  <2> QED BY <2>1, <2>2, <2>6 DEF IInv
<1>13. CASE UNCHANGED vars
  BY <1>13 DEF vars, IInv, CertifiedInv, KernelInv, ExitInv, Accepts
<1> QED
  BY <1>1, <1>2, <1>3, <1>4, <1>5, <1>6, <1>7, <1>8, <1>9, <1>10, <1>11, <1>12, <1>13 DEF Next

(* The invariant of the runs, for every worker, model and set of checks. *)
THEOREM AnalyzeInvariant == Spec => []IInv
BY InitIInv, StepIInv, PTL DEF Spec

(* Nothing the CLI calls proven is without a certificate of its own that   *)
(* Check.lean contains, and what the kernel accepted is true.              *)
THEOREM ProvenAlwaysCertified == Spec => []ProvenIsCertified
<1>1. IInv => ProvenIsCertified
  BY DEF IInv, CertifiedInv, KernelInv, ProvenIsCertified, Accepts
<1> QED BY <1>1, AnalyzeInvariant, PTL

(* A wrong reachable or winning set, or a certificate that does not hold,  *)
(* never ends in an exit code 0, 1 or 2 when the kernel runs.              *)
THEOREM WrongAnswersNeverPass == Spec => []WrongAnswerIsNoAnswer
<1>1. IInv => WrongAnswerIsNoAnswer
  BY DEF IInv, KernelInv, ExitInv, WrongAnswerIsNoAnswer
<1> QED BY <1>1, AnalyzeInvariant, PTL

-----------------------------------------------------------------------------
(* What the exit code says, for every truth and every set of checks.       *)
LEMMA InitRunInv == Init => RunInv
<1> SUFFICES ASSUME Init PROVE RunInv
  OBVIOUS
<1>1. InputInv
  BY DEF Init, InputInv
<1>2. VerdictInv
  BY DEF Init, VerdictInv, Running, Panic
<1>3. CutInv /\ TodoInv
  BY DEF Init, CutInv, TodoInv, Running
<1>4. HonestInv
  BY DEF Init, HonestInv
<1> QED BY <1>1, <1>2, <1>3, <1>4 DEF RunInv

(* Before the kernel is asked nothing is decided, and only a code that     *)
(* stands for no verdict is set.                                           *)
LEMMA EarlyVerdict ==
  ASSUME IInv, pc \notin {"kernel", "exit", "done"}, kernel' = kernel,
         code' = code \/ code' \in {3, Panic}
  PROVE  /\ VerdictInv' /\ code = Running /\ code' \in {Running, 3, Panic}
         /\ code' \notin {0, 1, 2, 4}
<1>1. kernel = "none" /\ kernel' = "none" /\ code = Running
  BY DEF IInv, KernelInv, ExitInv
<1> QED BY <1>1 DEF VerdictInv, Running, Panic

(* An answer is one of the wrong ones left, or it is right; a reply that   *)
(* was cut off never is wrong.                                             *)
LEMMA AnsweredFacts ==
  ASSUME InputInv, NEW right \in BOOLEAN, Answered(right)
  PROVE  /\ faults' \in Nat
         /\ faults' = 0 => faults = 0 /\ right
         /\ reply = "partial" => right
<1>1. CASE right
  BY <1>1 DEF Answered, InputInv
<1>2. CASE ~ right
  <2>1. reply = "answer" /\ faults' = faults + 1 /\ faults \in Nat
    BY <1>2 DEF Answered, InputInv
  <2> QED BY <2>1
<1> QED BY <1>1, <1>2

(* Findings and statuses are only added.                                   *)
LEMMA FindingsGrow ==
  ASSUME diags \subseteq diags', statuses \subseteq statuses'
  PROVE  (ViolationFound => ViolationFound') /\ (Unfinished => Unfinished')
BY DEF ViolationFound, Unfinished

LEMMA TruthFacts ==
  ASSUME InputInv
  PROVE  /\ run \in Run /\ {Covers, Greatest} \subseteq truth
         /\ BadReachable \in truth <=> BadUnreachable \notin truth
         /\ \A c \in Checks : /\ Unreachable(c) \in truth => NeverFails(c) \in truth
                              /\ MayFail(c) \in truth <=> NeverFails(c) \notin truth
BY ModelAssumption DEF InputInv, Consistent

LEMMA CallRunInv == IInv /\ RunInv /\ Call => RunInv'
<1> SUFFICES ASSUME IInv, RunInv, Call PROVE RunInv'
  OBVIOUS
<1>1. /\ pc \in {"call", "call-plant"} /\ UNCHANGED <<input, todo, diags, certs, statuses, mismatch, kernel, faults>>
      /\ \/ code' = 3 /\ pc' = "done" /\ UNCHANGED <<reply, cutoff>>
         \/ /\ reply' \in {"answer", "partial"}
            /\ cutoff' = (cutoff \/ reply' = "partial")
            /\ pc' = IF pc = "call" THEN "reach" ELSE "reach-plant"
            /\ UNCHANGED code
  BY DEF Call, Exit
<1>2. VerdictInv' /\ code = Running /\ code' \in {Running, 3, Panic} /\ code' \notin {0, 1, 2, 4}
  BY <1>1, EarlyVerdict
<1>3. InputInv'
  BY <1>1 DEF RunInv, InputInv, input
<1>4. CutInv'
  BY <1>1 DEF RunInv, CutInv, Unfinished
<1>5. TodoInv'
  BY <1>1, <1>2 DEF RunInv, TodoInv
<1>6. HonestInv'
  BY <1>1, <1>2 DEF RunInv, HonestInv, ViolationFound, Unfinished, input, Panic, Running
<1> QED BY <1>2, <1>3, <1>4, <1>5, <1>6 DEF RunInv

LEMMA ReachabilityRunInv == IInv /\ RunInv /\ Reachability => RunInv'
<1> SUFFICES ASSUME IInv, RunInv, Reachability PROVE RunInv'
  OBVIOUS
<1>1. PICK a \in ReachAnswers :
        /\ Answered(RightReach(a))
        /\ statuses' = statuses \cup {<<pc, a.status>>}
        /\ mismatch' = (mismatch \/ (a.status = "complete" /\ ~ a.right))
        /\ certs' = IF a.checked THEN certs \cup {Kept(pc, "model", a.cert)} ELSE certs
  BY DEF Reachability
<1>2. /\ pc \in {"reach", "reach-plant"}
      /\ pc' = IF pc = "reach" THEN "safety" ELSE "envelope"
      /\ UNCHANGED <<input, reply, cutoff, todo, diags, kernel, code>>
  BY DEF Reachability
<1>3. RightReach(a) \in BOOLEAN /\ InputInv
  BY DEF RightReach, RunInv
<1>4. /\ faults' \in Nat
      /\ faults' = 0 => faults = 0 /\ RightReach(a)
      /\ reply = "partial" => RightReach(a)
  BY <1>1, <1>3, AnsweredFacts
<1>5. VerdictInv' /\ code = Running /\ code' \notin {0, 1, 2, 4}
  BY <1>2, EarlyVerdict
<1>6. InputInv'
  BY <1>1, <1>2, <1>4 DEF RunInv, InputInv, input, Kept
<1>7. CutInv'
  <2>1. CASE reply = "partial"
    <3>1. <<pc, "partial">> \in statuses'
      BY <1>1, <1>4, <2>1 DEF RightReach
    <3> QED BY <3>1 DEF CutInv, Unfinished, Finished
  <2>2. CASE reply # "partial"
    BY <1>1, <1>2, <2>2 DEF RunInv, CutInv, Unfinished
  <2> QED BY <2>1, <2>2
<1>8. TodoInv'
  BY <1>2, <1>4, <1>5 DEF RunInv, TodoInv
<1>9. HonestInv'
  <2> SUFFICES ASSUME faults' = 0 PROVE HonestInv'
    BY DEF HonestInv
  <2>1. faults = 0 /\ ~ mismatch'
    BY <1>1, <1>4 DEF RunInv, HonestInv, RightReach
  <2>2. Unfinished => Unfinished'
    BY <1>1 DEF Unfinished
  <2> QED BY <1>2, <2>1, <2>2 DEF RunInv, HonestInv, ViolationFound, input
<1> QED BY <1>5, <1>6, <1>7, <1>8, <1>9 DEF RunInv

(* What a right safety answer makes of the truth.                          *)
LEMMA HonestSafety ==
  ASSUME InputInv, NEW a \in SafetyAnswers, RightSafety(a)
  PROVE  /\ SafetyFinding(a).evidence # "unchecked"
         /\ SafetyFinding(a).status = "proven" => SafetyFinding(a).claim \in truth
         /\ SafetyFinding(a).id = "spec-violation" => SafetyFinding(a).claim = BadReachable
         /\ run.spec /\ BadReachable \in truth =>
              \/ a.status \notin Finished
              \/ SafetyFinding(a).id = "spec-violation" /\ SafetyFinding(a).status = "proven"
<1>1. BadReachable \in truth <=> BadUnreachable \notin truth
  BY TruthFacts
<1>2. CASE a.status = "not-requested"
  <2>1. SafetyFinding(a) = Finding("safety", "model", BadReachable, "not-requested", "none")
    BY <1>2 DEF SafetyFinding
  <2>2. ~ run.spec
    BY <1>2 DEF RightSafety
  <2> QED BY <2>1, <2>2 DEF Finding
<1>3. CASE a.status \notin {"complete", "not-requested"}
  <2>1. SafetyFinding(a) = Finding("safety", "model", BadReachable, "unknown", "none")
    BY <1>3 DEF SafetyFinding
  <2>2. run.spec /\ BadReachable \in truth => a.status \notin Finished
    BY <1>3 DEF RightSafety, Finished
  <2> QED BY <2>1, <2>2 DEF Finding
<1>4. CASE a.status = "complete" /\ a.violation
  <2>1. a.checked /\ BadReachable \in truth
    BY <1>4 DEF RightSafety
  <2>2. SafetyFinding(a) = Finding("spec-violation", "model", BadReachable, "proven", "checked")
    BY <1>4, <2>1 DEF SafetyFinding
  <2> QED BY <2>1, <2>2 DEF Finding
<1>5. CASE a.status = "complete" /\ ~ a.violation
  <2>1. a.checked /\ BadReachable \notin truth
    BY <1>5 DEF RightSafety
  <2>2. SafetyFinding(a) = Finding("model-safe", "model", BadUnreachable, "proven", "checked")
    BY <1>5, <2>1 DEF SafetyFinding
  <2> QED BY <1>1, <2>1, <2>2 DEF Finding
<1> QED BY <1>2, <1>3, <1>4, <1>5

LEMMA SafetyRunInv == IInv /\ RunInv /\ Safety => RunInv'
<1> SUFFICES ASSUME IInv, RunInv, Safety PROVE RunInv'
  OBVIOUS
<1>1. PICK a \in SafetyAnswers :
        /\ Answered(RightSafety(a))
        /\ statuses' = statuses \cup {<<"safety", a.status>>}
        /\ LET violation == a.status = "complete" /\ a.violation
           IN  /\ IF violation /\ ~ a.inRange
                  THEN Exit(Panic) /\ UNCHANGED diags
                  ELSE /\ diags' = diags \cup {SafetyFinding(a)}
                       /\ pc' = "redundancy" /\ UNCHANGED code
               /\ certs' = IF violation \/ (a.status = "complete" /\ a.checked)
                           THEN certs \cup {Kept(SafetyFinding(a).id, "model", a.cert)}
                           ELSE certs
  BY DEF Safety
<1>2. /\ pc = "safety" /\ UNCHANGED <<input, reply, cutoff, todo, mismatch, kernel>>
      /\ diags \subseteq diags' /\ statuses \subseteq statuses'
      /\ \/ code' = code /\ pc' = "redundancy" /\ diags' = diags \cup {SafetyFinding(a)}
         \/ code' = Panic /\ pc' = "done" /\ diags' = diags
  BY <1>1 DEF Safety, Exit
<1>3. RightSafety(a) \in BOOLEAN /\ InputInv
  BY DEF RightSafety, RunInv
<1>4. /\ faults' \in Nat
      /\ faults' = 0 => faults = 0 /\ RightSafety(a)
      /\ reply = "partial" => RightSafety(a)
  BY <1>1, <1>3, AnsweredFacts
<1>5. VerdictInv' /\ code = Running /\ code' \notin {0, 1, 2, 4}
  BY <1>2, EarlyVerdict
<1>6. InputInv'
  <2>1. SafetyFinding(a).id # "check"
    <3>1. CASE a.status = "not-requested"
      BY <3>1 DEF SafetyFinding, Finding
    <3>2. CASE a.status \notin {"complete", "not-requested"}
      BY <3>2 DEF SafetyFinding, Finding
    <3>3. CASE a.status = "complete" /\ a.violation
      BY <3>3 DEF SafetyFinding, Finding
    <3>4. CASE a.status = "complete" /\ ~ a.violation
      BY <3>4 DEF SafetyFinding, Finding
    <3> QED BY <3>1, <3>2, <3>3, <3>4
  <2> QED BY <1>1, <1>2, <1>4, <2>1 DEF RunInv, InputInv, input, Kept
<1>7. CutInv'
  BY <1>1, <1>2, FindingsGrow DEF RunInv, CutInv
<1>8. TodoInv'
  BY <1>2, <1>4, <1>5 DEF RunInv, TodoInv
<1>9. HonestInv'
  <2> SUFFICES ASSUME faults' = 0 PROVE HonestInv'
    BY DEF HonestInv
  <2>1. faults = 0 /\ RightSafety(a) /\ run' = run /\ truth' = truth
    BY <1>2, <1>4 DEF input
  <2>2. CASE code' = Panic
    BY <1>2, <1>5, <2>1, <2>2 DEF RunInv, HonestInv, Running, Panic
  <2>3. CASE code' = code
    <3>1. diags' = diags \cup {SafetyFinding(a)}
      BY <1>2, <1>5, <2>3 DEF Running, Panic
    <3>3. /\ SafetyFinding(a).evidence # "unchecked"
          /\ SafetyFinding(a).status = "proven" => SafetyFinding(a).claim \in truth
          /\ SafetyFinding(a).id = "spec-violation" => SafetyFinding(a).claim = BadReachable
          /\ run.spec /\ BadReachable \in truth =>
               \/ a.status \notin Finished
               \/ SafetyFinding(a).id = "spec-violation" /\ SafetyFinding(a).status = "proven"
      BY <1>3, <2>1, HonestSafety
    <3>4. a.status \notin Finished => Unfinished'
      <4>1. <<"safety", a.status>> \in statuses'
        BY <1>1
      <4> QED BY <4>1 DEF Unfinished
    <3>5. SafetyFinding(a).id = "spec-violation" /\ SafetyFinding(a).status = "proven"
            => ViolationFound'
      BY <3>1 DEF ViolationFound
    <3> QED BY <1>2, <2>1, <3>1, <3>3, <3>4, <3>5 DEF RunInv, HonestInv
  <2> QED BY <1>2, <2>2, <2>3
<1> QED BY <1>5, <1>6, <1>7, <1>8, <1>9 DEF RunInv

LEMMA RedundancyUndecidedRunInv == IInv /\ RunInv /\ RedundancyUndecided => RunInv'
<1> SUFFICES ASSUME IInv, RunInv, RedundancyUndecided PROVE RunInv'
  OBVIOUS
<1> DEFINE Unknown(c) == Finding("check", c, NeverFails(c), "unknown", "none")
<1>1. PICK s \in Statuses \ {"complete"} :
        /\ Answered(reply = "partial" /\ s = "partial")
        /\ statuses' = statuses \cup {<<"redundancy", s>>}
  BY DEF RedundancyUndecided
<1>2. /\ pc = "redundancy" /\ UNCHANGED <<input, reply, cutoff, certs, mismatch, kernel, code>>
      /\ diags' = diags \cup {Unknown(c) : c \in Checks} /\ todo' = {}
      /\ pc' \in {"envelope", "call-plant"}
  BY DEF RedundancyUndecided, AfterRedundancy
<1>3. faults' \in Nat /\ (faults' = 0 => faults = 0)
  BY <1>1, AnsweredFacts DEF RunInv
<1>4. VerdictInv' /\ code = Running /\ code' \notin {0, 1, 2, 4}
  BY <1>2, EarlyVerdict
<1>5. InputInv'
  BY <1>2, <1>3 DEF RunInv, InputInv, input
<1>6. CutInv'
  BY <1>1, <1>2, FindingsGrow DEF RunInv, CutInv
<1>7. TodoInv'
  <2>1. \A c \in Checks : Unknown(c) \in diags' /\ Unknown(c).id = "check" /\ Unknown(c).of = c
    BY <1>2 DEF Finding
  <2> HIDE DEF Unknown
  <2> QED BY <1>2, <1>4, <2>1 DEF TodoInv
<1>8. HonestInv'
  <2>1. \A c \in Checks : /\ Unknown(c).id = "check" /\ Unknown(c).status = "unknown"
                         /\ Unknown(c).evidence = "none"
    BY DEF Finding
  <2> HIDE DEF Unknown
  <2> QED BY <1>1, <1>2, <1>3, <1>4, <2>1, FindingsGrow DEF RunInv, HonestInv, input, Running, Panic
<1> QED BY <1>4, <1>5, <1>6, <1>7, <1>8 DEF RunInv

LEMMA RedundancyDecidedRunInv == IInv /\ RunInv /\ RedundancyDecided => RunInv'
<1> SUFFICES ASSUME IInv, RunInv, RedundancyDecided PROVE RunInv'
  OBVIOUS
<1>1. /\ Answered(reply = "answer") /\ pc = "redundancy" /\ pc' = "checks"
      /\ statuses' = statuses \cup {<<"redundancy", "complete">>}
      /\ UNCHANGED <<input, reply, cutoff, todo, diags, certs, mismatch, kernel, code>>
  BY DEF RedundancyDecided
<1>2. faults' \in Nat /\ (faults' = 0 => faults = 0)
  BY <1>1, AnsweredFacts DEF RunInv
<1>3. VerdictInv' /\ code = Running /\ code' \notin {0, 1, 2, 4}
  BY <1>1, EarlyVerdict
<1>4. InputInv' /\ CutInv'
  BY <1>1, <1>2, FindingsGrow DEF RunInv, InputInv, CutInv, input
<1>5. TodoInv'
  BY <1>1, <1>2, <1>3 DEF RunInv, TodoInv
<1>6. HonestInv'
  BY <1>1, <1>2, <1>3, FindingsGrow DEF RunInv, HonestInv, input, Running, Panic
<1> QED BY <1>3, <1>4, <1>5, <1>6 DEF RunInv

LEMMA CheckRunInv ==
  ASSUME NEW c \in Checks, IInv, RunInv, Check(c)
  PROVE  RunInv'
<1> DEFINE claim(a) == IF a.verdict = "other" THEN NeverFails(c) ELSE About(a.verdict, c)
           new(a) == Finding("check", c, claim(a), CheckStatus(a),
                             IF a.checked THEN "checked" ELSE "none")
<1>1. PICK a \in CheckAnswers :
        /\ Answered(RightCheck(c, a)) /\ diags' = diags \cup {new(a)}
        /\ certs' = IF a.checked THEN certs \cup {Kept("check", c, a.cert)} ELSE certs
  BY DEF Check
<1>2. /\ pc = "checks" /\ pc' = pc /\ c \in todo /\ todo' = todo \ {c}
      /\ UNCHANGED <<input, pc, reply, cutoff, statuses, mismatch, kernel, code>>
  BY DEF Check
<1>3. RightCheck(c, a) \in BOOLEAN /\ InputInv
  BY DEF RightCheck, RunInv
<1>4. faults' \in Nat /\ (faults' = 0 => faults = 0 /\ RightCheck(c, a))
  BY <1>1, <1>3, AnsweredFacts
<1>5. VerdictInv' /\ code = Running /\ code' \notin {0, 1, 2, 4}
  BY <1>2, EarlyVerdict
<1>6. /\ new(a).id = "check" /\ new(a).of = c /\ new(a).evidence # "unchecked"
      /\ new(a).status = CheckStatus(a) /\ new(a).claim = claim(a)
  BY DEF Finding
<1>7. RightCheck(c, a) /\ CheckStatus(a) = "proven" => claim(a) \in truth
  <2> SUFFICES ASSUME RightCheck(c, a), CheckStatus(a) = "proven" PROVE claim(a) \in truth
    OBVIOUS
  <2>1. a.verdict \in {"never-fails", "unreachable"} /\ a.verdict # "other"
    BY DEF CheckStatus, CheckAnswers
  <2>2. claim(a) = About(a.verdict, c)
    BY <2>1
  <2>3. CASE Unreachable(c) \in truth
    <3>1. a.verdict = "unreachable"
      BY <2>3 DEF RightCheck
    <3> QED BY <2>2, <2>3, <3>1 DEF Unreachable
  <2>4. CASE Unreachable(c) \notin truth /\ NeverFails(c) \in truth
    <3>1. a.verdict = "never-fails"
      BY <2>4 DEF RightCheck
    <3> QED BY <2>2, <2>4, <3>1 DEF NeverFails
  <2>5. CASE Unreachable(c) \notin truth /\ NeverFails(c) \notin truth
    BY <2>1, <2>5 DEF RightCheck
  <2> QED BY <2>3, <2>4, <2>5
<1> HIDE DEF new, claim
<1>8. InputInv'
  BY <1>1, <1>2, <1>4 DEF RunInv, InputInv, input, Kept
<1>9. CutInv'
  BY <1>2 DEF RunInv, CutInv, Unfinished
<1>10. TodoInv'
  BY <1>1, <1>2, <1>4, <1>5, <1>6 DEF RunInv, TodoInv
<1>11. HonestInv'
  <2> SUFFICES ASSUME faults' = 0 PROVE HonestInv'
    BY DEF HonestInv
  <2>1. faults = 0 /\ RightCheck(c, a) /\ run' = run /\ truth' = truth
    BY <1>2, <1>4 DEF input
  <2>2. new(a).status = "proven" => new(a).claim \in truth
    BY <1>6, <1>7, <2>1
  <2>3. new(a).id # "spec-violation"
    BY <1>6
  <2>4. (ViolationFound => ViolationFound') /\ (Unfinished => Unfinished')
    BY <1>1, <1>2, FindingsGrow
  <2> QED BY <1>1, <1>2, <1>6, <2>1, <2>2, <2>3, <2>4 DEF RunInv, HonestInv
<1> QED BY <1>5, <1>8, <1>9, <1>10, <1>11 DEF RunInv

LEMMA CheckLeftOutRunInv ==
  ASSUME NEW c \in Checks, IInv, RunInv, CheckLeftOut(c)
  PROVE  RunInv'
<1>1. /\ pc = "checks" /\ c \in todo /\ todo' = todo \ {c} /\ faults' = faults + 1
      /\ UNCHANGED <<input, pc, reply, cutoff, diags, certs, statuses, kernel, code>>
  BY DEF CheckLeftOut, Answered
<1>2. faults' \in Nat /\ faults' # 0
  BY <1>1 DEF RunInv, InputInv
<1>3. VerdictInv' /\ code = Running /\ code' \notin {0, 1, 2, 4}
  BY <1>1, EarlyVerdict
<1>4. InputInv' /\ CutInv'
  BY <1>1, <1>2 DEF RunInv, InputInv, CutInv, Unfinished, input
<1>5. TodoInv' /\ HonestInv'
  BY <1>1, <1>2, <1>3 DEF RunInv, TodoInv, HonestInv
<1> QED BY <1>3, <1>4, <1>5 DEF RunInv

LEMMA ChecksReadRunInv == IInv /\ RunInv /\ ChecksRead => RunInv'
<1> SUFFICES ASSUME IInv, RunInv, ChecksRead PROVE RunInv'
  OBVIOUS
<1>1. /\ pc = "checks" /\ todo = {} /\ pc' \in {"envelope", "call-plant"}
      /\ UNCHANGED <<input, reply, cutoff, todo, diags, certs, statuses, mismatch, kernel,
                     faults, code>>
  BY DEF ChecksRead, AfterRedundancy
<1>2. VerdictInv' /\ code = Running /\ code' \notin {0, 1, 2, 4}
  BY <1>1, EarlyVerdict
<1>3. InputInv' /\ CutInv' /\ TodoInv'
  BY <1>1, <1>2 DEF RunInv, InputInv, CutInv, TodoInv, Unfinished, input
<1>4. HonestInv'
  BY <1>1, <1>2 DEF RunInv, HonestInv, ViolationFound, Unfinished, input
<1> QED BY <1>2, <1>3, <1>4 DEF RunInv

LEMMA EnvelopeRunInv == IInv /\ RunInv /\ Envelope => RunInv'
<1> SUFFICES ASSUME IInv, RunInv, Envelope PROVE RunInv'
  OBVIOUS
<1>1. PICK a \in EnvelopeAnswers :
        /\ Answered(RightEnvelope(a))
        /\ statuses' = statuses \cup {<<"envelope", a.status>>}
        /\ mismatch' = (mismatch \/ (EnvelopeDecides(a) /\ ~ a.right))
        /\ certs' = IF EnvelopeDecides(a)
                    THEN certs \cup {Kept("envelope", "model", a.cert)} ELSE certs
        /\ IF EnvelopeDecides(a) /\ ~ a.inRange
           THEN Exit(Panic) /\ UNCHANGED diags
           ELSE /\ diags' = diags \cup {EnvelopeFinding(a)}
                /\ pc' = IF EnvelopeDecides(a) /\ run.control # "none"
                         THEN "overrestriction" ELSE "kernel"
                /\ UNCHANGED code
  BY DEF Envelope
<1>2. /\ pc = "envelope" /\ UNCHANGED <<input, reply, cutoff, todo, kernel>>
      /\ \/ code' = code /\ pc' \in {"overrestriction", "kernel"}
            /\ diags' = diags \cup {EnvelopeFinding(a)}
         \/ code' = Panic /\ pc' = "done" /\ diags' = diags
  BY <1>1 DEF Envelope, Exit
<1>3. RightEnvelope(a) \in BOOLEAN /\ InputInv
  BY DEF RightEnvelope, RunInv
<1>4. faults' \in Nat /\ (faults' = 0 => faults = 0 /\ RightEnvelope(a))
  BY <1>1, <1>3, AnsweredFacts
<1>5. VerdictInv' /\ code = Running /\ code' \notin {0, 1, 2, 4}
  BY <1>2, EarlyVerdict
<1>6. InputInv'
  BY <1>1, <1>2, <1>4 DEF RunInv, InputInv, input, Kept
<1>7. CutInv'
  BY <1>1, <1>2 DEF RunInv, CutInv, Unfinished
<1>8. TodoInv'
  BY <1>2, <1>4, <1>5 DEF RunInv, TodoInv
<1>9. RightEnvelope(a) =>
        /\ EnvelopeFinding(a).id = "envelope" /\ EnvelopeFinding(a).evidence # "unchecked"
        /\ EnvelopeFinding(a).status = "proven" => EnvelopeFinding(a).claim \in truth
        /\ EnvelopeDecides(a) => a.right
  <2> SUFFICES ASSUME RightEnvelope(a)
               PROVE  /\ EnvelopeFinding(a).id = "envelope"
                      /\ EnvelopeFinding(a).evidence # "unchecked"
                      /\ EnvelopeFinding(a).status = "proven" => EnvelopeFinding(a).claim \in truth
                      /\ EnvelopeDecides(a) => a.right
    OBVIOUS
  <2>1. CASE EnvelopeDecides(a)
    <3>1. /\ a.right /\ a.checked
          /\ a.status = IF Unrealizable \in truth THEN "unrealizable" ELSE "complete"
      BY <2>1 DEF EnvelopeDecides, RightEnvelope
    <3>2. EnvelopeFinding(a) = Finding("envelope", "model",
                                 IF a.status = "complete" THEN Greatest ELSE Unrealizable,
                                 "proven", "checked")
      BY <2>1, <3>1 DEF EnvelopeFinding
    <3>3. Greatest \in truth
      BY <1>3, TruthFacts
    <3> QED BY <3>1, <3>2, <3>3 DEF Finding
  <2>2. CASE ~ EnvelopeDecides(a) /\ a.status = "not-requested"
    BY <2>2 DEF EnvelopeFinding, Finding
  <2>3. CASE ~ EnvelopeDecides(a) /\ a.status # "not-requested"
    BY <2>3 DEF EnvelopeFinding, Finding
  <2> QED BY <2>1, <2>2, <2>3
<1>10. HonestInv'
  <2> SUFFICES ASSUME faults' = 0 PROVE HonestInv'
    BY DEF HonestInv
  <2>1. faults = 0 /\ RightEnvelope(a) /\ run' = run /\ truth' = truth
    BY <1>2, <1>4 DEF input
  <2>2. (ViolationFound => ViolationFound') /\ (Unfinished => Unfinished')
    BY <1>1, <1>2, FindingsGrow
  <2>3. ~ mismatch'
    BY <1>1, <1>9, <2>1 DEF RunInv, HonestInv
  <2>4. \A d \in diags' \ diags : d = EnvelopeFinding(a)
    BY <1>2
  <2> QED BY <1>2, <1>5, <1>9, <2>1, <2>2, <2>3, <2>4 DEF RunInv, HonestInv, Running
<1> QED BY <1>5, <1>6, <1>7, <1>8, <1>10 DEF RunInv

LEMMA OverrestrictionRunInv == IInv /\ RunInv /\ Overrestriction => RunInv'
<1> SUFFICES ASSUME IInv, RunInv, Overrestriction PROVE RunInv'
  OBVIOUS
<1>1. /\ pc = "overrestriction" /\ pc' = "kernel"
      /\ diags \subseteq diags' /\ statuses \subseteq statuses'
      /\ \A d \in diags' \ diags : /\ d.id = "overrestriction" /\ d.evidence = "none"
                                   /\ d.status # "proven"
      /\ UNCHANGED <<input, reply, cutoff, todo, certs, mismatch, kernel, faults, code>>
  BY DEF Overrestriction, Finding
<1>2. VerdictInv' /\ code = Running /\ code' \notin {0, 1, 2, 4}
  BY <1>1, EarlyVerdict
<1>3. (ViolationFound => ViolationFound') /\ (Unfinished => Unfinished')
  BY <1>1, FindingsGrow
<1>4. InputInv' /\ CutInv' /\ TodoInv'
  BY <1>1, <1>2, <1>3 DEF RunInv, InputInv, CutInv, TodoInv, input
<1>5. HonestInv'
  BY <1>1, <1>2, <1>3 DEF RunInv, HonestInv, input, Running, Panic
<1> QED BY <1>2, <1>4, <1>5 DEF RunInv

LEMMA KernelRunInv == IInv /\ RunInv /\ Kernel => RunInv'
<1> SUFFICES ASSUME IInv, RunInv, Kernel PROVE RunInv'
  OBVIOUS
<1>1. /\ pc = "kernel"
      /\ UNCHANGED <<input, reply, cutoff, todo, diags, certs, statuses, mismatch, faults>>
      /\ \/ code' = 3 /\ pc' = "done" /\ kernel' = kernel
         \/ /\ run.kernel # "fails" /\ pc' = "exit" /\ code' = code
            /\ kernel' = CASE run.kernel = "skipped" -> "skipped"
                            [] KernelAccepts -> "accepted"
                            [] OTHER -> "refused"
  BY DEF Kernel, Exit
<1>2. kernel = "none" /\ code = Running
  BY <1>1 DEF IInv, KernelInv, ExitInv
<1>3. run.kernel \in {"runs", "short", "fails", "skipped"}
  BY TruthFacts DEF RunInv, Run
<1>4. kernel' = "refused" =>
        run.kernel = "short" \/ NamesClash \/ \E k \in certs : ~ Accepts(k.cert)
  BY <1>1, <1>2, <1>3 DEF KernelAccepts
<1>5. VerdictInv'
  BY <1>1, <1>2, <1>4 DEF VerdictInv, Running, Panic, NamesClash, Accepts, input
<1>6. InputInv' /\ CutInv' /\ TodoInv'
  BY <1>1, <1>2 DEF RunInv, InputInv, CutInv, TodoInv, Unfinished, input, Running
<1>7. HonestInv'
  BY <1>1, <1>2 DEF RunInv, HonestInv, ViolationFound, Unfinished, input, Running, Panic
<1> QED BY <1>5, <1>6, <1>7 DEF RunInv

LEMMA DecideRunInv == IInv /\ RunInv /\ Decide => RunInv'
<1> SUFFICES ASSUME IInv, RunInv, Decide PROVE RunInv'
  OBVIOUS
<1>1. /\ pc = "exit" /\ pc' = "done"
      /\ UNCHANGED <<input, reply, cutoff, todo, diags, certs, statuses, mismatch, kernel, faults>>
  BY DEF Decide, Exit
<1>2. PICK notReproduced \in BOOLEAN : code' = ExitCode(notReproduced)
  BY DEF Decide, Exit
<1>3. /\ code' \in {0, 1, 2, 4}
      /\ code' = 4 => mismatch \/ kernel = "refused" \/ \E d \in diags : d.evidence = "unchecked"
      /\ code' \in {0, 1} => ~ Undecided
      /\ code' = 0 => ~ ViolationFound
      /\ code' = 1 /\ ~ run.failOnCandidate => ViolationFound
  BY <1>2 DEF ExitCode, ViolationFound
<1>4. VerdictInv'
  BY <1>1, <1>3 DEF RunInv, VerdictInv, Undecided, ViolationFound, NamesClash, Accepts, input
<1>5. InputInv' /\ CutInv' /\ TodoInv'
  BY <1>1 DEF RunInv, InputInv, CutInv, TodoInv, Unfinished, input
<1>6. HonestInv'
  <2>1. code = Running
    BY <1>1 DEF IInv, ExitInv
  <2> QED BY <1>1, <2>1 DEF RunInv, HonestInv, ViolationFound, Unfinished, input, Running, Panic
<1> QED BY <1>4, <1>5, <1>6 DEF RunInv

LEMMA StepRunInv == IInv /\ RunInv /\ [Next]_vars => RunInv'
<1>1. ASSUME IInv, RunInv, UNCHANGED vars PROVE RunInv'
  <2>1. UNCHANGED <<run, truth, pc, reply, cutoff, todo, diags, certs, statuses, mismatch,
                    kernel, faults, code>>
    BY <1>1 DEF vars
  <2>2. VerdictInv'
    BY <1>1, <2>1 DEF RunInv, VerdictInv, Undecided, ViolationFound, NamesClash, Accepts
  <2>3. InputInv' /\ CutInv' /\ TodoInv'
    BY <1>1, <2>1 DEF RunInv, InputInv, CutInv, TodoInv, Unfinished
  <2>4. HonestInv'
    BY <1>1, <2>1 DEF RunInv, HonestInv, ViolationFound, Unfinished
  <2> QED BY <2>2, <2>3, <2>4 DEF RunInv
<1> QED BY <1>1, CallRunInv, ReachabilityRunInv, SafetyRunInv, RedundancyUndecidedRunInv,
           RedundancyDecidedRunInv, CheckRunInv, CheckLeftOutRunInv, ChecksReadRunInv,
           EnvelopeRunInv, OverrestrictionRunInv, KernelRunInv, DecideRunInv DEF Next

THEOREM RunInvariant == Spec => []RunInv
BY InitRunInv, StepRunInv, AnalyzeInvariant, PTL DEF Spec

(* From a worker that answers what it computed, whatever the model and     *)
(* however many checks it has, a finding that is called proven is true.    *)
THEOREM ProvenAlwaysTrue == Spec => []ProvenIsTrue
<1>1. RunInv => ProvenIsTrue
  BY DEF RunInv, HonestInv, ProvenIsTrue
<1> QED BY <1>1, RunInvariant, PTL

(* ... an exit code 0 hides no violation, and 1 is not raised without one. *)
THEOREM ExitAlwaysTellsTruth == Spec => []ExitTellsTruth
<1>1. RunInv /\ IInv => ExitTellsTruth
  <2> SUFFICES ASSUME RunInv, IInv, faults = 0
               PROVE  /\ code = 0 /\ run.spec => BadUnreachable \in truth
                      /\ code = 1 /\ ~ run.failOnCandidate => BadReachable \in truth
    BY DEF ExitTellsTruth
  <2>1. ASSUME code = 0, run.spec PROVE BadUnreachable \in truth
    <3>1. pc = "done" /\ ~ ViolationFound /\ ~ Unfinished
      BY <2>1 DEF RunInv, IInv, ExitInv, VerdictInv, Undecided, Unfinished, Running
    <3>2. BadReachable \notin truth
      BY <2>1, <3>1 DEF RunInv, HonestInv, Panic
    <3> QED BY <3>2, TruthFacts DEF RunInv
  <2>2. ASSUME code = 1, ~ run.failOnCandidate PROVE BadReachable \in truth
    BY <2>2 DEF RunInv, VerdictInv, HonestInv, ViolationFound
  <2> QED BY <2>1, <2>2
<1> QED BY <1>1, RunInvariant, AnalyzeInvariant, PTL

(* ... and no check of the model goes unmentioned.                         *)
THEOREM EveryCheckAlwaysAnswered == Spec => []EveryCheckAnswered
<1>1. RunInv => EveryCheckAnswered
  BY DEF RunInv, TodoInv, EveryCheckAnswered
<1> QED BY <1>1, RunInvariant, PTL

(* A run some call of which was cut off ends neither in 0 nor in 1, also   *)
(* when the other call's answers are wrong.                                *)
THEOREM CutOffAlwaysUndecided == Spec => []CutOffIsUndecided
<1>1. RunInv /\ IInv => CutOffIsUndecided
  <2> SUFFICES ASSUME RunInv, IInv, cutoff PROVE code \in {Running, 2, 3, 4, Panic}
    BY DEF CutOffIsUndecided
  <2>1. code \in {Running, 0, 1, 2, 3, 4, Panic}
    BY DEF RunInv, VerdictInv
  <2>2. ASSUME code \in {0, 1} PROVE FALSE
    <3>1. pc = "done" /\ ~ Unfinished
      BY <2>2 DEF RunInv, IInv, ExitInv, VerdictInv, Undecided, Unfinished, Running
    <3> QED BY <3>1 DEF RunInv, CutInv
  <2> QED BY <2>1, <2>2
<1> QED BY <1>1, RunInvariant, AnalyzeInvariant, PTL

(* Where every check has a name of its own, an honest worker is accused of *)
(* nothing the kernel had the time to check.                               *)
THEOREM FourAlwaysMeansRefused ==
  ASSUME \A c, d \in Checks : Ident[c] = Ident[d] => c = d
  PROVE  Spec => []FourMeansRefused
<1>1. RunInv => FourMeansRefused
  <2> SUFFICES ASSUME RunInv, faults = 0, code = 4
               PROVE  run.kernel = "short" \/ \E k \in certs : ~ Accepts(k.cert)
    BY DEF FourMeansRefused
  <2>1. kernel = "refused"
    BY DEF RunInv, VerdictInv, HonestInv
  <2>2. ~ NamesClash
    BY DEF RunInv, InputInv, NamesClash
  <2> QED BY <2>1, <2>2 DEF RunInv, VerdictInv
<1> QED BY <1>1, RunInvariant, PTL
=============================================================================
