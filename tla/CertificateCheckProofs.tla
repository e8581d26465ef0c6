----------------------- MODULE CertificateCheckProofs -----------------------
(***************************************************************************)
(* checkCertificate is sound for every plant and every certificate: what   *)
(* the checker accepts carries its claim.                                  *)
(***************************************************************************)
EXTENDS CertificateCheck, PlantTheorems

(* The certificates whose check is one evaluation.                         *)
LEMMA SetsSound ==
  ASSUME TypeOK, cert.kind \notin {"violation", "envelope"}, SetsOk
  PROVE  Claim
  <1>1. IsPlant(plant) /\ cert.kind \in Kinds
    BY DEF TypeOK, IsCertificate
  <1>2. IsClosed(plant, cert.states)
    BY <1>1 DEF SetsOk, CheckRedundancy, CheckUnreachable, Kinds
  <1>3. Reachable(plant) \subseteq cert.states
    BY <1>1, <1>2, ReachableLeast
  <1>4. CASE cert.kind = "reachability"
    BY <1>3, <1>4 DEF Claim
  <1>5. CASE cert.kind = "redundancy"
    BY <1>3, <1>5 DEF Claim, SetsOk, CheckRedundancy, NeverFailsOn
  <1>6. CASE cert.kind = "unreachable-check"
    BY <1>3, <1>6 DEF Claim, SetsOk, CheckUnreachable, NeverFailsOn, ReachedOn
  <1>7. QED
    BY <1>1, <1>4, <1>5, <1>6 DEF Kinds

(* One checked element of an envelope chain is F of the set before it.     *)
LEMMA ComparedIsStep ==
  ASSUME IInv, pc = "compare", cert.nonblocking => CoreachClosed(plant, u, s)
  PROVE  s = EnvStep(plant, cert.nonblocking, cert.chain[i])
  <1>1. u = UcFilter(plant, cert.chain[i]) /\ s \in SUBSET u
    BY DEF IInv, ChainInv, TypeOK
  <1>2. CASE cert.nonblocking
    <2>1. CoreachIn(plant, u) \subseteq s
      BY <1>1, <1>2, CoreachInLeast
    <2>2. s \subseteq CoreachIn(plant, u)
      BY <1>2 DEF IInv, ChainInv
    <2>3. QED
      BY <1>1, <1>2, <2>1, <2>2 DEF EnvStep
  <1>3. CASE ~ cert.nonblocking
    BY <1>1, <1>3 DEF IInv, ChainInv, EnvStep
  <1>4. QED
    BY <1>2, <1>3

LEMMA InitIInv == Init => IInv
  <1> SUFFICES ASSUME Init PROVE IInv
    OBVIOUS
  <1>1. IsPlant(plant) /\ IsCertificate(cert)
    BY InputAssumption DEF Init
  <1>2. QED
    BY <1>1 DEF Init, IInv, TypeOK, StartInv, PathInv, ChainInv, AcceptedIsTrue

LEMMA StartSteps ==
  ASSUME IInv, CheckSets \/ StartPath \/ StartChain
  PROVE  IInv'
  <1>1. /\ plant' = plant /\ cert' = cert /\ i' = i /\ u' = u /\ s' = s
        /\ cofuel' = cofuel /\ pc = "start" /\ i = 1
    BY DEF CheckSets, StartPath, StartChain, IInv, StartInv
  <1>2. TypeOK /\ IsPlant(plant) /\ i \in Nat \ {0} /\ IsCertificate(cert)
    BY DEF IInv, TypeOK
  <1>3. CASE pc' = "rejected"
    BY <1>1, <1>2, <1>3
       DEF IInv, TypeOK, StartInv, PathInv, ChainInv, AcceptedIsTrue
  <1>4. CASE CheckSets /\ pc' # "rejected"
    <2>1. pc' = "accepted" /\ SetsOk
      BY <1>4 DEF CheckSets, Verdict
    <2>2. Claim'
      BY <1>1, <1>2, <1>4, <2>1, SetsSound DEF CheckSets, Claim
    <2>3. QED
      BY <1>1, <1>2, <2>1, <2>2
         DEF IInv, TypeOK, StartInv, PathInv, ChainInv, AcceptedIsTrue
  <1>5. CASE StartPath /\ pc' # "rejected"
    <2>1. /\ cert.kind = "violation" /\ cert.path # << >> /\ pc' = "path"
          /\ cert.path[1].src \in plant.initial
      BY <1>5 DEF StartPath
    <2>2. Len(cert.path) \in Nat \ {0}
      BY <1>2, <2>1 DEF IsCertificate
    <2>3. cert.path[i].src \in Reachable(plant)
      BY <1>1, <1>2, <2>1, ReachableClosed DEF IsClosed
    <2>4. i' \in 1 .. Len(cert'.path)
      BY <1>1, <2>2
    <2>5. QED
      BY <1>1, <1>2, <2>1, <2>3, <2>4
         DEF IInv, TypeOK, StartInv, PathInv, ChainInv, AcceptedIsTrue
  <1>6. CASE StartChain /\ pc' # "rejected"
    <2>1. /\ cert.kind = "envelope" /\ cert.chain # << >> /\ pc' = "chain"
          /\ cert.chain[1] = InitialW(plant)
      BY <1>6 DEF StartChain
    <2>2. Len(cert.chain) \in Nat \ {0}
      BY <1>2, <2>1 DEF IsCertificate
    <2>3. KeepsGood'
      BY <1>1, <2>1 DEF KeepsGood
    <2>4. i' \in 1 .. Len(cert'.chain)
      BY <1>1, <2>2
    <2>5. QED
      BY <1>1, <1>2, <2>1, <2>3, <2>4
         DEF IInv, TypeOK, StartInv, PathInv, ChainInv, AcceptedIsTrue
  <1>7. QED
    BY <1>3, <1>4, <1>5, <1>6

LEMMA PathSteps ==
  ASSUME IInv, PathMiddle \/ PathEnd
  PROVE  IInv'
  <1>1. /\ plant' = plant /\ cert' = cert /\ u' = u /\ s' = s
        /\ cofuel' = cofuel /\ pc = "path"
    BY DEF PathMiddle, PathEnd
  <1>2. /\ TypeOK /\ IsPlant(plant) /\ IsCertificate(cert) /\ cert.kind = "violation"
        /\ i \in 1 .. Len(cert.path) /\ Len(cert.path) \in Nat
        /\ cert.path[i].src \in Reachable(plant)
    BY <1>1 DEF IInv, TypeOK, PathInv, IsCertificate
  <1>3. cert.path[i] \in plant.edges => cert.path[i].dst \in Reachable(plant)
    BY <1>2, ReachableClosed DEF IsClosed, Post
  <1>4. CASE PathEnd
    <2>1. pc' \in {"accepted", "rejected"} /\ i' = i
      BY <1>4 DEF PathEnd, Verdict
    <2>2. pc' = "accepted" => Claim'
      BY <1>1, <1>2, <1>3, <1>4 DEF PathEnd, Verdict, Claim
    <2>3. QED
      BY <1>1, <1>2, <2>1, <2>2
         DEF IInv, TypeOK, StartInv, PathInv, ChainInv, AcceptedIsTrue
  <1>5. CASE PathMiddle /\ pc' = "rejected"
    <2>1. i' = i
      BY <1>1, <1>5 DEF PathMiddle
    <2>2. QED
      BY <1>1, <1>2, <1>5, <2>1
         DEF IInv, TypeOK, StartInv, PathInv, ChainInv, AcceptedIsTrue
  <1>6. CASE PathMiddle /\ pc' # "rejected"
    <2>1. /\ pc' = "path" /\ i' = i + 1 /\ i < Len(cert.path)
          /\ cert.path[i] \in plant.edges /\ cert.path[i].dst = cert.path[i + 1].src
      BY <1>1, <1>6 DEF PathMiddle
    <2>2. i' \in 1 .. Len(cert.path) /\ i' \in Nat \ {0}
      BY <1>2, <2>1
    <2>3. cert'.path[i'].src \in Reachable(plant')
      BY <1>1, <1>3, <2>1
    <2>4. QED
      BY <1>1, <1>2, <2>1, <2>2, <2>3
         DEF IInv, TypeOK, StartInv, PathInv, ChainInv, AcceptedIsTrue
  <1>7. QED
    BY <1>4, <1>5, <1>6

LEMMA ElementSteps ==
  ASSUME IInv, ChainElement \/ CoreachRound \/ CoreachStop
  PROVE  IInv'
  <1>1. /\ plant' = plant /\ cert' = cert /\ i' = i
        /\ pc \in {"chain", "coreach"} /\ pc' \in {"coreach", "compare"}
    BY DEF ChainElement, CoreachRound, CoreachStop
  <1>2. /\ TypeOK /\ IsPlant(plant) /\ plant.numStates \in Nat /\ IsCertificate(cert)
        /\ cert.kind = "envelope" /\ cert.nonblocking \in BOOLEAN
        /\ cert.chain[i] \subseteq InitialW(plant) /\ KeepsGood
    BY <1>1 DEF IInv, TypeOK, ChainInv, IsPlant, IsCertificate
  <1>3. KeepsGood' /\ cert'.chain[i'] \subseteq InitialW(plant')
    BY <1>1, <1>2 DEF KeepsGood
  <1>4. /\ u' = UcFilter(plant, cert.chain[i]) /\ s' \subseteq u'
        /\ pc' = "coreach" => cert.nonblocking
        /\ IF cert.nonblocking THEN s' \subseteq CoreachIn(plant, u') ELSE s' = u'
    <2>1. CASE ChainElement
      <3>1. MarkedIn(plant, u') \subseteq CoreachIn(plant, u') /\ MarkedIn(plant, u') \subseteq u'
        BY CoreachInClosed DEF CoreachClosed, MarkedIn
      <3>2. QED
        BY <2>1, <3>1 DEF ChainElement
    <2>2. CASE CoreachRound
      <3>1. s \subseteq CoreachIn(plant, u) /\ cert.nonblocking /\ s \subseteq u
            /\ u = UcFilter(plant, cert.chain[i])
        BY <2>2 DEF CoreachRound, IInv, ChainInv, TypeOK
      <3>2. PreIn(plant, u, s) \subseteq PreIn(plant, u, CoreachIn(plant, u))
        BY <3>1 DEF PreIn
      <3>3. PreIn(plant, u, s) \subseteq CoreachIn(plant, u) /\ PreIn(plant, u, s) \subseteq u
        BY <3>2, CoreachInClosed DEF CoreachClosed, PreIn
      <3>4. QED
        BY <2>2, <3>1, <3>3 DEF CoreachRound
    <2>3. CASE CoreachStop
      BY <2>3 DEF CoreachStop, IInv, ChainInv, TypeOK
    <2>4. QED
      BY <2>1, <2>2, <2>3
  <1>5. cofuel' \in Nat
    BY <1>2 DEF ChainElement, CoreachRound, CoreachStop, TypeOK
  <1>6. u' \subseteq States(plant)
    BY <1>2, <1>4 DEF UcFilter, InitialW
  <1>7. TypeOK'
    BY <1>1, <1>2, <1>4, <1>5, <1>6 DEF TypeOK
  <1>8. QED
    BY <1>1, <1>3, <1>4, <1>7 DEF IInv, StartInv, PathInv, ChainInv, AcceptedIsTrue

LEMMA CompareStep ==
  ASSUME IInv, Compare
  PROVE  IInv'
  <1> DEFINE nb == cert.nonblocking
             W == cert.chain[i]
             ok == (nb => CoreachClosed(plant, u, s)) /\ s = Target
  <1>1. /\ plant' = plant /\ cert' = cert /\ u' = u /\ s' = s /\ cofuel' = cofuel
        /\ pc = "compare"
    BY DEF Compare
  <1>2. /\ TypeOK /\ IsPlant(plant) /\ IsCertificate(cert) /\ cert.kind = "envelope"
        /\ nb \in BOOLEAN /\ i \in 1 .. Len(cert.chain) /\ Len(cert.chain) \in Nat
        /\ W \subseteq InitialW(plant) /\ KeepsGood
    BY <1>1 DEF IInv, TypeOK, ChainInv, IsCertificate
  <1>3. ok => s = EnvStep(plant, nb, W)
    BY <1>1, ComparedIsStep
  <1>4. CASE ok /\ i < Len(cert.chain)
    <2>1. pc' = "chain" /\ i' = i + 1 /\ cert.chain[i + 1] = EnvStep(plant, nb, W)
      BY <1>3, <1>4 DEF Compare, Target
    <2>2. cert.chain[i + 1] \subseteq InitialW(plant)
      BY <1>2, <2>1, EnvStepShrinks
    <2>3. KeepsGood'
      BY <1>1, <1>2, <2>1, GoodSurvivesStep DEF KeepsGood
    <2>4. i' \in 1 .. Len(cert.chain) /\ i' \in Nat \ {0}
      BY <1>2, <1>4, <2>1
    <2>5. QED
      BY <1>1, <1>2, <2>1, <2>2, <2>3, <2>4
         DEF IInv, TypeOK, StartInv, PathInv, ChainInv, AcceptedIsTrue
  <1>5. CASE ~ (ok /\ i < Len(cert.chain))
    <2>1. pc' = (IF ok THEN "accepted" ELSE "rejected") /\ i' = i
      BY <1>5 DEF Compare, Verdict
    <2>2. ASSUME ok PROVE Claim
      <3>1. i = Len(cert.chain) /\ Target = W
        BY <1>2, <1>5, <2>2 DEF Target
      <3>2. EnvStep(plant, nb, W) = W
        BY <1>3, <2>2, <3>1
      <3>3. Good(plant, nb, W)
        BY <1>2, <3>2, FixpointIsGood
      <3>4. W = Envelope(plant, nb)
        BY <1>2, <3>3, GreatestIsEnvelope DEF KeepsGood
      <3>5. QED
        BY <1>2, <3>1, <3>3, <3>4 DEF Claim
    <2>3. pc' = "accepted" => Claim'
      BY <1>1, <2>1, <2>2 DEF Claim
    <2>4. pc' \in {"accepted", "rejected"}
      BY <2>1
    <2>5. QED
      BY <1>1, <1>2, <2>1, <2>3, <2>4
         DEF IInv, TypeOK, StartInv, PathInv, ChainInv, AcceptedIsTrue
  <1>6. QED
    BY <1>4, <1>5

LEMMA StepIInv == IInv /\ [Next]_vars => IInv'
  <1>1. ASSUME IInv, UNCHANGED vars PROVE IInv'
    BY <1>1 DEF IInv, vars, TypeOK, StartInv, PathInv, ChainInv, KeepsGood,
                AcceptedIsTrue, Claim
  <1>2. QED
    BY <1>1, StartSteps, PathSteps, ElementSteps, CompareStep DEF Next

(* checkCertificate_sound: whatever certificate is handed to the checker,  *)
(* on whatever plant, acceptance implies the claim of its kind.            *)
THEOREM CheckerSound == Spec => []AcceptedIsTrue
  <1>1. IInv => AcceptedIsTrue
    BY DEF IInv
  <1>2. QED
    BY InitIInv, StepIInv, <1>1, PTL DEF Spec

-----------------------------------------------------------------------------
(* Completeness for envelope chains: the saturation inside each step has   *)
(* fuel for every state there is, so it never stops early and every set it *)
(* compares with is F of the set before.                                   *)

LEMMA FuelStep ==
  ASSUME IInv, FuelInv, [Next]_vars
  PROVE  FuelInv'
  <1>1. /\ IsPlant(plant) /\ plant.numStates \in Nat /\ cofuel \in Nat
        /\ u \in SUBSET States(plant) /\ s \in SUBSET u
    BY DEF IInv, TypeOK, IsPlant
  <1>2. CASE UNCHANGED vars
    BY <1>2 DEF vars, FuelInv
  <1>3. CASE CheckSets \/ StartPath \/ PathMiddle \/ PathEnd \/ StartChain \/ Compare
    <2>1. pc' \notin {"coreach", "compare"}
      BY <1>3 DEF CheckSets, StartPath, PathMiddle, PathEnd, StartChain, Compare, Verdict
    <2>2. QED
      BY <2>1 DEF FuelInv
  <1>4. CASE ChainElement
    <2>1. plant' = plant /\ cert' = cert
      BY <1>4 DEF ChainElement
    <2>2. CASE cert.nonblocking
      <3>1. /\ u' = UcFilter(plant, cert.chain[i]) /\ s' = MarkedIn(plant, u')
            /\ cofuel' = plant.numStates + 1 /\ pc' = "coreach"
        BY <1>4, <2>2 DEF ChainElement
      <3>2. u' \subseteq States(plant)
        BY <1>4, <2>1, ElementSteps DEF IInv, TypeOK
      <3>3. s' \in SUBSET States(plant)
        BY <3>1, <3>2 DEF MarkedIn
      <3>4. Cardinality(s') \in Nat
        BY <1>1, <3>3, SmallerSet
      <3>5. QED
        BY <1>1, <2>1, <3>1, <3>4 DEF FuelInv
    <2>3. CASE ~ cert.nonblocking
      <3>1. pc' = "compare"
        BY <1>4, <2>3 DEF ChainElement
      <3>2. QED
        BY <2>1, <2>3, <3>1 DEF FuelInv
    <2>4. QED
      BY <2>2, <2>3
  <1>5. CASE CoreachRound
    <2>1. /\ plant' = plant /\ cert' = cert /\ u' = u /\ pc = "coreach" /\ pc' = pc
          /\ s' = s \cup PreIn(plant, u, s) /\ cofuel' = cofuel - 1 /\ cofuel > 0
          /\ ~ (PreIn(plant, u, s) \subseteq s)
      BY <1>5 DEF CoreachRound
    <2>2. s' \in SUBSET States(plant) /\ s \in SUBSET s' /\ s # s'
      BY <1>1, <2>1 DEF PreIn
    <2>3. /\ Cardinality(s) \in Nat /\ Cardinality(s') \in Nat
          /\ Cardinality(s) < Cardinality(s')
      BY <1>1, <2>2, SmallerSet
    <2>4. MarkedIn(plant, u) \subseteq s /\ cofuel + Cardinality(s) > plant.numStates
      BY <2>1 DEF FuelInv
    <2>5. cofuel' + Cardinality(s') > plant.numStates
      BY <1>1, <2>1, <2>3, <2>4
    <2>6. QED
      BY <2>1, <2>4, <2>5 DEF FuelInv
  <1>6. CASE CoreachStop
    <2>1. /\ plant' = plant /\ cert' = cert /\ u' = u /\ s' = s
          /\ pc = "coreach" /\ pc' = "compare"
      BY <1>6 DEF CoreachStop
    <2>2. MarkedIn(plant, u) \subseteq s /\ cofuel + Cardinality(s) > plant.numStates
      BY <2>1 DEF FuelInv
    <2>3. Cardinality(s) \in Nat /\ Cardinality(s) <= plant.numStates
      <3>1. s \in SUBSET States(plant) /\ s \in SUBSET s
        BY <1>1
      <3>2. QED
        BY <1>1, <3>1, SmallerSet
    <2>4. cofuel > 0
      BY <1>1, <2>2, <2>3
    <2>5. CoreachClosed(plant, u, s)
      BY <1>6, <2>2, <2>4 DEF CoreachStop, CoreachClosed
    <2>6. QED
      BY <2>1, <2>5 DEF FuelInv
  <1>7. QED
    BY <1>2, <1>3, <1>4, <1>5, <1>6 DEF Next

(* A rejection names a place where the chain is wrong.                     *)
LEMMA RejectionHasReason ==
  ASSUME IInv, FuelInv, TrueChainAccepted, [Next]_vars
  PROVE  TrueChainAccepted'
  <1> SUFFICES ASSUME pc' = "rejected", cert'.kind = "envelope", cert'.chain # << >>
               PROVE  ChainIsWrong'
    BY DEF TrueChainAccepted
  <1>1. plant' = plant /\ cert' = cert
    BY DEF Next, vars, CheckSets, StartPath, PathMiddle, PathEnd, StartChain,
           ChainElement, CoreachRound, CoreachStop, Compare
  <1> SUFFICES ChainIsWrong
    BY <1>1 DEF ChainIsWrong
  <1>2. cert.kind = "envelope" /\ cert.chain # << >>
    BY <1>1
  <1>3. CASE UNCHANGED vars
    BY <1>2, <1>3 DEF vars, TrueChainAccepted
  <1>4. CASE CheckSets \/ StartPath \/ PathMiddle \/ PathEnd
    BY <1>2, <1>4 DEF CheckSets, StartPath, PathMiddle, PathEnd, IInv, TypeOK
  <1>5. CASE StartChain
    BY <1>2, <1>5 DEF StartChain, ChainIsWrong
  <1>6. CASE ChainElement \/ CoreachRound \/ CoreachStop
    BY <1>6 DEF ChainElement, CoreachRound, CoreachStop
  <1>7. CASE Compare
    <2>1. pc = "compare"
      BY <1>7 DEF Compare
    <2>2. cert.nonblocking => CoreachClosed(plant, u, s)
      BY <2>1 DEF FuelInv
    <2>3. s = EnvStep(plant, cert.nonblocking, cert.chain[i])
      BY <2>1, <2>2, ComparedIsStep
    <2>4. s # Target
      BY <1>7, <2>2 DEF Compare, Verdict
    <2>5. i \in 1 .. Len(cert.chain) /\ Len(cert.chain) \in Nat
      BY <2>1, <1>2 DEF IInv, TypeOK, IsCertificate
    <2>6. CASE i < Len(cert.chain)
      <3>1. i \in 1 .. (Len(cert.chain) - 1)
        BY <2>5, <2>6
      <3>2. cert.chain[i + 1] # EnvStep(plant, cert.nonblocking, cert.chain[i])
        BY <2>3, <2>4, <2>6 DEF Target
      <3>3. QED
        BY <3>1, <3>2 DEF ChainIsWrong
    <2>7. CASE i = Len(cert.chain)
      BY <2>3, <2>4, <2>7 DEF Target, ChainIsWrong
    <2>8. QED
      BY <2>5, <2>6, <2>7
  <1>8. QED
    BY <1>3, <1>4, <1>5, <1>6, <1>7 DEF Next

(* Whatever the plant, the chain of its own envelope iterates is accepted: *)
(* a rejected chain starts, steps or ends elsewhere.                       *)
THEOREM TrueChainsAlwaysAccepted == Spec => []TrueChainAccepted
  <1> DEFINE J == IInv /\ FuelInv /\ TrueChainAccepted
  <1>1. Init => J
    BY InitIInv DEF Init, FuelInv, TrueChainAccepted
  <1>2. J /\ [Next]_vars => J'
    BY StepIInv, FuelStep, RejectionHasReason
  <1>3. J => TrueChainAccepted
    OBVIOUS
  <1> HIDE DEF J
  <1>4. QED
    BY <1>1, <1>2, <1>3, PTL DEF Spec
=============================================================================
