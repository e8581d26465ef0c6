-------------------------- MODULE CrossCheckProofs --------------------------
(***************************************************************************)
(* The envelope computation of mulu-worker, proved for every plant: it     *)
(* never discards a state of a good set, its fuel always suffices, and     *)
(* what it announces is the union of all good sets.  Then the cross-checks *)
(* never fail on correct computations: the worker's saturation and the     *)
(* reference's edge passes both compute the reachable set, and the         *)
(* reference envelope, built edge by edge in any order of the edge list,   *)
(* is the greatest good set as well.  The facts proved about each          *)
(* computation alone are carried to the composition, and there every step  *)
(* is shown to lower a rank, so that no loop goes on for ever.             *)
(***************************************************************************)
EXTENDS CrossCheck, PlantTheorems

-----------------------------------------------------------------------------
(* The worker's envelope. *)

LEMMA ChainInitInv == ChainInit => ChainIInv
  <1> SUFFICES ASSUME ChainInit PROVE ChainIInv
    OBVIOUS
  <1>1. IsPlant(plant)
    BY PlantsAssumption DEF ChainInit, ChainStart, RequestInit
  <1>2. plant.numStates \in Nat /\ InitialW(plant) \subseteq States(plant)
    BY <1>1 DEF IsPlant, InitialW
  <1>3. ChainTypeOK
    BY <1>1, <1>2 DEF ChainInit, ChainStart, RequestInit, ChainTypeOK
  <1>4. NothingGoodLost
    BY DEF ChainInit, ChainStart, RequestInit, NothingGoodLost
  <1>5. FuelInv
    BY <1>1, <1>2, SmallerSet DEF ChainInit, ChainStart, RequestInit, FuelInv
  <1>6. PhaseInv /\ ChainInv
    BY DEF ChainInit, ChainStart, RequestInit, PhaseInv, ChainInv
  <1>7. QED
    BY <1>3, <1>4, <1>5, <1>6 DEF ChainInit, ChainStart, RequestInit, ChainIInv

(* The invariant with the fuel turned into facts about the next step.      *)
LEMMA FuelLeft ==
  ASSUME ChainIInv
  PROVE  FuelSuffices
  <1>1. Cardinality(w) \in Nat /\ Cardinality(s) \in Nat /\ Cardinality(s) <= plant.numStates
    BY SmallerSet DEF ChainIInv, ChainTypeOK
  <1>2. plant.numStates \in Nat /\ fuel \in Nat /\ cofuel \in Nat
    BY DEF ChainIInv, ChainTypeOK, IsPlant
  <1>3. QED
    BY <1>1, <1>2 DEF ChainIInv, FuelInv, FuelSuffices

(* Recording one more set keeps the chain a chain of envelope steps.       *)
LEMMA ChainExtends ==
  ASSUME ChainTypeOK, ChainInv, chainPc # "done", chain' = Append(chain, w),
         plant' = plant, nb' = nb
  PROVE  /\ chain' # << >>
         /\ chain'[1] = InitialW(plant)
         /\ chain'[Len(chain')] = w
         /\ \A i \in 1 .. (Len(chain') - 1) :
               chain'[i + 1] = EnvStep(plant, nb, chain'[i])
  <1>1. chain \in Seq(SUBSET States(plant)) /\ w \in SUBSET States(plant)
    BY DEF ChainTypeOK
  <1>2. /\ Len(chain) \in Nat /\ Len(chain') = Len(chain) + 1
        /\ chain'[Len(chain) + 1] = w
        /\ \A i \in 1 .. Len(chain) : chain'[i] = chain[i]
    BY <1>1
  <1>3. CASE chain = << >>
    BY <1>2, <1>3 DEF ChainInv
  <1>4. CASE chain # << >>
    <2>1. Len(chain) \in Nat \ {0}
      BY <1>1, <1>4
    <2>2. ASSUME NEW i \in 1 .. (Len(chain') - 1)
          PROVE  chain'[i + 1] = EnvStep(plant, nb, chain'[i])
      <3>1. CASE i = Len(chain)
        BY <1>2, <1>4, <2>1, <3>1 DEF ChainInv
      <3>2. CASE i # Len(chain)
        <4>1. i \in 1 .. (Len(chain) - 1) /\ i + 1 \in 1 .. Len(chain)
          BY <1>2, <3>2
        <4>2. QED
          BY <1>2, <4>1 DEF ChainInv
      <3>3. QED
        BY <3>1, <3>2
    <2>3. QED
      BY <1>2, <1>4, <2>1, <2>2 DEF ChainInv
  <1>5. QED
    BY <1>3, <1>4

LEMMA FilterStep ==
  ASSUME ChainIInv, Filter
  PROVE  ChainIInv'
  <1>1. ChainTypeOK /\ IsPlant(plant) /\ plant.numStates \in Nat
    BY DEF ChainIInv, ChainTypeOK, IsPlant
  <1>2. plant' = plant /\ nb' = nb /\ w' = w /\ fuel' = fuel /\ chain' = chain
    BY DEF Filter
  <1>3. u' = UcFilter(plant, w) /\ u' \subseteq States(plant)
    BY <1>1 DEF Filter, UcFilter, ChainTypeOK
  <1>4. s' \subseteq u'
    BY DEF Filter, MarkedIn
  <1>5. ChainTypeOK'
    BY <1>1, <1>2, <1>3, <1>4 DEF ChainTypeOK, Filter
  <1>6. PhaseInv'
    <2>1. CASE nb
      BY <1>2, <1>3, <2>1, CoreachInClosed DEF Filter, PhaseInv, CoreachClosed
    <2>2. CASE ~ nb
      BY <1>2, <1>3, <2>2 DEF Filter, PhaseInv, EnvStep
    <2>3. QED
      BY <2>1, <2>2
  <1>7. FuelInv'
    <2>1. IsPlant(plant') /\ s' \in SUBSET States(plant')
      BY <1>5 DEF ChainTypeOK
    <2>2. Cardinality(s') \in Nat
      BY <2>1, SmallerSet
    <2>3. fuel > Cardinality(w)
      BY DEF ChainIInv, FuelInv, Filter
    <2>4. chainPc' = "coreach" => cofuel' = plant.numStates + 1
      BY DEF Filter
    <2>5. QED
      BY <1>1, <1>2, <2>2, <2>3, <2>4 DEF FuelInv
  <1>8. ChainInv'
    BY <1>2 DEF ChainIInv, ChainInv, Filter
  <1>9. NothingGoodLost' /\ w' \subseteq InitialW(plant')
    BY <1>2 DEF ChainIInv, NothingGoodLost
  <1>10. QED
    BY <1>5, <1>6, <1>7, <1>8, <1>9 DEF ChainIInv

LEMMA CoreachRoundStep ==
  ASSUME ChainIInv, CoreachRound
  PROVE  ChainIInv'
  <1> DEFINE P == PreIn(plant, u, s)
  <1>1. ChainTypeOK /\ IsPlant(plant) /\ plant.numStates \in Nat /\ cofuel \in Nat
    BY DEF ChainIInv, ChainTypeOK, IsPlant
  <1>2. /\ plant' = plant /\ nb' = nb /\ w' = w /\ u' = u /\ chainPc' = chainPc
        /\ fuel' = fuel /\ chain' = chain /\ s' = s \cup P /\ cofuel' = cofuel - 1
        /\ chainPc = "coreach" /\ cofuel > 0 /\ ~ (P \subseteq s)
    BY DEF CoreachRound
  <1>3. P \subseteq u
    BY DEF PreIn
  <1>4. ChainTypeOK'
    BY <1>1, <1>2, <1>3 DEF ChainTypeOK
  <1>5. PhaseInv'
    <2>1. s \subseteq CoreachIn(plant, u) /\ MarkedIn(plant, u) \subseteq s
      BY <1>2 DEF ChainIInv, PhaseInv
    <2>2. P \subseteq PreIn(plant, u, CoreachIn(plant, u))
      BY <2>1 DEF PreIn
    <2>3. P \subseteq CoreachIn(plant, u)
      BY <2>2, CoreachInClosed DEF CoreachClosed
    <2>4. QED
      BY <1>2, <2>1, <2>3 DEF ChainIInv, PhaseInv
  <1>6. FuelInv'
    <2>1. s' \in SUBSET States(plant) /\ s \in SUBSET s' /\ s # s'
      BY <1>2, <1>4 DEF ChainTypeOK
    <2>2. /\ Cardinality(s) \in Nat /\ Cardinality(s') \in Nat
          /\ Cardinality(s) < Cardinality(s')
      BY <1>1, <2>1, SmallerSet
    <2>3. cofuel + Cardinality(s) > plant.numStates
      BY <1>2 DEF ChainIInv, FuelInv
    <2>4. cofuel' + Cardinality(s') > plant'.numStates
      BY <1>1, <1>2, <2>2, <2>3
    <2>5. QED
      BY <1>2, <2>4 DEF ChainIInv, FuelInv
  <1>7. ChainInv'
    BY <1>2 DEF ChainIInv, ChainInv
  <1>8. NothingGoodLost' /\ w' \subseteq InitialW(plant')
    BY <1>2 DEF ChainIInv, NothingGoodLost
  <1>9. QED
    BY <1>4, <1>5, <1>6, <1>7, <1>8 DEF ChainIInv

LEMMA CoreachStopStep ==
  ASSUME ChainIInv, CoreachStop
  PROVE  ChainIInv'
  <1>1. ChainTypeOK /\ FuelSuffices
    BY FuelLeft DEF ChainIInv
  <1>2. /\ plant' = plant /\ nb' = nb /\ w' = w /\ u' = u /\ s' = s
        /\ fuel' = fuel /\ cofuel' = cofuel /\ chain' = chain
        /\ chainPc = "coreach" /\ chainPc' = "compare"
    BY DEF CoreachStop
  <1>3. PreIn(plant, u, s) \subseteq s
    BY <1>1 DEF CoreachStop, FuelSuffices
  <1>4. nb /\ u = UcFilter(plant, w) /\ MarkedIn(plant, u) \subseteq s
        /\ s \subseteq CoreachIn(plant, u)
    BY <1>2 DEF ChainIInv, PhaseInv
  <1>5. s \in SUBSET u
    BY <1>4 DEF CoreachIn
  <1>6. CoreachIn(plant, u) \subseteq s
    BY <1>3, <1>4, <1>5, CoreachInLeast DEF CoreachClosed
  <1>7. s = EnvStep(plant, nb, w)
    BY <1>4, <1>6 DEF EnvStep
  <1>8. PhaseInv'
    BY <1>2, <1>4, <1>7 DEF PhaseInv
  <1>9. ChainTypeOK' /\ ChainInv' /\ NothingGoodLost' /\ w' \subseteq InitialW(plant')
    BY <1>1, <1>2 DEF ChainIInv, ChainTypeOK, ChainInv, NothingGoodLost
  <1>10. FuelInv'
    BY <1>2 DEF ChainIInv, FuelInv
  <1>11. QED
    BY <1>8, <1>9, <1>10 DEF ChainIInv

LEMMA ShrinkStep ==
  ASSUME ChainIInv, Shrink
  PROVE  ChainIInv'
  <1>1. ChainTypeOK /\ ChainInv /\ IsPlant(plant) /\ plant.numStates \in Nat /\ nb \in BOOLEAN
    BY DEF ChainIInv, ChainTypeOK, IsPlant
  <1>2. /\ plant' = plant /\ nb' = nb /\ w' = s /\ u' = u /\ s' = s
        /\ fuel' = fuel - 1 /\ cofuel' = cofuel /\ chain' = Append(chain, w)
        /\ chainPc = "compare" /\ chainPc' = "filter" /\ s # w
    BY DEF Shrink
  <1>3. s = EnvStep(plant, nb, w) /\ s \subseteq w
    BY <1>1, <1>2, EnvStepShrinks DEF ChainIInv, PhaseInv
  <1>4. fuel > Cardinality(w) /\ fuel \in Nat /\ Cardinality(w) \in Nat
        /\ Cardinality(s) \in Nat /\ Cardinality(s) < Cardinality(w)
    BY <1>1, <1>2, <1>3, SmallerSet DEF ChainIInv, FuelInv, ChainTypeOK
  <1>5. fuel' > Cardinality(w') /\ fuel' \in 0 .. (plant.numStates + 1)
    <2>1. fuel \in 0 .. (plant.numStates + 1)
      BY <1>1 DEF ChainTypeOK
    <2>2. QED
      BY <1>1, <1>2, <1>4, <2>1
  <1>6. ChainTypeOK'
    <2>1. chain' \in Seq(SUBSET States(plant))
      BY <1>1, <1>2 DEF ChainTypeOK
    <2>2. QED
      BY <1>1, <1>2, <1>5, <2>1 DEF ChainTypeOK
  <1>7. FuelInv'
    BY <1>2, <1>5 DEF FuelInv
  <1>8. PhaseInv'
    BY <1>2 DEF PhaseInv
  <1>9. ChainInv'
    BY <1>1, <1>2, <1>3, ChainExtends DEF ChainInv
  <1>10. NothingGoodLost'
    BY <1>1, <1>2, <1>3, GoodSurvivesStep DEF ChainIInv, NothingGoodLost
  <1>11. w' \subseteq InitialW(plant')
    BY <1>2, <1>3 DEF ChainIInv
  <1>12. QED
    BY <1>6, <1>7, <1>8, <1>9, <1>10, <1>11 DEF ChainIInv

LEMMA StopStep ==
  ASSUME ChainIInv, Stop
  PROVE  ChainIInv'
  <1>1. ChainTypeOK /\ ChainInv /\ FuelSuffices
    BY FuelLeft DEF ChainIInv
  <1>2. chainPc = "compare" /\ s = w
    BY <1>1 DEF Stop, Halts, FuelSuffices, ChainTypeOK
  <1>3. /\ plant' = plant /\ nb' = nb /\ w' = w /\ u' = u /\ s' = s
        /\ fuel' = fuel /\ cofuel' = cofuel /\ chain' = Append(chain, w) /\ chainPc' = "done"
    BY DEF Stop
  <1>4. EnvStep(plant, nb, w) = w
    BY <1>2 DEF ChainIInv, PhaseInv
  <1>5. ChainTypeOK'
    <2>1. chain' \in Seq(SUBSET States(plant))
      BY <1>1, <1>3 DEF ChainTypeOK
    <2>2. QED
      BY <1>1, <1>3, <2>1 DEF ChainTypeOK
  <1>6. ChainInv'
    BY <1>1, <1>2, <1>3, ChainExtends DEF ChainInv
  <1>7. PhaseInv' /\ FuelInv'
    BY <1>3, <1>4 DEF PhaseInv, FuelInv
  <1>8. NothingGoodLost' /\ w' \subseteq InitialW(plant')
    BY <1>3 DEF ChainIInv, NothingGoodLost
  <1>9. QED
    BY <1>5, <1>6, <1>7, <1>8 DEF ChainIInv

LEMMA ChainStutter ==
  ASSUME ChainIInv, UNCHANGED chainVars
  PROVE  ChainIInv'
  BY DEF ChainIInv, chainVars, ChainTypeOK, NothingGoodLost, PhaseInv, FuelInv, ChainInv

(* The invariant holds throughout every computation, on every plant.       *)
THEOREM EnvelopeInvariant == ChainSpec => []ChainIInv
  <1>1. ChainIInv /\ [ChainNext]_chainVars => ChainIInv'
    BY FilterStep, CoreachRoundStep, CoreachStopStep, ShrinkStep, StopStep, ChainStutter
       DEF ChainNext
  <1>2. QED
    BY ChainInitInv, <1>1, PTL DEF ChainSpec

(* Type correctness of the worker's envelope loops (envelopeChain).        *)
THEOREM EnvelopeTypeOK == ChainSpec => []ChainTypeOK
  BY EnvelopeInvariant, PTL DEF ChainIInv

(* envelopeChain never drops a state that some supervisor could keep.      *)
THEOREM EnvelopeKeepsGoodSets == ChainSpec => []NothingGoodLost
  BY EnvelopeInvariant, PTL DEF ChainIInv

(* num_states + 1 rounds are enough for either loop, on every plant.       *)
THEOREM EnvelopeFuelSuffices == ChainSpec => []FuelSuffices
  <1>1. ChainIInv => FuelSuffices
    BY FuelLeft
  <1>2. QED
    BY <1>1, EnvelopeInvariant, PTL

(* The set reported as winning is good and is the union of all good sets:  *)
(* the supervisor that disables what leaves it is maximally permissive.    *)
THEOREM EnvelopeIsGreatestGoodSet == ChainSpec => [](ResultGood /\ ResultIsEnvelope)
  <1>1. ASSUME ChainIInv PROVE ResultGood /\ ResultIsEnvelope
    <2> SUFFICES ASSUME chainPc = "done"
                 PROVE  Good(plant, nb, w) /\ w = Envelope(plant, nb)
      BY DEF ResultGood, ResultIsEnvelope
    <2>1. nb \in BOOLEAN /\ w \subseteq InitialW(plant) /\ EnvStep(plant, nb, w) = w
      BY <1>1 DEF ChainIInv, ChainTypeOK, PhaseInv
    <2>2. Good(plant, nb, w)
      BY <2>1, FixpointIsGood
    <2>3. \A G \in SUBSET InitialW(plant) : Good(plant, nb, G) => G \subseteq w
      BY <1>1 DEF ChainIInv, NothingGoodLost
    <2>4. QED
      BY <2>1, <2>2, <2>3, GreatestIsEnvelope
  <1>2. QED
    BY <1>1, EnvelopeInvariant, PTL

(* The recorded chain always is one the certificate checker accepts.       *)
THEOREM EnvelopeChainCertifies == ChainSpec => []ChainCertifies
  <1>1. ChainIInv => ChainCertifies
    BY DEF ChainIInv, ChainInv, PhaseInv, ChainCertifies
  <1>2. QED
    BY <1>1, EnvelopeInvariant, PTL

(* The definitions the abstract module reads are those of this one.        *)
LEMMA SameSets ==
  ASSUME NEW p, NEW n, NEW W
  PROVE  /\ Abstract!InitialW(p) = InitialW(p)
         /\ Abstract!Good(p, n, W) <=> Good(p, n, W)
  <1>1. Abstract!InitialW(p) = InitialW(p)
    BY DEF Abstract!InitialW, Abstract!States, InitialW, States
  <1>2. \A q : Abstract!UcClosedAt(p, W, q) <=> UcClosedAt(p, W, q)
    BY DEF Abstract!UcClosedAt, Abstract!Uncontrollable, UcClosedAt, Uncontrollable
  <1>3. Abstract!CoreachIn(p, W) = CoreachIn(p, W)
    BY DEF Abstract!CoreachIn, Abstract!CoreachClosed, Abstract!MarkedIn, Abstract!PreIn,
           CoreachIn, CoreachClosed, MarkedIn, PreIn
  <1>4. QED
    BY <1>1, <1>2, <1>3 DEF Abstract!Good, Good

(* The worker implements the abstract pruning of GreatestGoodSet.          *)
THEOREM EnvelopeImplements == ChainSpec => Implements
  <1>1. ChainInit => Abstract!Init
    BY SameSets DEF ChainInit, ChainStart, RequestInit, Abstract!Init
  <1>2. ASSUME ChainIInv, [ChainNext]_chainVars
        PROVE  [Abstract!Next]_(Abstract!avars)
    <2>1. nb \in BOOLEAN
      BY <1>2 DEF ChainIInv, ChainTypeOK
    <2>2. CASE Shrink
      <3>1. s = EnvStep(plant, nb, w) /\ s \subseteq w
        BY <1>2, <2>1, <2>2, EnvStepShrinks DEF ChainIInv, PhaseInv, Shrink
      <3>2. \A G \in SUBSET w : Good(plant, nb, G) => G \subseteq s
        BY <2>1, <3>1, GoodSurvivesStep
      <3>3. Abstract!Prune
        BY <2>2, <3>1, <3>2, SameSets DEF Shrink, Abstract!Prune
      <3>4. QED
        BY <3>3 DEF Abstract!Next
    <2>3. CASE Stop
      <3>1. s = w /\ chainPc = "compare"
        BY <1>2, <2>3, FuelLeft DEF Stop, Halts, FuelSuffices, ChainIInv, ChainTypeOK
      <3>2. Good(plant, nb, w)
        BY <1>2, <2>1, <3>1, FixpointIsGood DEF ChainIInv, PhaseInv
      <3>3. Abstract!Announce
        BY <2>3, <3>1, <3>2, SameSets DEF Stop, Abstract!Announce
      <3>4. QED
        BY <3>3 DEF Abstract!Next
    <2>4. CASE Filter \/ CoreachRound \/ CoreachStop \/ UNCHANGED chainVars
      BY <2>4 DEF Filter, CoreachRound, CoreachStop, chainVars, Abstract!avars
    <2>5. QED
      BY <1>2, <2>2, <2>3, <2>4 DEF ChainNext
  <1>3. QED
    BY <1>1, <1>2, EnvelopeInvariant, PTL DEF ChainSpec, Implements, Abstract!Spec

-----------------------------------------------------------------------------
(* Reachability. *)

LEMMA ReachInitInv == ReachInit => ReachIInv
  <1> SUFFICES ASSUME ReachInit PROVE ReachIInv
    OBVIOUS
  <1>1. IsPlant(plant) /\ plant.numStates \in Nat /\ plant.initial \subseteq States(plant)
    BY PlantsAssumption DEF ReachInit, ReachStart, RequestInit, IsPlant, WellFormed
  <1>2. Cardinality(plant.initial) \in Nat
    BY <1>1, SmallerSet
  <1>3. plant.initial \subseteq Reachable(plant)
    BY <1>1, ReachableClosed DEF IsClosed
  <1>4. reachFuel + Cardinality(R) > plant.numStates /\ reachFuel \in 0 .. (plant.numStates + 1)
    BY <1>1, <1>2 DEF ReachInit, ReachStart, RequestInit
  <1>5. ReachTypeOK
    BY <1>1, <1>4 DEF ReachInit, ReachStart, RequestInit, ReachTypeOK
  <1>6. QED
    BY <1>3, <1>4, <1>5 DEF ReachInit, ReachStart, RequestInit, ReachIInv

LEMMA WorkerSteps ==
  ASSUME ReachIInv, WorkerRound \/ WorkerAnswers
  PROVE  ReachIInv'
  <1>1. /\ plant' = plant /\ reachPc = "worker" /\ IsPlant(plant) /\ plant.numStates \in Nat
        /\ R \in SUBSET States(plant) /\ reachFuel \in Nat /\ plant.initial \subseteq R
        /\ R \subseteq Reachable(plant) /\ reachFuel + Cardinality(R) > plant.numStates
    BY DEF ReachIInv, ReachTypeOK, IsPlant, WorkerRound, WorkerAnswers
  <1>2. Post(plant, R) \subseteq Reachable(plant) /\ Reachable(plant) \subseteq States(plant)
    BY <1>1, ReachableClosed DEF IsClosed, Post
  <1>3. CASE WorkerRound
    <2>1. R' \in SUBSET States(plant) /\ R \in SUBSET R' /\ R' # R
      BY <1>1, <1>2, <1>3 DEF WorkerRound
    <2>2. /\ Cardinality(R) \in Nat /\ Cardinality(R') \in Nat
          /\ Cardinality(R) < Cardinality(R')
      BY <1>1, <2>1, SmallerSet
    <2>3. reachFuel' + Cardinality(R') > plant.numStates /\ reachFuel' \in 0 .. (plant.numStates + 1)
      <3>1. reachFuel' = reachFuel - 1 /\ reachFuel > 0 /\ reachFuel \in 0 .. (plant.numStates + 1)
        BY <1>3 DEF WorkerRound, ReachIInv, ReachTypeOK
      <3>2. QED
        BY <1>1, <2>2, <3>1
    <2>4. R' \subseteq Reachable(plant) /\ plant.initial \subseteq R'
      BY <1>1, <1>2, <1>3 DEF WorkerRound
    <2>5. QED
      BY <1>1, <1>3, <2>1, <2>3, <2>4 DEF WorkerRound, ReachIInv, ReachTypeOK
  <1>4. CASE WorkerAnswers
    <2>1. R \in SUBSET R /\ Cardinality(R) \in Nat /\ Cardinality(R) <= plant.numStates
      BY <1>1, SmallerSet
    <2>2. reachFuel > 0
      BY <1>1, <2>1
    <2>3. Post(plant, R) \subseteq R
      BY <1>4, <2>2 DEF WorkerAnswers
    <2>4. plant.initial \subseteq Reachable(plant) /\ plant.initial \subseteq States(plant)
      BY <1>1, <1>2
    <2>5. /\ R' = R /\ reachFuel' = reachFuel /\ reachPc' = "reference" /\ r' = plant.initial
          /\ reachTodo' = plant.edges /\ reachAdded' = FALSE
      BY <1>4 DEF WorkerAnswers
    <2>6. ReachTypeOK'
      BY <1>1, <2>4, <2>5 DEF ReachIInv, ReachTypeOK
    <2>7. QED
      BY <1>1, <2>3, <2>4, <2>5, <2>6 DEF ReachIInv
  <1>5. QED
    BY <1>3, <1>4

LEMMA ReferenceSteps ==
  ASSUME ReachIInv, ReachVisit \/ ReachNextPass \/ ReachLastPass
  PROVE  ReachIInv'
  <1>1. /\ plant' = plant /\ R' = R /\ reachFuel' = reachFuel /\ reachPc = "reference"
        /\ IsPlant(plant) /\ ReachTypeOK
        /\ plant.initial \subseteq r /\ r \subseteq Reachable(plant)
        /\ Post(plant, R) \subseteq R
        /\ plant.initial \subseteq R /\ R \subseteq Reachable(plant)
        /\ ~ reachAdded => \A e \in plant.edges \ reachTodo : e.src \in r => e.dst \in r
    BY DEF ReachIInv, ReachTypeOK, ReachVisit, ReachNextPass, ReachLastPass
  <1>2. Reachable(plant) \subseteq States(plant)
        /\ \A e \in plant.edges : e.src \in Reachable(plant) => e.dst \in Reachable(plant)
    BY <1>1, ReachableClosed DEF IsClosed, Post
  <1>3. CASE ReachVisit
    <2>1. PICK e \in reachTodo :
            /\ reachTodo' = reachTodo \ {e}
            /\ IF e.src \in r /\ e.dst \notin r
               THEN r' = r \cup {e.dst} /\ reachAdded' = TRUE
               ELSE UNCHANGED <<r, reachAdded>>
      BY <1>3 DEF ReachVisit
    <2>2. e \in plant.edges
      BY <1>1 DEF ReachTypeOK
    <2>3. /\ reachPc' = "reference" /\ plant.initial \subseteq r' /\ r' \subseteq Reachable(plant)
          /\ reachAdded' \in BOOLEAN
      BY <1>1, <1>2, <1>3, <2>1, <2>2 DEF ReachVisit, ReachTypeOK
    <2>4. ~ reachAdded' => \A f \in plant.edges \ reachTodo' : f.src \in r' => f.dst \in r'
      BY <1>1, <2>1
    <2>5. ReachTypeOK'
      BY <1>1, <1>2, <2>1, <2>3 DEF ReachTypeOK
    <2>6. QED
      BY <1>1, <2>3, <2>4, <2>5 DEF ReachIInv
  <1>4. CASE ReachNextPass
    BY <1>1, <1>4 DEF ReachNextPass, ReachIInv, ReachTypeOK
  <1>5. CASE ReachLastPass
    <2>1. \A e \in plant.edges : e.src \in r => e.dst \in r
      BY <1>1, <1>5 DEF ReachLastPass
    <2>2. Post(plant, r) \subseteq r
      BY <2>1 DEF Post
    <2>3. QED
      BY <1>1, <1>5, <2>2 DEF ReachLastPass, ReachIInv, ReachTypeOK
  <1>6. QED
    BY <1>3, <1>4, <1>5

THEOREM ReachInvariant == ReachSpec => []ReachIInv
  <1>1. ASSUME ReachIInv, UNCHANGED reachVars PROVE ReachIInv'
    BY <1>1 DEF ReachIInv, reachVars, ReachTypeOK
  <1>2. ReachIInv /\ [ReachNext]_reachVars => ReachIInv'
    BY <1>1, WorkerSteps, ReferenceSteps DEF ReachNext
  <1>3. QED
    BY ReachInitInv, <1>2, PTL DEF ReachSpec

(* The worker's reachable set passes the closure check on every plant, so  *)
(* its fuel of num_states + 1 rounds is always enough (reachSet).          *)
THEOREM WorkerAlwaysCertifies == ReachSpec => []WorkerCertifies
  <1>1. ReachIInv => WorkerCertifies
    BY DEF ReachIInv, WorkerCertifies, IsClosed
  <1>2. QED
    BY <1>1, ReachInvariant, PTL

(* The worker and the reference agree with each other and with the least   *)
(* fixed point, on every plant and for every order of the edge list.       *)
THEOREM ReachAgrees == ReachSpec => []CrossCheckAgrees
  <1>1. ASSUME ReachIInv PROVE CrossCheckAgrees
    <2> SUFFICES ASSUME reachPc = "done" PROVE R = r /\ R = Reachable(plant)
      BY DEF CrossCheckAgrees
    <2>1. IsPlant(plant) /\ IsClosed(plant, R) /\ IsClosed(plant, r)
      BY <1>1 DEF ReachIInv, ReachTypeOK, IsClosed
    <2>2. Reachable(plant) \subseteq R /\ Reachable(plant) \subseteq r
      BY <2>1, ReachableLeast
    <2>3. QED
      BY <1>1, <2>2 DEF ReachIInv
  <1>2. QED
    BY <1>1, ReachInvariant, PTL

-----------------------------------------------------------------------------
(* The reference envelope. *)

LEMMA RefInitInv == RefInit => RefIInv
  <1> SUFFICES ASSUME RefInit PROVE RefIInv
    OBVIOUS
  <1>1. IsPlant(plant) /\ nb \in BOOLEAN
    BY PlantsAssumption DEF RefInit, RequestInit
  <1>2. RefTypeOK
    BY <1>1 DEF RefInit, RefStart, RefTypeOK, InitialW
  <1>3. refPc = "filter" /\ refW = InitialW(plant)
    BY DEF RefInit, RefStart
  <1>4. QED
    BY <1>2, <1>3 DEF RefIInv, RefNothingGoodLost, RoundIsEnvelopeStep

(* A round starts with the seed of the backward iteration.                 *)
LEMMA RefFilterStep ==
  ASSUME RefIInv, RefFilter
  PROVE  RefIInv'
  <1>1. /\ plant' = plant /\ nb' = nb /\ refW' = refW /\ refAdded' = FALSE
        /\ refU' = UcFilter(plant, refW)
    BY DEF RefFilter
  <1>2. refU' \subseteq States(plant) /\ refW \subseteq InitialW(plant) /\ RefNothingGoodLost
    BY <1>1 DEF RefIInv, RefTypeOK, UcFilter
  <1>3. CASE nb
    <2>1. refS' = MarkedIn(plant, refU') /\ refTodo' = plant.edges /\ refPc' = "pass"
      BY <1>3 DEF RefFilter
    <2>2. refS' \subseteq refU' /\ refS' \subseteq CoreachIn(plant, refU')
      BY <2>1, CoreachInClosed DEF MarkedIn, CoreachClosed
    <2>3. RefTypeOK'
      BY <1>1, <1>2, <2>1, <2>2 DEF RefIInv, RefTypeOK
    <2>4. \A e \in plant'.edges \ refTodo' : FALSE
      BY <1>1, <2>1
    <2>5. QED
      BY <1>1, <1>2, <1>3, <2>1, <2>2, <2>3, <2>4
         DEF RefIInv, RefNothingGoodLost, RoundIsEnvelopeStep
  <1>4. CASE ~ nb
    <2>1. refS' = refU' /\ refTodo' = refTodo /\ refPc' = "compare"
      BY <1>4 DEF RefFilter
    <2>2. RefTypeOK'
      BY <1>1, <1>2, <2>1 DEF RefIInv, RefTypeOK
    <2>3. RoundIsEnvelopeStep'
      BY <1>1, <1>4, <2>1 DEF RoundIsEnvelopeStep, EnvStep
    <2>4. QED
      BY <1>1, <1>2, <2>1, <2>2, <2>3 DEF RefIInv, RefNothingGoodLost
  <1>5. QED
    BY <1>3, <1>4

LEMMA RefPassSteps ==
  ASSUME RefIInv, RefVisit \/ RefNextPass \/ RefLastPass
  PROVE  RefIInv'
  <1>1. /\ plant' = plant /\ nb' = nb /\ refW' = refW /\ refU' = refU /\ refPc = "pass"
        /\ nb /\ refU = UcFilter(plant, refW)
        /\ MarkedIn(plant, refU) \subseteq refS /\ refS \subseteq CoreachIn(plant, refU)
        /\ refW \subseteq InitialW(plant) /\ RefNothingGoodLost /\ RefTypeOK
        /\ ~ refAdded => \A e \in plant.edges \ refTodo :
                            e.src \in refU /\ e.dst \in refS => e.src \in refS
    BY DEF RefIInv, RefVisit, RefNextPass, RefLastPass
  <1>2. CASE RefVisit
    <2>1. PICK e \in refTodo :
            /\ refTodo' = refTodo \ {e}
            /\ IF e.src \in refU /\ e.dst \in refS /\ e.src \notin refS
               THEN refS' = refS \cup {e.src} /\ refAdded' = TRUE
               ELSE UNCHANGED <<refS, refAdded>>
      BY <1>2 DEF RefVisit
    <2>2. e \in plant.edges /\ refPc' = "pass"
      BY <1>1, <1>2 DEF RefVisit, RefTypeOK
    <2>3. e.src \in refU /\ e.dst \in refS => e.src \in PreIn(plant, refU, CoreachIn(plant, refU))
      BY <1>1, <2>2 DEF PreIn
    <2>4. e.src \in refU /\ e.dst \in refS => e.src \in CoreachIn(plant, refU)
      BY <2>3, CoreachInClosed DEF CoreachClosed
    <2>5. MarkedIn(plant, refU) \subseteq refS' /\ refS' \subseteq CoreachIn(plant, refU)
      BY <1>1, <2>1, <2>4
    <2>6. RefTypeOK'
      BY <1>1, <2>1, <2>2 DEF RefTypeOK
    <2>7. ~ refAdded' => \A f \in plant.edges \ refTodo' :
                            f.src \in refU /\ f.dst \in refS' => f.src \in refS'
      BY <1>1, <2>1
    <2>8. QED
      BY <1>1, <2>2, <2>5, <2>6, <2>7 DEF RefIInv, RefNothingGoodLost, RoundIsEnvelopeStep
  <1>3. CASE RefNextPass
    <2>1. refS' = refS /\ refTodo' = plant.edges /\ refAdded' = FALSE /\ refPc' = "pass"
      BY <1>1, <1>3 DEF RefNextPass
    <2>2. RefTypeOK'
      BY <1>1, <2>1 DEF RefTypeOK
    <2>3. \A e \in plant'.edges \ refTodo' : FALSE
      BY <1>1, <2>1
    <2>4. QED
      BY <1>1, <2>1, <2>2, <2>3 DEF RefIInv, RefNothingGoodLost, RoundIsEnvelopeStep
  <1>4. CASE RefLastPass
    <2>1. /\ refS' = refS /\ refTodo' = refTodo /\ refAdded' = refAdded /\ refPc' = "compare"
          /\ refTodo = {} /\ ~ refAdded
      BY <1>4 DEF RefLastPass
    <2>2. PreIn(plant, refU, refS) \subseteq refS
      BY <1>1, <2>1 DEF PreIn
    <2>3. refS \in SUBSET refU
      BY <1>1 DEF RefTypeOK
    <2>4. CoreachIn(plant, refU) \subseteq refS
      BY <1>1, <2>2, <2>3, CoreachInLeast DEF CoreachClosed
    <2>5. refS = EnvStep(plant, nb, refW)
      BY <1>1, <2>4 DEF EnvStep
    <2>6. RefTypeOK'
      BY <1>1, <2>1 DEF RefTypeOK
    <2>7. QED
      BY <1>1, <2>1, <2>5, <2>6 DEF RefIInv, RefNothingGoodLost, RoundIsEnvelopeStep
  <1>5. QED
    BY <1>2, <1>3, <1>4

LEMMA RefCompareStep ==
  ASSUME RefIInv, RefCompare
  PROVE  RefIInv'
  <1>1. /\ plant' = plant /\ nb' = nb /\ refW' = refS /\ refU' = refU /\ refS' = refS
        /\ refTodo' = refTodo /\ refAdded' = refAdded
        /\ refPc = "compare" /\ refPc' = IF refS = refW THEN "done" ELSE "filter"
    BY DEF RefCompare
  <1>2. IsPlant(plant) /\ nb \in BOOLEAN /\ RefTypeOK
    BY DEF RefIInv, RefTypeOK
  <1>3. refS = EnvStep(plant, nb, refW) /\ refS \subseteq refW /\ refW \subseteq InitialW(plant)
    BY <1>1, <1>2, EnvStepShrinks DEF RefIInv, RoundIsEnvelopeStep
  <1>4. RefNothingGoodLost'
    BY <1>1, <1>2, <1>3, GoodSurvivesStep DEF RefIInv, RefNothingGoodLost
  <1>5. RefTypeOK'
    BY <1>1, <1>2, <1>3 DEF RefTypeOK
  <1>6. refPc' = "done" => EnvStep(plant', nb', refW') = refW'
    BY <1>1, <1>3
  <1>7. QED
    BY <1>1, <1>3, <1>4, <1>5, <1>6 DEF RefIInv, RoundIsEnvelopeStep

THEOREM ReferenceInvariant == RefSpec => []RefIInv
  <1>1. ASSUME RefIInv, UNCHANGED refVars PROVE RefIInv'
    BY <1>1 DEF RefIInv, refVars, RefTypeOK, RefNothingGoodLost, RoundIsEnvelopeStep
  <1>2. RefIInv /\ [RefNext]_refVars => RefIInv'
    BY <1>1, RefFilterStep, RefPassSteps, RefCompareStep DEF RefNext
  <1>3. QED
    BY RefInitInv, <1>2, PTL DEF RefSpec

(* The definitions the abstract module reads are those of this one.        *)
LEMMA RefSameSets ==
  ASSUME NEW p, NEW n, NEW W
  PROVE  /\ RefAbstract!InitialW(p) = InitialW(p)
         /\ RefAbstract!Good(p, n, W) <=> Good(p, n, W)
  <1>1. RefAbstract!InitialW(p) = InitialW(p)
    BY DEF RefAbstract!InitialW, RefAbstract!States, InitialW, States
  <1>2. \A q : RefAbstract!UcClosedAt(p, W, q) <=> UcClosedAt(p, W, q)
    BY DEF RefAbstract!UcClosedAt, RefAbstract!Uncontrollable, UcClosedAt, Uncontrollable
  <1>3. RefAbstract!CoreachIn(p, W) = CoreachIn(p, W)
    BY DEF RefAbstract!CoreachIn, RefAbstract!CoreachClosed, RefAbstract!MarkedIn,
           RefAbstract!PreIn, CoreachIn, CoreachClosed, MarkedIn, PreIn
  <1>4. QED
    BY <1>1, <1>2, <1>3 DEF RefAbstract!Good, Good

(* The reference (envelope_chain of mulu-model) implements the abstract    *)
(* pruning of GreatestGoodSet, as the worker does.                         *)
THEOREM ReferenceImplements == RefSpec => RefImplements
  <1>1. RefInit => RefAbstract!Init
    BY RefSameSets DEF RefInit, RefStart, RefAbstract!Init
  <1>2. ASSUME RefIInv, [RefNext]_refVars
        PROVE  [RefAbstract!Next]_(RefAbstract!avars)
    <2>1. nb \in BOOLEAN /\ refW \subseteq InitialW(plant)
      BY <1>2 DEF RefIInv, RefTypeOK
    <2>2. CASE RefCompare
      <3>1. refS = EnvStep(plant, nb, refW) /\ refS \subseteq refW
        BY <1>2, <2>1, <2>2, EnvStepShrinks DEF RefIInv, RoundIsEnvelopeStep, RefCompare
      <3>2. CASE refS = refW
        <4>1. Good(plant, nb, refW)
          BY <2>1, <3>1, <3>2, FixpointIsGood
        <4>2. RefAbstract!Announce
          BY <2>2, <3>2, <4>1, RefSameSets DEF RefCompare, RefAbstract!Announce
        <4>3. QED
          BY <4>2 DEF RefAbstract!Next
      <3>3. CASE refS # refW
        <4>1. \A G \in SUBSET refW : Good(plant, nb, G) => G \subseteq refS
          BY <2>1, <3>1, GoodSurvivesStep
        <4>2. RefAbstract!Prune
          BY <2>2, <3>1, <3>3, <4>1, RefSameSets DEF RefCompare, RefAbstract!Prune
        <4>3. QED
          BY <4>2 DEF RefAbstract!Next
      <3>4. QED
        BY <3>2, <3>3
    <2>3. CASE RefFilter \/ RefVisit \/ RefNextPass \/ RefLastPass \/ UNCHANGED refVars
      BY <2>3 DEF RefFilter, RefVisit, RefNextPass, RefLastPass, refVars, RefAbstract!avars
    <2>4. QED
      BY <1>2, <2>2, <2>3 DEF RefNext
  <1>3. QED
    BY <1>1, <1>2, ReferenceInvariant, PTL DEF RefSpec, RefImplements, RefAbstract!Spec

(* The composition runs each computation as specified on its own.          *)
LEMMA Stages == Spec => ReachSpec /\ ChainSpec /\ RefSpec
  <1>1. Init => ReachInit /\ ChainInit /\ RefInit
    BY DEF Init, ReachInit, ChainInit, RefInit
  <1>2. [Next]_vars => [ReachNext]_reachVars /\ [ChainNext]_chainVars /\ [RefNext]_refVars
    BY DEF Next, vars, ReachStage, EnvelopeStage, ReferenceStage
  <1>3. QED
    BY <1>1, <1>2, PTL DEF Spec, ReachSpec, ChainSpec, RefSpec

(* The cross-check of the envelope (analyze_model) compares equal sets, on *)
(* every plant, objective and order of the edge list: exit code 4 never    *)
(* comes from two correct computations.  The worker ends before the        *)
(* reference starts, so its set is final when they are compared.           *)
THEOREM EnvelopesAlwaysAgree == Spec => []EnvelopesAgree
  <1> DEFINE Order == refPc # "filter" \/ refW # InitialW(plant) => chainPc = "done"
  <1>1. Init => Order
    BY DEF Init, RefStart
  <1>2. Order /\ [Next]_vars => Order'
    BY DEF Next, vars, ReachStage, EnvelopeStage, ReferenceStage, chainVars, refVars,
           ChainNext, Filter, CoreachRound, CoreachStop, Shrink, Stop, Halts
  <1>3. ASSUME ChainIInv, RefIInv, Order PROVE EnvelopesAgree
    <2> SUFFICES ASSUME refPc = "done" PROVE refW = w
      BY DEF EnvelopesAgree
    <2>1. nb \in BOOLEAN /\ chainPc = "done"
      BY <1>3 DEF ChainIInv, ChainTypeOK
    <2>2. Good(plant, nb, w) /\ Good(plant, nb, refW)
      BY <1>3, <2>1, FixpointIsGood DEF ChainIInv, PhaseInv, RefIInv
    <2>3. refW \subseteq w /\ w \subseteq refW
      BY <1>3, <2>2 DEF ChainIInv, RefIInv, NothingGoodLost, RefNothingGoodLost
    <2>4. QED
      BY <2>3
  <1>4. QED
    BY <1>1, <1>2, <1>3, Stages, EnvelopeInvariant, ReferenceInvariant, PTL DEF Spec

(* Type correctness of the whole exchange.                                 *)
THEOREM CrossCheckTypeOK == Spec => []TypeOK
  <1>1. ReachIInv /\ ChainIInv /\ RefIInv => TypeOK
    BY DEF ReachIInv, ChainIInv, RefIInv, TypeOK
  <1>2. QED
    BY <1>1, Stages, ReachInvariant, EnvelopeInvariant, ReferenceInvariant, PTL

(* Exit code 4 never comes from the reachability cross-check of correct    *)
(* computations, in the composition either.                                *)
THEOREM CrossCheckNeverFails == Spec => [](CrossCheckAgrees /\ EnvelopesAgree)
  BY Stages, ReachAgrees, EnvelopesAlwaysAgree, PTL

-----------------------------------------------------------------------------
(* All loops descend. *)

(* a comes before b in the lexicographic order of tuples of numbers, which *)
(* has no infinite descent.                                                *)
LexBelow(a, b) ==
  /\ \A i \in DOMAIN b : a[i] \in Nat /\ b[i] \in Nat
  /\ \E i \in DOMAIN b : a[i] < b[i] /\ \A j \in DOMAIN b : j < i => a[j] = b[j]

(* What the reachability exchange has still to do: the worker counts down  *)
(* its fuel; a pass of the reference either finds a state it did not have  *)
(* or is the last one, and visits each edge once.                          *)
ReachRank ==
  << CASE reachPc = "worker" -> 2 [] reachPc = "reference" -> 1 [] OTHER -> 0,
     reachFuel,
     plant.numStates - Cardinality(r),
     IF reachAdded THEN 1 ELSE 0,
     Cardinality(reachTodo) >>

(* What the worker's envelope loops have still to do.                      *)
ChainRank ==
  << IF chainPc = "done" THEN 0 ELSE 1,
     fuel,
     CASE chainPc = "filter" -> 2 [] chainPc = "coreach" -> 1 [] OTHER -> 0,
     cofuel >>

(* The reference has no fuel: its rounds are bounded by the states it      *)
(* drops, its passes by the states of refU they have not reached yet.      *)
RefRank ==
  << IF refPc = "done" THEN 0 ELSE 1,
     Cardinality(refW),
     CASE refPc = "filter" -> 2 [] refPc = "pass" -> 1 [] OTHER -> 0,
     Cardinality(refU) - Cardinality(refS),
     IF refAdded THEN 1 ELSE 0,
     Cardinality(refTodo) >>

(* It is enough to name the place.                                         *)
LEMMA LexAt ==
  ASSUME NEW a, NEW b, \A i \in DOMAIN b : a[i] \in Nat /\ b[i] \in Nat,
         NEW k \in DOMAIN b, a[k] < b[k], \A j \in DOMAIN b : j < k => a[j] = b[j]
  PROVE  LexBelow(a, b)
  BY Zenon DEF LexBelow

LEMMA ReachDescends ==
  ASSUME ReachIInv, ReachIInv', ReachNext
  PROVE  LexBelow(ReachRank', ReachRank)
  <1>1. IsPlant(plant) /\ plant.numStates \in Nat /\ plant' = plant
    BY DEF ReachIInv, ReachTypeOK, IsPlant, ReachNext, WorkerRound, WorkerAnswers,
           ReachVisit, ReachNextPass, ReachLastPass
  <1>2. /\ Cardinality(r) \in Nat /\ Cardinality(r) <= plant.numStates
        /\ Cardinality(r') \in Nat /\ Cardinality(r') <= plant.numStates
    <2>1. r \in SUBSET States(plant) /\ r' \in SUBSET States(plant)
      BY <1>1 DEF ReachIInv, ReachTypeOK
    <2> QED BY <1>1, <2>1, SmallerSet
  <1>3. Cardinality(reachTodo) \in Nat /\ Cardinality(reachTodo') \in Nat
    <2>1. reachTodo \in SUBSET plant.edges /\ reachTodo' \in SUBSET plant.edges
      BY <1>1 DEF ReachIInv, ReachTypeOK
    <2> QED BY <1>1, <2>1, EdgesFinite
  <1>4. reachFuel \in Nat /\ reachFuel' \in Nat
    BY <1>1 DEF ReachIInv, ReachTypeOK
  <1>5. /\ DOMAIN ReachRank = 1 .. 5
        /\ \A i \in DOMAIN ReachRank : ReachRank'[i] \in Nat /\ ReachRank[i] \in Nat
    <2>1. /\ DOMAIN ReachRank = 1 .. 5
          /\ ReachRank[1] \in Nat /\ ReachRank'[1] \in Nat
          /\ ReachRank[4] \in Nat /\ ReachRank'[4] \in Nat
      BY DEF ReachRank
    <2>2. ReachRank[2] \in Nat /\ ReachRank'[2] \in Nat
      BY <1>4 DEF ReachRank
    <2>3. ReachRank[3] \in Nat /\ ReachRank'[3] \in Nat
      BY <1>1, <1>2 DEF ReachRank
    <2>4. ReachRank[5] \in Nat /\ ReachRank'[5] \in Nat
      BY <1>3 DEF ReachRank
    <2> QED BY <2>1, <2>2, <2>3, <2>4
  <1>6. CASE WorkerRound
    <2>1. ReachRank'[1] = ReachRank[1] /\ ReachRank'[2] < ReachRank[2]
      BY <1>4, <1>6 DEF WorkerRound, ReachRank
    <2>2. 2 \in DOMAIN ReachRank /\ \A j \in DOMAIN ReachRank : j < 2 => ReachRank'[j] = ReachRank[j]
      BY <1>5, <2>1
    <2> QED BY <1>5, <2>1, <2>2, LexAt, Zenon
  <1>7. CASE WorkerAnswers \/ ReachLastPass
    <2>1. ReachRank'[1] < ReachRank[1]
      BY <1>7 DEF WorkerAnswers, ReachLastPass, ReachRank
    <2>2. 1 \in DOMAIN ReachRank /\ \A j \in DOMAIN ReachRank : j < 1 => ReachRank'[j] = ReachRank[j]
      BY <1>5
    <2> QED BY <1>5, <2>1, <2>2, LexAt, Zenon
  <1>8. CASE ReachNextPass
    <2>1. /\ ReachRank'[1] = ReachRank[1] /\ ReachRank'[2] = ReachRank[2]
          /\ ReachRank'[3] = ReachRank[3] /\ ReachRank'[4] < ReachRank[4]
      BY <1>8 DEF ReachNextPass, ReachRank
    <2>2. 4 \in DOMAIN ReachRank /\ \A j \in DOMAIN ReachRank : j < 4 => ReachRank'[j] = ReachRank[j]
      BY <1>5, <2>1
    <2> QED BY <1>5, <2>1, <2>2, LexAt, Zenon
  <1>9. CASE ReachVisit
    <2>1. PICK e \in reachTodo :
            /\ reachTodo' = reachTodo \ {e}
            /\ IF e.src \in r /\ e.dst \notin r
               THEN r' = r \cup {e.dst} /\ reachAdded' = TRUE
               ELSE UNCHANGED <<r, reachAdded>>
      BY <1>9 DEF ReachVisit
    <2>2. ReachRank'[1] = ReachRank[1] /\ ReachRank'[2] = ReachRank[2]
      BY <1>9 DEF ReachVisit, ReachRank
    <2>3. CASE e.src \in r /\ e.dst \notin r
      <3>1. r' \in SUBSET States(plant) /\ r \in SUBSET r' /\ r # r'
        BY <1>1, <2>1, <2>3 DEF ReachIInv, ReachTypeOK
      <3>2. Cardinality(r) < Cardinality(r')
        BY <1>1, <3>1, SmallerSet
      <3>3. ReachRank'[3] < ReachRank[3]
        BY <1>1, <1>2, <3>2 DEF ReachRank
      <3>4. 3 \in DOMAIN ReachRank /\ \A j \in DOMAIN ReachRank : j < 3 => ReachRank'[j] = ReachRank[j]
        BY <1>5, <2>2
      <3> QED BY <1>5, <3>3, <3>4, LexAt, Zenon
    <2>4. CASE ~(e.src \in r /\ e.dst \notin r)
      <3>1. r' = r /\ reachAdded' = reachAdded
        BY <2>1, <2>4
      <3>2. ReachRank'[3] = ReachRank[3] /\ ReachRank'[4] = ReachRank[4]
        BY <1>1, <3>1 DEF ReachRank
      <3>3. IsFiniteSet(reachTodo)
        <4>1. reachTodo \in SUBSET plant.edges
          BY DEF ReachIInv, ReachTypeOK
        <4> QED BY <1>1, <4>1, EdgesFinite
      <3>4. Cardinality(reachTodo') = Cardinality(reachTodo) - 1
        BY <2>1, <3>3, FS_RemoveElement
      <3>5. ReachRank'[5] < ReachRank[5]
        BY <1>3, <3>4 DEF ReachRank
      <3>6. 5 \in DOMAIN ReachRank /\ \A j \in DOMAIN ReachRank : j < 5 => ReachRank'[j] = ReachRank[j]
        BY <1>5, <2>2, <3>2
      <3> QED BY <1>5, <3>5, <3>6, LexAt, Zenon
    <2> QED BY <2>3, <2>4
  <1> QED BY <1>6, <1>7, <1>8, <1>9 DEF ReachNext

LEMMA ChainDescends ==
  ASSUME ChainIInv, ChainIInv', ChainNext
  PROVE  LexBelow(ChainRank', ChainRank)
  <1>1. plant' = plant /\ plant.numStates \in Nat
    BY DEF ChainIInv, ChainTypeOK, IsPlant, ChainNext, Filter, CoreachRound, CoreachStop, Shrink, Stop
  <1>2. fuel \in Nat /\ fuel' \in Nat /\ cofuel \in Nat /\ cofuel' \in Nat
    BY <1>1 DEF ChainIInv, ChainTypeOK
  <1>3. /\ DOMAIN ChainRank = 1 .. 4
        /\ \A i \in DOMAIN ChainRank : ChainRank'[i] \in Nat /\ ChainRank[i] \in Nat
    <2>1. /\ DOMAIN ChainRank = 1 .. 4
          /\ ChainRank[1] \in Nat /\ ChainRank'[1] \in Nat
          /\ ChainRank[3] \in Nat /\ ChainRank'[3] \in Nat
      BY DEF ChainRank
    <2>2. /\ ChainRank[2] \in Nat /\ ChainRank'[2] \in Nat
          /\ ChainRank[4] \in Nat /\ ChainRank'[4] \in Nat
      BY <1>2 DEF ChainRank
    <2> QED BY <2>1, <2>2
  <1>4. CASE Filter \/ CoreachStop
    <2>1. /\ ChainRank'[1] = ChainRank[1] /\ ChainRank'[2] = ChainRank[2]
          /\ ChainRank'[3] < ChainRank[3]
      BY <1>4 DEF Filter, CoreachStop, ChainRank
    <2>2. 3 \in DOMAIN ChainRank /\ \A j \in DOMAIN ChainRank : j < 3 => ChainRank'[j] = ChainRank[j]
      BY <1>3, <2>1
    <2> QED BY <1>3, <2>1, <2>2, LexAt, Zenon
  <1>5. CASE CoreachRound
    <2>1. /\ ChainRank'[1] = ChainRank[1] /\ ChainRank'[2] = ChainRank[2]
          /\ ChainRank'[3] = ChainRank[3] /\ ChainRank'[4] < ChainRank[4]
      BY <1>2, <1>5 DEF CoreachRound, ChainRank
    <2>2. 4 \in DOMAIN ChainRank /\ \A j \in DOMAIN ChainRank : j < 4 => ChainRank'[j] = ChainRank[j]
      BY <1>3, <2>1
    <2> QED BY <1>3, <2>1, <2>2, LexAt, Zenon
  <1>6. CASE Shrink
    <2>1. ChainRank'[1] = ChainRank[1] /\ ChainRank'[2] < ChainRank[2]
      BY <1>2, <1>6 DEF Shrink, ChainRank
    <2>2. 2 \in DOMAIN ChainRank /\ \A j \in DOMAIN ChainRank : j < 2 => ChainRank'[j] = ChainRank[j]
      BY <1>3, <2>1
    <2> QED BY <1>3, <2>1, <2>2, LexAt, Zenon
  <1>7. CASE Stop
    <2>1. ChainRank'[1] < ChainRank[1]
      BY <1>7 DEF Stop, Halts, ChainRank
    <2>2. 1 \in DOMAIN ChainRank /\ \A j \in DOMAIN ChainRank : j < 1 => ChainRank'[j] = ChainRank[j]
      BY <1>3
    <2> QED BY <1>3, <2>1, <2>2, LexAt, Zenon
  <1> QED BY <1>4, <1>5, <1>6, <1>7 DEF ChainNext

LEMMA RefDescends ==
  ASSUME RefIInv, RefIInv', RefNext
  PROVE  LexBelow(RefRank', RefRank)
  <1>1. IsPlant(plant) /\ plant' = plant
    BY DEF RefIInv, RefTypeOK, RefNext, RefFilter, RefVisit, RefNextPass, RefLastPass, RefCompare
  <1>2. /\ refW \in SUBSET States(plant) /\ refW' \in SUBSET States(plant)
        /\ refU \in SUBSET States(plant) /\ refU' \in SUBSET States(plant)
        /\ refS \in SUBSET refU /\ refS' \in SUBSET refU'
        /\ refTodo \in SUBSET plant.edges /\ refTodo' \in SUBSET plant.edges
    BY <1>1 DEF RefIInv, RefTypeOK
  <1>3. /\ Cardinality(refW) \in Nat /\ Cardinality(refW') \in Nat
        /\ Cardinality(refU) \in Nat /\ Cardinality(refS) \in Nat
        /\ Cardinality(refU') \in Nat /\ Cardinality(refS') \in Nat
        /\ Cardinality(refS) <= Cardinality(refU) /\ Cardinality(refS') <= Cardinality(refU')
    <2>1. refW \in SUBSET refW /\ refW' \in SUBSET refW'
      OBVIOUS
    <2>2. /\ Cardinality(refW) \in Nat /\ Cardinality(refW') \in Nat
          /\ Cardinality(refU) \in Nat /\ Cardinality(refS) \in Nat
          /\ Cardinality(refU') \in Nat /\ Cardinality(refS') \in Nat
      BY <1>1, <1>2, <2>1, SmallerSet
    <2>3. refS # refU => Cardinality(refS) < Cardinality(refU)
      BY <1>1, <1>2, SmallerSet
    <2>4. refS' # refU' => Cardinality(refS') < Cardinality(refU')
      BY <1>1, <1>2, SmallerSet
    <2> QED BY <2>2, <2>3, <2>4
  <1>4. Cardinality(refTodo) \in Nat /\ Cardinality(refTodo') \in Nat /\ IsFiniteSet(refTodo)
    BY <1>1, <1>2, EdgesFinite
  <1>5. /\ DOMAIN RefRank = 1 .. 6
        /\ \A i \in DOMAIN RefRank : RefRank'[i] \in Nat /\ RefRank[i] \in Nat
    <2>1. /\ DOMAIN RefRank = 1 .. 6
          /\ RefRank[1] \in Nat /\ RefRank'[1] \in Nat
          /\ RefRank[3] \in Nat /\ RefRank'[3] \in Nat
          /\ RefRank[5] \in Nat /\ RefRank'[5] \in Nat
      BY DEF RefRank
    <2>2. RefRank[2] \in Nat /\ RefRank'[2] \in Nat
      BY <1>3 DEF RefRank
    <2>3. RefRank[4] \in Nat /\ RefRank'[4] \in Nat
      BY <1>3 DEF RefRank
    <2>4. RefRank[6] \in Nat /\ RefRank'[6] \in Nat
      BY <1>4 DEF RefRank
    <2> QED BY <2>1, <2>2, <2>3, <2>4
  <1>6. CASE RefFilter \/ RefLastPass
    <2>1. /\ RefRank'[1] = RefRank[1] /\ RefRank'[2] = RefRank[2]
          /\ RefRank'[3] < RefRank[3]
      BY <1>6 DEF RefFilter, RefLastPass, RefRank
    <2>2. 3 \in DOMAIN RefRank /\ \A j \in DOMAIN RefRank : j < 3 => RefRank'[j] = RefRank[j]
      BY <1>5, <2>1
    <2> QED BY <1>5, <2>1, <2>2, LexAt, Zenon
  <1>7. CASE RefNextPass
    <2>1. /\ RefRank'[1] = RefRank[1] /\ RefRank'[2] = RefRank[2] /\ RefRank'[3] = RefRank[3]
          /\ RefRank'[4] = RefRank[4] /\ RefRank'[5] < RefRank[5]
      BY <1>7 DEF RefNextPass, RefRank
    <2>2. 5 \in DOMAIN RefRank /\ \A j \in DOMAIN RefRank : j < 5 => RefRank'[j] = RefRank[j]
      BY <1>5, <2>1
    <2> QED BY <1>5, <2>1, <2>2, LexAt, Zenon
  <1>8. CASE RefVisit
    <2>1. PICK e \in refTodo :
            /\ refTodo' = refTodo \ {e}
            /\ IF e.src \in refU /\ e.dst \in refS /\ e.src \notin refS
               THEN refS' = refS \cup {e.src} /\ refAdded' = TRUE
               ELSE UNCHANGED <<refS, refAdded>>
      BY <1>8 DEF RefVisit
    <2>2. RefRank'[1] = RefRank[1] /\ RefRank'[2] = RefRank[2] /\ RefRank'[3] = RefRank[3]
      BY <1>8 DEF RefVisit, RefRank
    <2>3. refU' = refU
      BY <1>8 DEF RefVisit
    <2>4. CASE e.src \in refU /\ e.dst \in refS /\ e.src \notin refS
      <3>1. refS' \in SUBSET States(plant) /\ refS \in SUBSET refS' /\ refS # refS'
        BY <1>2, <2>1, <2>4
      <3>2. Cardinality(refS) < Cardinality(refS')
        BY <1>1, <3>1, SmallerSet
      <3>3. RefRank'[4] < RefRank[4]
        BY <1>3, <2>3, <3>2 DEF RefRank
      <3>4. 4 \in DOMAIN RefRank /\ \A j \in DOMAIN RefRank : j < 4 => RefRank'[j] = RefRank[j]
        BY <1>5, <2>2
      <3> QED BY <1>5, <3>3, <3>4, LexAt, Zenon
    <2>5. CASE ~(e.src \in refU /\ e.dst \in refS /\ e.src \notin refS)
      <3>1. refS' = refS /\ refAdded' = refAdded
        BY <2>1, <2>5
      <3>2. RefRank'[4] = RefRank[4] /\ RefRank'[5] = RefRank[5]
        BY <2>3, <3>1 DEF RefRank
      <3>3. Cardinality(refTodo') = Cardinality(refTodo) - 1
        BY <1>4, <2>1, FS_RemoveElement
      <3>4. RefRank'[6] < RefRank[6]
        BY <1>4, <3>3 DEF RefRank
      <3>5. 6 \in DOMAIN RefRank /\ \A j \in DOMAIN RefRank : j < 6 => RefRank'[j] = RefRank[j]
        BY <1>5, <2>2, <3>2
      <3> QED BY <1>5, <3>4, <3>5, LexAt, Zenon
    <2> QED BY <2>4, <2>5
  <1>9. CASE RefCompare
    <2>1. CASE refS = refW
      <3>1. RefRank'[1] < RefRank[1]
        BY <1>9, <2>1 DEF RefCompare, RefRank
      <3>2. 1 \in DOMAIN RefRank /\ \A j \in DOMAIN RefRank : j < 1 => RefRank'[j] = RefRank[j]
        BY <1>5
      <3> QED BY <1>5, <3>1, <3>2, LexAt, Zenon
    <2>2. CASE refS # refW
      <3>1. refS = EnvStep(plant, nb, refW) /\ nb \in BOOLEAN
        BY <1>9 DEF RefIInv, RefTypeOK, RoundIsEnvelopeStep, RefCompare
      <3>2. refW' = refS /\ refS \in SUBSET refW
        BY <1>9, <3>1, EnvStepShrinks DEF RefCompare
      <3>3. Cardinality(refW') < Cardinality(refW)
        BY <1>1, <1>2, <2>2, <3>2, SmallerSet
      <3>4. RefRank'[1] = RefRank[1] /\ RefRank'[2] < RefRank[2]
        BY <1>9, <2>2, <3>3 DEF RefCompare, RefRank
      <3>5. 2 \in DOMAIN RefRank /\ \A j \in DOMAIN RefRank : j < 2 => RefRank'[j] = RefRank[j]
        BY <1>5, <3>4
      <3> QED BY <1>5, <3>4, <3>5, LexAt, Zenon
    <2> QED BY <2>1, <2>2
  <1> QED BY <1>6, <1>7, <1>8, <1>9 DEF RefNext

(* One of the computations comes closer to its end, and none is undone.    *)
OneStageCloser ==
  \/ LexBelow(ReachRank', ReachRank) /\ UNCHANGED <<ChainRank, RefRank>>
  \/ LexBelow(ChainRank', ChainRank) /\ UNCHANGED <<ReachRank, RefRank>>
  \/ LexBelow(RefRank', RefRank) /\ UNCHANGED <<ReachRank, ChainRank>>

(* None of the loops goes on for ever, with or without fuel, on any plant  *)
(* and for any order of the edge list: every step of the exchange lowers   *)
(* one computation's rank in a well-founded order and leaves the others    *)
(* as they are (reachIter, envelopeChain, coreachIter; reach,              *)
(* envelope_chain and coreach_in of the reference).                        *)
THEOREM CrossCheckDescends == Spec => [][OneStageCloser]_vars
  <1>1. ASSUME ReachIInv, ReachIInv', ChainIInv, ChainIInv', RefIInv, RefIInv', [Next]_vars
        PROVE  [OneStageCloser]_vars
    <2>1. CASE ReachStage
      <3>1. UNCHANGED <<ChainRank, RefRank>>
        <4>1. plant' = plant
          BY <2>1 DEF ReachStage, chainVars
        <4> QED BY <2>1, <4>1 DEF ReachStage, chainVars, refVars, ChainRank, RefRank
      <3> QED BY <1>1, <2>1, <3>1, ReachDescends DEF ReachStage, OneStageCloser
    <2>2. CASE EnvelopeStage
      <3>1. UNCHANGED <<ReachRank, RefRank>>
        BY <2>2 DEF EnvelopeStage, reachVars, refVars, ReachRank, RefRank
      <3> QED BY <1>1, <2>2, <3>1, ChainDescends DEF EnvelopeStage, OneStageCloser
    <2>3. CASE ReferenceStage
      <3>1. UNCHANGED <<ReachRank, ChainRank>>
        BY <2>3 DEF ReferenceStage, reachVars, chainVars, ReachRank, ChainRank
      <3> QED BY <1>1, <2>3, <3>1, RefDescends DEF ReferenceStage, OneStageCloser
    <2> QED BY <1>1, <2>1, <2>2, <2>3 DEF Next
  <1> QED
    BY <1>1, Stages, ReachInvariant, EnvelopeInvariant, ReferenceInvariant, PTL DEF Spec
=============================================================================
