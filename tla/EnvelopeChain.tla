--------------------------- MODULE EnvelopeChain ---------------------------
(***************************************************************************)
(* mulu-worker computing the maximally permissive envelope: the outer      *)
(* iteration of F from Q \ B (envelopeChain) and, for the nonblocking      *)
(* objective, the inner saturation inside the filtered set (coreachIter).  *)
(* Both loops run on fuel, num_states + 1 rounds each; the recorded sets   *)
(* are the certificate that is re-checked before it is reported.           *)
(***************************************************************************)
EXTENDS Plants, Sequences

VARIABLES
  chainPc,   \* "filter", "coreach", "compare", "done"
  w,         \* the current set W
  u,         \* U(W), filtered by uncontrollable successors
  s,         \* the inner saturation, F(W) when it stops
  fuel,      \* rounds left of the outer loop
  cofuel,    \* rounds left of the inner loop
  chain      \* the sets recorded so far

chainVars == <<plant, nb, chainPc, w, u, s, fuel, cofuel, chain>>

(* Fault: too little fuel for the outer loop. *)
ChainStartShortOfFuel ==
  /\ chainPc = "filter" /\ w = InitialW(plant)
  /\ u = {} /\ s = {} /\ cofuel = 0 /\ chain = << >>
  /\ fuel = plant.numStates - 1

ChainStart ==
  /\ chainPc = "filter"
  /\ w = InitialW(plant)
  /\ u = {} /\ s = {}
  /\ fuel = plant.numStates + 1
  /\ cofuel = 0
  /\ chain = << >>

(* One round starts: U(W), and the seed of the backward iteration.         *)
Filter ==
  /\ chainPc = "filter" /\ fuel > 0
  /\ u' = UcFilter(plant, w)
  /\ IF nb
     THEN /\ s' = MarkedIn(plant, u')
          /\ cofuel' = plant.numStates + 1
          /\ chainPc' = "coreach"
     ELSE /\ s' = u'
          /\ chainPc' = "compare"
          /\ UNCHANGED cofuel
  /\ UNCHANGED <<plant, nb, w, fuel, chain>>

CoreachRound ==
  /\ chainPc = "coreach" /\ cofuel > 0
  /\ ~ (PreIn(plant, u, s) \subseteq s)
  /\ s' = s \cup PreIn(plant, u, s)
  /\ cofuel' = cofuel - 1
  /\ UNCHANGED <<plant, nb, chainPc, w, u, fuel, chain>>

(* Fault: the inner loop may stop before its fixed point. *)
CoreachStopEarly ==
  /\ chainPc = "coreach"
  /\ chainPc' = "compare"
  /\ UNCHANGED <<plant, nb, w, u, s, fuel, cofuel, chain>>

(* The inner loop stops at a fixed point, or where its fuel ends.          *)
CoreachStop ==
  /\ chainPc = "coreach"
  /\ cofuel > 0 => PreIn(plant, u, s) \subseteq s
  /\ chainPc' = "compare"
  /\ UNCHANGED <<plant, nb, w, u, s, fuel, cofuel, chain>>

(* Fault: the set reached is recorded, not the one left. *)
ShrinkRecordsNext ==
  /\ chainPc = "compare" /\ s # w
  /\ chain' = Append(chain, s)
  /\ w' = s
  /\ fuel' = fuel - 1
  /\ chainPc' = "filter"
  /\ UNCHANGED <<plant, nb, u, s, cofuel>>

Shrink ==
  /\ chainPc = "compare" /\ s # w
  /\ chain' = Append(chain, w)
  /\ w' = s
  /\ fuel' = fuel - 1
  /\ chainPc' = "filter"
  /\ UNCHANGED <<plant, nb, u, s, cofuel>>

(* Fault: the fixed point is not waited for. *)
HaltsAfterOneRound == chainPc = "compare"

(* The outer loop ends at a fixed point, or without one when its fuel is   *)
(* gone: either way W is the last set of the chain.                        *)
Halts == IF chainPc = "filter" THEN fuel = 0 ELSE chainPc = "compare" /\ s = w

Stop ==
  /\ Halts
  /\ chain' = Append(chain, w)
  /\ chainPc' = "done"
  /\ UNCHANGED <<plant, nb, w, u, s, fuel, cofuel>>

ChainNext ==
  Filter \/ CoreachRound \/ CoreachStop \/ Shrink \/ Stop

ChainInit == RequestInit /\ ChainStart

ChainSpec == ChainInit /\ [][ChainNext]_chainVars

-----------------------------------------------------------------------------
ChainTypeOK ==
  /\ IsPlant(plant)
  /\ nb \in BOOLEAN
  /\ chainPc \in {"filter", "coreach", "compare", "done"}
  /\ w \subseteq States(plant) /\ u \subseteq States(plant) /\ s \subseteq States(plant)
  /\ fuel \in 0 .. (plant.numStates + 1)
  /\ cofuel \in 0 .. (plant.numStates + 1)
  /\ chain \in Seq(SUBSET States(plant))

(* No round ever drops a state some supervisor could keep: every good set  *)
(* stays inside W whatever the interleaving of the two loops.              *)
NothingGoodLost ==
  \A G \in SUBSET InitialW(plant) : Good(plant, nb, G) => G \subseteq w

(* Neither loop is cut by its fuel: a certificate never ends in a set that *)
(* was not compared with its successor.                                    *)
FuelSuffices ==
  /\ chainPc = "filter" => fuel > 0
  /\ chainPc = "coreach" => cofuel > 0

(* What the worker reports as winning is itself good: safe, closed under   *)
(* what the supervisor cannot disable, and nonblocking when asked.         *)
ResultGood == chainPc = "done" => Good(plant, nb, w)

(* ... and it is the union of all good sets, the value the brute-force     *)
(* reference of mulu-model computes by enumeration.                        *)
ResultIsEnvelope == chainPc = "done" => w = Envelope(plant, nb)

(* The recorded chain is one the certificate checker accepts: it starts at *)
(* Q \ B, each set is F of the one before, and the last is a fixed point.  *)
ChainCertifies ==
  chainPc = "done" =>
    /\ chain[1] = InitialW(plant)
    /\ \A i \in 1 .. (Len(chain) - 1) : chain[i + 1] = EnvStep(plant, nb, chain[i])
    /\ chain[Len(chain)] = w /\ EnvStep(plant, nb, w) = w

(* The inductive invariant behind the above.  In the comparing phase s is  *)
(* F(W) itself, because the inner fuel plus the states already found       *)
(* always exceeds num_states: the inner loop can only stop at a fixed      *)
(* point.  The outer fuel exceeds the size of W for the same reason.       *)
ChainInv ==
  /\ chain = << >> => w = InitialW(plant)
  /\ chain # << >> =>
       /\ chain[1] = InitialW(plant)
       /\ chainPc # "done" => w = EnvStep(plant, nb, chain[Len(chain)])
       /\ chainPc = "done" => chain[Len(chain)] = w
  /\ chainPc = "done" => chain # << >>
  /\ \A i \in 1 .. (Len(chain) - 1) : chain[i + 1] = EnvStep(plant, nb, chain[i])

PhaseInv ==
  /\ chainPc \in {"coreach", "compare"} => u = UcFilter(plant, w)
  /\ chainPc = "coreach" => /\ nb
                       /\ MarkedIn(plant, u) \subseteq s
                       /\ s \subseteq CoreachIn(plant, u)
  /\ chainPc = "compare" => s = EnvStep(plant, nb, w)
  /\ chainPc = "done" => EnvStep(plant, nb, w) = w

FuelInv ==
  /\ chainPc # "done" => fuel > Cardinality(w)
  /\ chainPc = "coreach" => cofuel + Cardinality(s) > plant.numStates

ChainIInv == ChainTypeOK /\ w \subseteq InitialW(plant) /\ NothingGoodLost
        /\ PhaseInv /\ FuelInv /\ ChainInv

(* The abstract view: a set that only ever shrinks, never below the        *)
(* greatest good set, and that stops there.                                *)
Abstract == INSTANCE GreatestGoodSet WITH set <- w, done <- (chainPc = "done")
Implements == Abstract!Spec
=============================================================================
