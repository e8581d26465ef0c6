-------------------------- MODULE CertificateCheck --------------------------
(***************************************************************************)
(* checkCertificate: the one entry point both mulu-worker and the Lean     *)
(* kernel run on every certificate.  A certificate is untrusted: it may    *)
(* have been produced by a broken search, edited on disk, or written for   *)
(* another model.  The two kinds whose check is a loop (a violation path,  *)
(* an envelope chain with its inner saturation) are checked one element at *)
(* a time, as the code does; the others are one evaluation.                *)
(***************************************************************************)
EXTENDS Plant, Sequences

CONSTANTS
  Plants,        \* the plants a certificate may be checked on
  Certificates   \* the certificates that may be handed to the checker

Kinds == {"reachability", "redundancy", "unreachable-check", "violation", "envelope"}

(* The JSON shapes the worker parses, with nothing promised about content. *)
IsCertificate(c) ==
  /\ c.kind \in Kinds
  /\ c.kind = "violation" =>
       c.path \in Seq([src : Nat, ev : Nat, dst : Nat])
  /\ c.kind = "envelope" =>
       c.nonblocking \in BOOLEAN /\ c.chain \in Seq(SUBSET Nat)

ASSUME InputAssumption ==
  /\ \A p \in Plants : IsPlant(p)
  /\ \A c \in Certificates : IsCertificate(c)

VARIABLES
  plant, cert,   \* the inputs, never changed
  pc,            \* "start", "path", "chain", "coreach", "compare", "accepted", "rejected"
  i,             \* position in the path or in the chain
  u, s, cofuel   \* the inner saturation of one envelope step

vars == <<plant, cert, pc, i, u, s, cofuel>>

-----------------------------------------------------------------------------
(* The checks that are one evaluation. *)

NeverFailsOn(p, R, c) == \A e \in p.edges : e.ev = c.fail_event => e.src \notin R

ReachedOn(p, R, c) == \E e \in p.edges : e.ev = c.pass_event /\ e.src \in R

CheckRedundancy(p, R, c) == IsClosed(p, R) /\ NeverFailsOn(p, R, c)

CheckUnreachable(p, R, c) ==
  IsClosed(p, R) /\ ~ ReachedOn(p, R, c) /\ NeverFailsOn(p, R, c)

SetsOk ==
  CASE cert.kind = "reachability" -> IsClosed(plant, cert.states)
    [] cert.kind = "redundancy" -> CheckRedundancy(plant, cert.states, cert.check)
    [] OTHER -> CheckUnreachable(plant, cert.states, cert.check)

(* What a success is supposed to mean.                                     *)
Claim ==
  CASE cert.kind = "reachability" -> Reachable(plant) \subseteq cert.states
    [] cert.kind = "redundancy" ->
         \A e \in plant.edges : e.src \in Reachable(plant) => e.ev # cert.check.fail_event
    [] cert.kind = "unreachable-check" ->
         \A e \in plant.edges : e.src \in Reachable(plant) =>
           e.ev \notin {cert.check.pass_event, cert.check.fail_event}
    [] cert.kind = "violation" -> Reachable(plant) \cap plant.bad # {}
    [] OTHER ->
         LET W == cert.chain[Len(cert.chain)]
         IN  Good(plant, cert.nonblocking, W) /\ W = Envelope(plant, cert.nonblocking)

-----------------------------------------------------------------------------
Init ==
  /\ plant \in Plants
  /\ cert \in Certificates
  /\ pc = "start" /\ i = 1
  /\ u = {} /\ s = {} /\ cofuel = 0

Verdict(ok) == pc' = IF ok THEN "accepted" ELSE "rejected"

CheckSets ==
  /\ pc = "start" /\ cert.kind \notin {"violation", "envelope"}
  /\ Verdict(SetsOk)
  /\ UNCHANGED <<plant, cert, i, u, s, cofuel>>

(* An empty path proves nothing, not even when an initial state is bad.    *)
StartPath ==
  /\ pc = "start" /\ cert.kind = "violation"
  /\ pc' = IF cert.path # << >> /\ cert.path[1].src \in plant.initial
           THEN "path" ELSE "rejected"
  /\ UNCHANGED <<plant, cert, i, u, s, cofuel>>

(* Fault: every element is an edge of the plant, whether or not it starts  *)
(* where the one before ended.                                             *)
PathMiddleUnconnected ==
  /\ pc = "path" /\ i < Len(cert.path)
  /\ IF cert.path[i] \in plant.edges
     THEN i' = i + 1 /\ UNCHANGED pc
     ELSE pc' = "rejected" /\ UNCHANGED i
  /\ UNCHANGED <<plant, cert, u, s, cofuel>>

PathMiddle ==
  /\ pc = "path" /\ i < Len(cert.path)
  /\ IF cert.path[i] \in plant.edges /\ cert.path[i].dst = cert.path[i + 1].src
     THEN i' = i + 1 /\ UNCHANGED pc
     ELSE pc' = "rejected" /\ UNCHANGED i
  /\ UNCHANGED <<plant, cert, u, s, cofuel>>

PathEnd ==
  /\ pc = "path" /\ i = Len(cert.path)
  /\ Verdict(cert.path[i] \in plant.edges /\ cert.path[i].dst \in plant.bad)
  /\ UNCHANGED <<plant, cert, i, u, s, cofuel>>

StartChain ==
  /\ pc = "start" /\ cert.kind = "envelope"
  /\ pc' = IF cert.chain # << >> /\ cert.chain[1] = InitialW(plant)
           THEN "chain" ELSE "rejected"
  /\ UNCHANGED <<plant, cert, i, u, s, cofuel>>

(* Fault: too little fuel to redo the saturation of an honest chain. *)
ChainElementShortOfFuel ==
  /\ pc = "chain"
  /\ u' = UcFilter(plant, cert.chain[i])
  /\ IF cert.nonblocking
     THEN s' = MarkedIn(plant, u') /\ cofuel' = 0 /\ pc' = "coreach"
     ELSE s' = u' /\ pc' = "compare" /\ UNCHANGED cofuel
  /\ UNCHANGED <<plant, cert, i>>

(* One certified step starts: U of the set at hand, recomputed.            *)
ChainElement ==
  /\ pc = "chain"
  /\ u' = UcFilter(plant, cert.chain[i])
  /\ IF cert.nonblocking
     THEN /\ s' = MarkedIn(plant, u')
          /\ cofuel' = plant.numStates + 1
          /\ pc' = "coreach"
     ELSE /\ s' = u' /\ pc' = "compare" /\ UNCHANGED cofuel
  /\ UNCHANGED <<plant, cert, i>>

CoreachRound ==
  /\ pc = "coreach" /\ cofuel > 0
  /\ ~ (PreIn(plant, u, s) \subseteq s)
  /\ s' = s \cup PreIn(plant, u, s)
  /\ cofuel' = cofuel - 1
  /\ UNCHANGED <<plant, cert, pc, i, u>>

CoreachStop ==
  /\ pc = "coreach"
  /\ cofuel > 0 => PreIn(plant, u, s) \subseteq s
  /\ pc' = "compare"
  /\ UNCHANGED <<plant, cert, i, u, s, cofuel>>

(* The next set of the chain, or the same one after the last.              *)
Target == IF i < Len(cert.chain) THEN cert.chain[i + 1] ELSE cert.chain[i]

Compare ==
  /\ pc = "compare"
  /\ LET ok == /\ cert.nonblocking => CoreachClosed(plant, u, s)
               /\ s = Target
     IN  IF ok /\ i < Len(cert.chain)
         THEN pc' = "chain" /\ i' = i + 1
         ELSE Verdict(ok) /\ UNCHANGED i
  /\ UNCHANGED <<plant, cert, u, s, cofuel>>

Next ==
  \/ CheckSets
  \/ StartPath \/ PathMiddle \/ PathEnd
  \/ StartChain \/ ChainElement \/ CoreachRound \/ CoreachStop \/ Compare

Spec == Init /\ [][Next]_vars

-----------------------------------------------------------------------------
TypeOK ==
  /\ IsPlant(plant) /\ IsCertificate(cert)
  /\ pc \in {"start", "path", "chain", "coreach", "compare", "accepted", "rejected"}
  /\ pc \in {"path"} => cert.kind = "violation" /\ i \in 1 .. Len(cert.path)
  /\ pc \in {"chain", "coreach", "compare"} =>
       cert.kind = "envelope" /\ i \in 1 .. Len(cert.chain)
  /\ i \in Nat \ {0} /\ cofuel \in Nat
  /\ u \subseteq States(plant) /\ s \subseteq u

(* checkCertificate_sound: whatever was handed in, an accepted certificate *)
(* carries its claim about the plant it was checked on.                    *)
AcceptedIsTrue == pc = "accepted" => Claim

(* The chain is not the sequence of envelope iterates down to a fixpoint.  *)
ChainIsWrong ==
  \/ cert.chain[1] # InitialW(plant)
  \/ \E k \in 1 .. (Len(cert.chain) - 1) :
       cert.chain[k + 1] # EnvStep(plant, cert.nonblocking, cert.chain[k])
  \/ LET W == cert.chain[Len(cert.chain)] IN EnvStep(plant, cert.nonblocking, W) # W

(* The chain of envelope iterates of this very plant is never rejected:    *)
(* the check recomputes each step with enough fuel to agree with it.       *)
TrueChainAccepted ==
  (pc = "rejected" /\ cert.kind = "envelope" /\ cert.chain # << >>) => ChainIsWrong

(* The inductive invariant: what the elements checked so far have shown.   *)
PathInv == pc = "path" => cert.path[i].src \in Reachable(plant)

KeepsGood ==
  \A G \in SUBSET InitialW(plant) :
    Good(plant, cert.nonblocking, G) => G \subseteq cert.chain[i]

ChainInv ==
  /\ pc \in {"chain", "coreach", "compare"} =>
       cert.chain[i] \subseteq InitialW(plant) /\ KeepsGood
  /\ pc \in {"coreach", "compare"} => u = UcFilter(plant, cert.chain[i])
  /\ pc = "coreach" => cert.nonblocking
  /\ pc \in {"coreach", "compare"} =>
       IF cert.nonblocking THEN s \subseteq CoreachIn(plant, u) ELSE s = u

StartInv == pc = "start" => i = 1

IInv == TypeOK /\ StartInv /\ PathInv /\ ChainInv /\ AcceptedIsTrue

(* The inner saturation ends closed: the fuel left exceeds the number of   *)
(* states it can still find.                                               *)
FuelInv ==
  /\ pc = "coreach" =>
       MarkedIn(plant, u) \subseteq s /\ cofuel + Cardinality(s) > plant.numStates
  /\ (pc = "compare" /\ cert.nonblocking) => CoreachClosed(plant, u, s)
=============================================================================
