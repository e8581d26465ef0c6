----------------------------- MODULE CrossCheck -----------------------------
(***************************************************************************)
(* What mulu does with one plant and one objective: the reachable set and  *)
(* the envelope are computed by mulu-worker and again by the reference of  *)
(* mulu-model, and the caller compares the answers (a difference is a      *)
(* cross-check error, exit code 4).  The computations run one after the    *)
(* other and share nothing but the request.                                *)
(***************************************************************************)
EXTENDS ReachCrossCheck, EnvelopeChain, ReferenceEnvelope

vars == <<reachVars, chainVars, refVars>>

Init == RequestInit /\ ReachStart /\ ChainStart /\ RefStart

ReachStage == ReachNext /\ UNCHANGED <<chainVars, refVars>>

EnvelopeStage == reachPc = "done" /\ ChainNext /\ UNCHANGED <<reachVars, refVars>>

ReferenceStage == chainPc = "done" /\ RefNext /\ UNCHANGED <<reachVars, chainVars>>

Next == ReachStage \/ EnvelopeStage \/ ReferenceStage

Spec == Init /\ [][Next]_vars

(* Each computation is one sequential process: it is scheduled until it    *)
(* answers.                                                                *)
FairSpec == Spec /\ WF_vars(Next)

-----------------------------------------------------------------------------
TypeOK == ReachTypeOK /\ ChainTypeOK /\ RefTypeOK

(* The worker's envelope, saturated set by set on fuel, and the reference  *)
(* envelope, inserted edge by edge without fuel, are the same set on every *)
(* plant and for every order of the edge list.                             *)
EnvelopesAgree == refPc = "done" => refW = w

(* All loops end, those on fuel and those without: the request is          *)
(* answered and cross-checked.                                             *)
Terminates == <>(refPc = "done")
=============================================================================
