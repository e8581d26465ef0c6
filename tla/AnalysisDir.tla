---------------------------- MODULE AnalysisDir ----------------------------
(***************************************************************************)
(* An analysis directory on disk: what one run writes and in which order   *)
(* (analyze_model_at), a run that is killed or gives up between two writes *)
(* or inside one, the next run into the same directory, and what verify    *)
(* accepts.  Nothing is written to a temporary name and nothing left by an *)
(* earlier run is removed.                                                 *)
(*                                                                         *)
(* What a file says is a function of the run's input: of its model alone   *)
(* for the model, its normalisations and the certificates, which are taken *)
(* to hold for that model, on its control plant where it has one.  Files   *)
(* verify never reads (worker responses, kernel log, witnesses) are left   *)
(* out.                                                                    *)
(***************************************************************************)
EXTENDS Integers, Sequences, FiniteSets

CONSTANTS
  Inputs,      \* records [model, kind]: the kind is the ledger's
  CertsOf,     \* the certificates a run on an input produces, in order
  WithPlant,   \* the models that have a control plant
  OnPlant,     \* the certificates of an input that are about its plant
  Absent, Torn,
  MaxRuns      \* runs into the directory

CertIds == UNION {{CertsOf[in][k] : k \in DOMAIN CertsOf[in]} : in \in Inputs}
Fixed == {"model", "core", "check", "ledger", "manifest", "report", "sarif"}
Names == Fixed \cup {"plant"} \cup CertIds

ASSUME DirAssumption ==
  /\ CertsOf \in [Inputs -> Seq(CertIds)]
  /\ CertIds \cap (Fixed \cup {"plant"}) = {}
  /\ OnPlant \in [Inputs -> SUBSET CertIds]
  /\ \A in \in Inputs : OnPlant[in] # {} => in.model \in WithPlant
  /\ Absent \notin Inputs /\ Torn \notin Inputs /\ Absent # Torn
  /\ MaxRuns \in Nat

VARIABLES
  files,   \* [Names -> content]
  run,     \* the input of the run under way, Absent when none is
  step,    \* the next file it writes
  last,    \* the input of the run that wrote last, and whether it finished
  runs     \* runs started

vars == <<files, run, step, last, runs>>

-----------------------------------------------------------------------------
PlantFile(model) == IF model \in WithPlant THEN <<"plant">> ELSE <<>>

WriteOrder(in) ==
  <<"model", "core">> \o PlantFile(in.model) \o CertsOf[in]
    \o <<"check", "ledger", "manifest", "report", "sarif">>

CertsIn(in) == {CertsOf[in][k] : k \in DOMAIN CertsOf[in]}

FilesOf(in) ==
  Fixed \cup (IF in.model \in WithPlant THEN {"plant"} ELSE {}) \cup CertsIn(in)

(* Check.lean embeds the model and every certificate it is about. *)
Generated(model, certs) == [model |-> model, certs |-> certs]

Content(in, name) ==
  CASE name \in {"model", "core", "plant"} \cup CertIds -> in.model
    [] name = "check" -> Generated(in.model, [id \in CertsIn(in) |-> in.model])
    [] name = "ledger" -> in.kind
    [] OTHER -> in

(* A file that was written whole can be told from one that was not. *)
ASSUME ContentAssumption ==
  \A in \in Inputs : \A n \in Names : Content(in, n) \notin {Absent, Torn}

Init ==
  /\ files = [n \in Names |-> Absent]
  /\ run = Absent /\ step = 0
  /\ last = Absent
  /\ runs = 0

Begin(in) ==
  /\ run = Absent /\ runs < MaxRuns
  /\ run' = in /\ step' = 1
  /\ last' = Absent
  /\ runs' = runs + 1
  /\ UNCHANGED files

Write ==
  /\ run # Absent /\ step <= Len(WriteOrder(run))
  /\ files' = [files EXCEPT ![WriteOrder(run)[step]] = Content(run, WriteOrder(run)[step])]
  /\ step' = step + 1
  /\ UNCHANGED <<run, last, runs>>

Finish ==
  /\ run # Absent /\ step > Len(WriteOrder(run))
  /\ last' = run
  /\ run' = Absent /\ step' = 0
  /\ UNCHANGED <<files, runs>>

(* An error (no worker, a kernel that cannot be started) or a kill ends    *)
(* the run between two writes.                                             *)
Stop ==
  /\ run # Absent /\ step <= Len(WriteOrder(run))
  /\ run' = Absent /\ step' = 0
  /\ UNCHANGED <<files, last, runs>>

(* A write truncates first: a kill inside it leaves half a file. *)
KilledInWrite ==
  /\ run # Absent /\ step <= Len(WriteOrder(run))
  /\ files' = [files EXCEPT ![WriteOrder(run)[step]] = Torn]
  /\ run' = Absent /\ step' = 0
  /\ UNCHANGED <<last, runs>>

Next == (\E in \in Inputs : Begin(in)) \/ Write \/ Finish \/ Stop \/ KilledInWrite

Spec == Init /\ [][Next]_vars

-----------------------------------------------------------------------------
(* verify: what it reads, in its order, as one condition.  A file that is  *)
(* missing or does not parse fails it.                                     *)
Readable(names) == \A n \in names : files[n] \notin {Absent, Torn}

ModelMatches ==
  /\ Readable({"manifest", "model", "core"})
  /\ files["manifest"].model = files["model"]
  /\ files["core"] = files["model"]
  /\ files["model"] \in WithPlant => files["plant"] = files["model"]

(* Fault: the certificates found are checked, not those listed. *)
ListedByFile == {id \in CertIds : files[id] # Absent}

(* The certificates the manifest lists, each checked on the core model it  *)
(* is listed with: the implementation or the control plant.                *)
Listed == CertsIn(files["manifest"])

CheckedOn(id) == IF id \in OnPlant[files["manifest"]] THEN "plant" ELSE "core"

CertsHold == Readable(Listed) /\ \A id \in Listed : files[id] = files[CheckedOn(id)]

SarifAgrees == Readable({"report", "sarif"}) /\ files["sarif"] = files["report"]

(* The ledger's kind is the manifest's, and the report's obligations are   *)
(* those the ledger's kind asks for.                                       *)
LedgerAgrees ==
  /\ Readable({"ledger", "report"})
  /\ files["ledger"] = files["manifest"].kind
  /\ files["report"].kind = files["ledger"]

CheckRegenerates ==
  /\ Readable({"check"})
  /\ files["check"] = Generated(files["model"], [id \in Listed |-> files[id]])

(* Fault: the SARIF file is not looked at. *)
VerifyOkNoSarif == ModelMatches /\ CertsHold /\ LedgerAgrees /\ CheckRegenerates

VerifyOk == ModelMatches /\ CertsHold /\ SarifAgrees /\ LedgerAgrees /\ CheckRegenerates

-----------------------------------------------------------------------------
(* Whatever earlier runs left behind, a run that finishes leaves a         *)
(* directory verify accepts, all of it its own: no stale certificate and   *)
(* no half-written file is picked up.                                      *)
FinishedVerifies ==
  last # Absent =>
    VerifyOk /\ \A n \in FilesOf(last) : files[n] = Content(last, n)

(* While no file of another input is in it, a directory verify accepts is  *)
(* complete: a run that was killed is never taken for one that finished.   *)
OkMeansComplete ==
  VerifyOk =>
    \A in \in Inputs :
      (\A n \in Names : files[n] \in {Absent, Torn, Content(in, n)}) =>
         \A n \in FilesOf(in) : files[n] = Content(in, n)

(* The inductive invariant: the names the run under way has passed hold    *)
(* what it wrote, and after a run that finished all of its names do.       *)
Written(in, names) == \A n \in names : files[n] = Content(in, n)

DirInv ==
  /\ DOMAIN files = Names
  /\ run \in Inputs \cup {Absent} /\ last \in Inputs \cup {Absent}
  /\ run # Absent =>
       /\ last = Absent
       /\ step \in 1 .. Len(WriteOrder(run)) + 1
       /\ Written(run, {WriteOrder(run)[k] : k \in 1 .. step - 1})
  /\ last # Absent => Written(last, FilesOf(last))

(* main.rs: OK answers "is this directory internally consistent": what is  *)
(* reported was found on the model in it.                                  *)
OkIsConsistent ==
  run = Absent /\ VerifyOk => files["report"].model = files["model"]
=============================================================================
