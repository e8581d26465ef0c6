------------------------- MODULE AnalysisDirProofs -------------------------
(***************************************************************************)
(* The analysis directory for any set of inputs, any number of runs and    *)
(* any point at which they are stopped or killed: what a finished run      *)
(* leaves is accepted, and what one run left unfinished is not.            *)
(***************************************************************************)
EXTENDS AnalysisDir, SequenceTheorems, TLAPS

-----------------------------------------------------------------------------
(* What a sequence holds, and one put together from two. *)
Holds(q) == {q[k] : k \in 1 .. Len(q)}

LEMMA ConcatHolds ==
  ASSUME NEW S, NEW s \in Seq(S), NEW t \in Seq(S)
  PROVE  s \o t \in Seq(S) /\ Holds(s \o t) = Holds(s) \cup Holds(t)
<1>1. /\ s \o t \in Seq(S) /\ Len(s \o t) = Len(s) + Len(t)
      /\ \A k \in 1 .. Len(s) + Len(t) :
           (s \o t)[k] = IF k <= Len(s) THEN s[k] ELSE t[k - Len(s)]
  BY ConcatProperties
<1>2. Len(s) \in Nat /\ Len(t) \in Nat
  OBVIOUS
<1>3. ASSUME NEW x \in Holds(s \o t) PROVE x \in Holds(s) \cup Holds(t)
  <2>1. PICK k \in 1 .. Len(s) + Len(t) : x = (s \o t)[k]
    BY <1>1 DEF Holds
  <2>2. CASE k <= Len(s)
    <3>1. k \in 1 .. Len(s) /\ x = s[k]
      BY <1>1, <1>2, <2>1, <2>2
    <3> QED BY <3>1 DEF Holds
  <2>3. CASE ~ (k <= Len(s))
    <3>1. k - Len(s) \in 1 .. Len(t) /\ x = t[k - Len(s)]
      BY <1>1, <1>2, <2>1, <2>3
    <3> QED BY <3>1 DEF Holds
  <2> QED BY <2>2, <2>3
<1>4. ASSUME NEW x \in Holds(s) PROVE x \in Holds(s \o t)
  <2>1. PICK j \in 1 .. Len(s) : x = s[j]
    BY DEF Holds
  <2>2. j \in 1 .. Len(s) + Len(t) /\ j <= Len(s)
    BY <1>2
  <2>3. (s \o t)[j] = x
    BY <1>1, <2>1, <2>2
  <2> QED BY <1>1, <2>2, <2>3 DEF Holds
<1>5. ASSUME NEW x \in Holds(t) PROVE x \in Holds(s \o t)
  <2>1. PICK j \in 1 .. Len(t) : x = t[j]
    BY DEF Holds
  <2>2. /\ j + Len(s) \in 1 .. Len(s) + Len(t) /\ ~ (j + Len(s) <= Len(s))
        /\ (j + Len(s)) - Len(s) = j
    BY <1>2
  <2>3. (s \o t)[j + Len(s)] = x
    BY <1>1, <2>1, <2>2
  <2> QED BY <1>1, <2>2, <2>3 DEF Holds
<1> QED BY <1>1, <1>3, <1>4, <1>5

(* The order of the writes names the files of a run and nothing else. *)
LEMMA WriteOrderNames ==
  ASSUME NEW in \in Inputs
  PROVE  /\ WriteOrder(in) \in Seq(Names)
         /\ Len(WriteOrder(in)) \in Nat
         /\ {WriteOrder(in)[k] : k \in 1 .. Len(WriteOrder(in))} = FilesOf(in)
         /\ CertsIn(in) \subseteq CertIds
         /\ FilesOf(in) \subseteq Names
<1> DEFINE a == <<"model", "core">>
           p == PlantFile(in.model)
           c == CertsOf[in]
           b == <<"check", "ledger", "manifest", "report", "sarif">>
<1>1. c \in Seq(CertIds) /\ DOMAIN c = 1 .. Len(c)
  BY DirAssumption
<1>2. CertsIn(in) \subseteq CertIds
  BY DEF CertsIn, CertIds
<1>3. a \in Seq(Names) /\ p \in Seq(Names) /\ c \in Seq(Names) /\ b \in Seq(Names)
  <2>1. a \in Seq(Names) /\ b \in Seq(Names)
    BY DEF Names, Fixed
  <2>2. c \in Seq(Names)
    BY <1>1 DEF Names
  <2>3. p \in Seq(Names)
    <3>1. <<"plant">> \in Seq(Names) /\ <<>> \in Seq(Names)
      BY DEF Names
    <3> QED BY <3>1 DEF PlantFile
  <2> QED BY <2>1, <2>2, <2>3
<1>4. Holds(a) = {"model", "core"}
  <2>1. Len(a) = 2 /\ a[1] = "model" /\ a[2] = "core" /\ 1 .. 2 = {1, 2}
    OBVIOUS
  <2> HIDE DEF a
  <2> QED BY <2>1 DEF Holds
<1>5. Holds(b) = {"check", "ledger", "manifest", "report", "sarif"}
  <2>1. /\ Len(b) = 5 /\ b[1] = "check" /\ b[2] = "ledger" /\ b[3] = "manifest"
        /\ b[4] = "report" /\ b[5] = "sarif" /\ 1 .. 5 = {1, 2, 3, 4, 5}
    OBVIOUS
  <2> HIDE DEF b
  <2> QED BY <2>1 DEF Holds
<1>6. Holds(p) = IF in.model \in WithPlant THEN {"plant"} ELSE {}
  <2>1. CASE in.model \in WithPlant
    <3>1. p = <<"plant">>
      BY <2>1 DEF PlantFile
    <3>2. Len(<<"plant">>) = 1 /\ <<"plant">>[1] = "plant" /\ 1 .. 1 = {1}
      OBVIOUS
    <3> HIDE DEF p
    <3> QED BY <2>1, <3>1, <3>2 DEF Holds
  <2>2. CASE in.model \notin WithPlant
    <3>1. p = <<>> /\ Len(<<>>) = 0 /\ 1 .. 0 = {}
      BY <2>2 DEF PlantFile
    <3> HIDE DEF p
    <3> QED BY <2>2, <3>1 DEF Holds
  <2> QED BY <2>1, <2>2
<1>7. Holds(c) = CertsIn(in)
  BY <1>1 DEF CertsIn, Holds
<1> DEFINE ap == a \o p
           apc == ap \o c
<1>8. WriteOrder(in) = apc \o b
  BY DEF WriteOrder
<1> HIDE DEF a, p, c, b
<1>9. ap \in Seq(Names) /\ Holds(ap) = Holds(a) \cup Holds(p)
  BY <1>3, ConcatHolds
<1> HIDE DEF ap
<1>10. apc \in Seq(Names) /\ Holds(apc) = Holds(ap) \cup Holds(c)
  BY <1>3, <1>9, ConcatHolds
<1> HIDE DEF apc
<1>11. WriteOrder(in) \in Seq(Names) /\ Holds(WriteOrder(in)) = Holds(apc) \cup Holds(b)
  BY <1>3, <1>8, <1>10, ConcatHolds
<1>12. Len(WriteOrder(in)) \in Nat
  BY <1>11
<1>13. Holds(WriteOrder(in)) = FilesOf(in)
  <2>1. Holds(WriteOrder(in)) = ((Holds(a) \cup Holds(p)) \cup Holds(c)) \cup Holds(b)
    BY <1>9, <1>10, <1>11
  <2> QED BY <1>4, <1>5, <1>6, <1>7, <2>1 DEF FilesOf, Fixed
<1>14. FilesOf(in) \subseteq Names
  BY <1>2 DEF FilesOf, Names
<1> QED BY <1>2, <1>11, <1>12, <1>13, <1>14 DEF Holds

-----------------------------------------------------------------------------
(* Each step keeps the invariant.                                          *)
LEMMA InitDirInv == Init => DirInv
BY DirAssumption DEF Init, DirInv

LEMMA BeginDirInv ==
  ASSUME DirInv, NEW in \in Inputs, Begin(in)
  PROVE  DirInv'
<1>1. run' = in /\ step' = 1 /\ last' = Absent /\ files' = files
  BY DEF Begin
<1>2. Len(WriteOrder(in)) \in Nat
  BY WriteOrderNames
<1> QED BY <1>1, <1>2, DirAssumption DEF DirInv, Written

LEMMA WriteDirInv ==
  ASSUME DirInv, Write
  PROVE  DirInv'
<1> DEFINE w == WriteOrder(run)
<1>1. /\ run \in Inputs /\ run # Absent /\ last = Absent /\ step \in 1 .. Len(w) + 1
      /\ step <= Len(w) /\ run' = run /\ last' = last /\ step' = step + 1
      /\ files' = [files EXCEPT ![w[step]] = Content(run, w[step])]
      /\ DOMAIN files = Names /\ Written(run, {w[k] : k \in 1 .. step - 1})
  BY DEF DirInv, Write
<1>2. w \in Seq(Names) /\ Len(w) \in Nat
  BY <1>1, WriteOrderNames
<1>3. step \in 1 .. Len(w) /\ w[step] \in Names
  BY <1>1, <1>2
<1>4. DOMAIN files' = Names
  BY <1>1
<1>5. step' \in 1 .. Len(w) + 1
  BY <1>1, <1>2
<1>6. ASSUME NEW k \in 1 .. step' - 1 PROVE files'[w[k]] = Content(run, w[k])
  <2>1. k \in 1 .. step
    BY <1>1, <1>3
  <2>2. CASE w[k] = w[step]
    BY <1>1, <1>3, <2>2
  <2>3. CASE w[k] # w[step]
    <3>1. k \in 1 .. step - 1 /\ w[k] \in Names
      BY <1>2, <1>3, <2>1, <2>3
    <3>2. files[w[k]] = Content(run, w[k])
      BY <1>1, <3>1 DEF Written
    <3> QED BY <1>1, <2>3, <3>1, <3>2
  <2> QED BY <2>2, <2>3
<1>7. Written(run, {WriteOrder(run)[k] : k \in 1 .. step - 1})'
  BY <1>1, <1>6 DEF Written
<1> QED BY <1>1, <1>4, <1>5, <1>7 DEF DirInv

LEMMA FinishDirInv ==
  ASSUME DirInv, Finish
  PROVE  DirInv'
<1> DEFINE w == WriteOrder(run)
<1>1. /\ run \in Inputs /\ step \in 1 .. Len(w) + 1 /\ step > Len(w)
      /\ run' = Absent /\ last' = run /\ files' = files /\ DOMAIN files = Names
      /\ Written(run, {w[k] : k \in 1 .. step - 1})
  BY DEF DirInv, Finish
<1>2. Len(w) \in Nat /\ {w[k] : k \in 1 .. Len(w)} = FilesOf(run)
  BY <1>1, WriteOrderNames
<1>3. step - 1 = Len(w)
  BY <1>1, <1>2
<1>4. Written(run, FilesOf(run))
  BY <1>1, <1>2, <1>3
<1>5. Written(last, FilesOf(last))'
  BY <1>1, <1>4 DEF Written
<1> QED BY <1>1, <1>5 DEF DirInv

(* A run that is stopped or killed leaves no finished run behind it.       *)
LEMMA StopDirInv ==
  ASSUME DirInv, Stop \/ KilledInWrite
  PROVE  DirInv'
<1>1. /\ run' = Absent /\ last' = Absent
  BY DEF DirInv, Stop, KilledInWrite
<1>2. DOMAIN files' = Names
  BY DEF DirInv, Stop, KilledInWrite
<1> QED BY <1>1, <1>2 DEF DirInv

LEMMA DirInvariant == Spec => []DirInv
<1>1. ASSUME DirInv, UNCHANGED vars PROVE DirInv'
  BY <1>1 DEF DirInv, vars, Written
<1>2. DirInv /\ [Next]_vars => DirInv'
  BY <1>1, BeginDirInv, WriteDirInv, FinishDirInv, StopDirInv DEF Next
<1> QED BY InitDirInv, <1>2, PTL DEF Spec

-----------------------------------------------------------------------------
(* What the files of one input say, name by name. *)
LEMMA ContentOf ==
  ASSUME NEW in \in Inputs
  PROVE  /\ Content(in, "model") = in.model /\ Content(in, "core") = in.model
         /\ Content(in, "plant") = in.model
         /\ \A id \in CertIds : Content(in, id) = in.model
         /\ Content(in, "check") = Generated(in.model, [id \in CertsIn(in) |-> in.model])
         /\ Content(in, "ledger") = in.kind
         /\ Content(in, "manifest") = in /\ Content(in, "report") = in
         /\ Content(in, "sarif") = in
         /\ \A n \in Names : Content(in, n) \notin {Absent, Torn}
<1>1. CertIds \cap Fixed = {}
  BY DirAssumption
<1>2. /\ "check" \notin CertIds /\ "ledger" \notin CertIds /\ "manifest" \notin CertIds
      /\ "report" \notin CertIds /\ "sarif" \notin CertIds
  BY <1>1 DEF Fixed
<1>3. \A id \in CertIds : Content(in, id) = in.model
  BY <1>1, <1>2 DEF Content
<1>4. /\ Content(in, "model") = in.model /\ Content(in, "core") = in.model
      /\ Content(in, "plant") = in.model
  BY DEF Content
<1>5. Content(in, "check") = Generated(in.model, [id \in CertsIn(in) |-> in.model])
  BY <1>2 DEF Content
<1>6. Content(in, "ledger") = in.kind
  BY <1>2 DEF Content
<1>7. Content(in, "manifest") = in /\ Content(in, "report") = in /\ Content(in, "sarif") = in
  BY <1>2 DEF Content
<1>8. \A n \in Names : Content(in, n) \notin {Absent, Torn}
  BY ContentAssumption
<1> QED BY <1>3, <1>4, <1>5, <1>6, <1>7, <1>8

(* A directory that is all of one run is accepted. *)
LEMMA OwnFilesVerify ==
  ASSUME NEW in \in Inputs, Written(in, FilesOf(in))
  PROVE  VerifyOk
<1>1. CertsIn(in) \subseteq CertIds /\ FilesOf(in) \subseteq Names
      /\ Fixed \subseteq FilesOf(in) /\ CertsIn(in) \subseteq FilesOf(in)
  BY WriteOrderNames DEF FilesOf
<1>2. \A n \in FilesOf(in) : files[n] = Content(in, n) /\ files[n] \notin {Absent, Torn}
  <2>1. \A n \in FilesOf(in) : Content(in, n) \notin {Absent, Torn}
    BY <1>1, ContentOf
  <2> QED BY <2>1 DEF Written
<1>3. /\ files["model"] = in.model /\ files["core"] = in.model
      /\ files["check"] = Generated(in.model, [id \in CertsIn(in) |-> in.model])
      /\ files["ledger"] = in.kind /\ files["manifest"] = in /\ files["report"] = in
      /\ files["sarif"] = in
      /\ \A id \in CertsIn(in) : files[id] = in.model
      /\ in.model \in WithPlant => files["plant"] = in.model
  <2>1. /\ Content(in, "model") = in.model /\ Content(in, "core") = in.model
        /\ Content(in, "plant") = in.model
        /\ \A id \in CertIds : Content(in, id) = in.model
        /\ Content(in, "check") = Generated(in.model, [id \in CertsIn(in) |-> in.model])
        /\ Content(in, "ledger") = in.kind /\ Content(in, "manifest") = in
        /\ Content(in, "report") = in /\ Content(in, "sarif") = in
    BY ContentOf
  <2>2. \A n \in Fixed : files[n] = Content(in, n)
    BY <1>1, <1>2
  <2>3. \A id \in CertsIn(in) : files[id] = Content(in, id)
    BY <1>1, <1>2
  <2>4. \A id \in CertsIn(in) : files[id] = in.model
    BY <1>1, <2>1, <2>3
  <2>5. /\ files["model"] = Content(in, "model") /\ files["core"] = Content(in, "core")
        /\ files["check"] = Content(in, "check") /\ files["ledger"] = Content(in, "ledger")
        /\ files["manifest"] = Content(in, "manifest") /\ files["report"] = Content(in, "report")
        /\ files["sarif"] = Content(in, "sarif")
    BY <2>2 DEF Fixed
  <2>6. in.model \in WithPlant => files["plant"] = Content(in, "plant")
    BY <1>2 DEF FilesOf
  <2> QED BY <2>1, <2>4, <2>5, <2>6
<1>4. Readable(Fixed) /\ Readable(CertsIn(in))
  BY <1>1, <1>2 DEF Readable
<1>5. Listed = CertsIn(in)
  BY <1>3 DEF Listed
<1>6. ModelMatches /\ SarifAgrees /\ LedgerAgrees
  BY <1>3, <1>4 DEF ModelMatches, SarifAgrees, LedgerAgrees, Readable, Fixed
<1>7. CertsHold
  <2>1. ASSUME NEW id \in CertsIn(in) PROVE files[id] = files[CheckedOn(id)]
    <3>1. CASE id \in OnPlant[in]
      BY <1>3, <2>1, <3>1, DirAssumption DEF CheckedOn
    <3>2. CASE id \notin OnPlant[in]
      BY <1>3, <2>1, <3>2 DEF CheckedOn
    <3> QED BY <3>1, <3>2
  <2> QED BY <1>4, <1>5, <2>1 DEF CertsHold
<1>8. CheckRegenerates
  <2>1. [id \in Listed |-> files[id]] = [id \in CertsIn(in) |-> in.model]
    BY <1>3, <1>5
  <2>2. Readable({"check"})
    BY <1>4 DEF Readable, Fixed
  <2> QED BY <1>3, <2>1, <2>2 DEF CheckRegenerates
<1> QED BY <1>6, <1>7, <1>8 DEF VerifyOk

(* Whatever earlier runs left, a run that finishes leaves a directory that *)
(* verify accepts, every file of it its own.                               *)
THEOREM FinishedAlwaysVerifies == Spec => []FinishedVerifies
<1>1. DirInv => FinishedVerifies
  BY OwnFilesVerify DEF DirInv, FinishedVerifies, Written
<1> QED BY <1>1, DirInvariant, PTL

(* verify reads every file of a run: as long as no other input's file is   *)
(* in the directory, one that is missing or torn is noticed.               *)
THEOREM OkAlwaysMeansComplete == Spec => []OkMeansComplete
<1>1. OkMeansComplete
  <2> SUFFICES ASSUME VerifyOk, NEW in \in Inputs,
                      \A n \in Names : files[n] \in {Absent, Torn, Content(in, n)}
               PROVE  \A n \in FilesOf(in) : files[n] = Content(in, n)
    BY DEF OkMeansComplete
  <2>1. Readable(Fixed) /\ Readable(Listed)
    BY DEF VerifyOk, ModelMatches, CertsHold, SarifAgrees, LedgerAgrees, CheckRegenerates,
           Readable, Fixed
  <2>2. files["manifest"] = in /\ files["model"] = in.model
    BY <2>1, ContentOf DEF Readable, Names, Fixed
  <2>3. Listed = CertsIn(in) /\ CertsIn(in) \subseteq CertIds
    BY <2>2, WriteOrderNames DEF Listed
  <2>4. in.model \in WithPlant => files["plant"] = Content(in, "plant")
    BY <2>2, ContentOf DEF VerifyOk, ModelMatches
  <2>5. \A n \in Fixed \cup CertsIn(in) : files[n] = Content(in, n)
    BY <2>1, <2>3 DEF Readable, Names
  <2> QED BY <2>4, <2>5 DEF FilesOf
<1> QED BY <1>1, PTL
=============================================================================
