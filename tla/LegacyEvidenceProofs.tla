------------------------ MODULE LegacyEvidenceProofs ------------------------
(***************************************************************************)
(* Proofs about LegacyEvidence, for any reports of any length, any         *)
(* spellings and any number of changes: gate and writer agree on what they *)
(* counted, and a rejection is reported before it is enforced.  The only   *)
(* assumption is that no other process touches a member between the gate's *)
(* read of the report and the writer's.                                    *)
(***************************************************************************)
EXTENDS LegacyEvidence, FiniteSetTheorems, TLAPS

Undisturbed == UnstableSteps \cap {"summary", "enforce", "count"} = {}

BeyondGate == {"enforce", "count", "hash", "document", "attest", "upload"}

(* Until the writer has read the report it is the one the gate accepted,   *)
(* and the gate's outputs are its counts.                                  *)
SameReport ==
  step \in {"summary", "enforce", "count"} =>
    /\ GateReads(files["report"])
    /\ outputs = Reported(Count(files["report"], Upper))

(* The outputs reach the summary before the gate is enforced; from the     *)
(* writer on they only agree with what it counted, and the document with   *)
(* that.                                                                   *)
Carried ==
  /\ step \in BeyondGate \cup {"summary"} => verified
  /\ step \in BeyondGate => summary = outputs
  /\ counts # None => Reported(counts) = outputs /\ summary = outputs
  /\ step \in {"hash", "document"} => counts # None
  /\ files["document"] # Absent => files["document"].counts = counts /\ counts # None
  /\ step \in {"scan-sbom", "scan-report", "gate"} => verified
  /\ step \in {"context", "verify", "scan-sbom", "scan-report", "gate", "summary", "enforce",
               "count"} => counts = None

IInv == DOMAIN files = FileNames /\ SameReport /\ Carried

-----------------------------------------------------------------------------
(* A report both readers accept has, under the upper case of the gate and  *)
(* the lower case of the writer, the same counts.                          *)
LEMMA ReadersAgree ==
  ASSUME NEW report, GateReads(report), WriterReads(report)
  PROVE  Count(report, Upper) = Count(report, Lower)
  <1>1. ASSUME NEW i \in DOMAIN report.findings
        PROVE  /\ report.findings[i].severity \in DOMAIN Upper
               /\ report.findings[i].severity \in DOMAIN Lower
               /\ Upper[report.findings[i].severity] = Lower[report.findings[i].severity]
    BY <1>1, CaseAssumption DEF GateReads, WriterReads
  <1>2. ASSUME NEW s \in Severities PROVE Having(report, Upper, s) = Having(report, Lower, s)
    BY <1>1 DEF Having
  <1> QED  BY <1>2, Zenon DEF Count

(* The counts of a report are never the absent ones.                       *)
LEMMA CountsArePresent ==
  ASSUME NEW report, NEW normal
  PROVE  Count(report, normal) # None
  <1>1. "CRITICAL" \in DOMAIN Count(report, normal) /\ "CRITICAL" \notin DOMAIN None
    BY DEF Count, Severities, None
  <1> QED  BY <1>1

(* Nothing is counted or carried in the initial state.                     *)
LEMMA InitEstablishes == Init => IInv
  BY DEF Init, RunInit, IInv, SameReport, Carried, BeyondGate, FileNames, Handoff, Members

(* Cancellation and another process: not between the two reads.            *)
LEMMA EnvironmentPreserves ==
  ASSUME Undisturbed, IInv, ChangeMember(Contents) \/ Cancel, UNCHANGED evidence
  PROVE  IInv'
  <1>1. CASE ChangeMember(Contents)
    <2>1. /\ step \in UnstableSteps
          /\ UNCHANGED <<step, verified, outputs, summary, counts, hashes>>
      BY <1>1 DEF ChangeMember, evidence
    <2>2. DOMAIN files' = FileNames /\ files'["document"] = files["document"]
      BY <1>1 DEF ChangeMember, Present, Members, IInv
    <2> QED  BY <2>1, <2>2 DEF IInv, SameReport, Carried, BeyondGate, Undisturbed
  <1>2. CASE Cancel
    <2>1. /\ step' \in {"done", "diagnose"}
          /\ UNCHANGED <<files, verified, outputs, summary, counts, hashes>>
      BY <1>2 DEF Cancel, evidence, products
    <2> QED  BY <2>1 DEF IInv, SameReport, Carried, BeyondGate
  <1> QED  BY <1>1, <1>2

(* Writing one file leaves the others as they are.                         *)
LEMMA OtherFiles ==
  ASSUME NEW name, NEW content, name # "document", DOMAIN files = FileNames,
         files' = [files EXCEPT ![name] = content]
  PROVE  DOMAIN files' = FileNames /\ files'["document"] = files["document"]
  <1>1. "document" \in DOMAIN files
    BY DEF FileNames, Handoff
  <1> QED  BY <1>1

(* The steps of the composite action around gate and writer.               *)
LEMMA SharedPreserves ==
  ASSUME IInv, SharedSteps \/ ScanSbom \/ ScanReport, UNCHANGED evidence
  PROVE  IInv'
  <1> USE DEF Succeed, Continue, StopRun, Fail, Leave, IInv, SameReport, Carried, BeyondGate,
              evidence, products
  <1>1. CASE ResolveContext
    BY <1>1 DEF ResolveContext
  <1>2. CASE VerifyProvenance
    <2>1. DOMAIN files' = FileNames /\ files'["document"] = files["document"]
      BY <1>2, OtherFiles DEF VerifyProvenance
    <2>2. step = "verify" /\ (step' = "diagnose" \/ (step' = "scan-sbom" /\ verified'))
      BY <1>2 DEF VerifyProvenance
    <2>3. UNCHANGED <<outputs, summary, counts, hashes>>
      OBVIOUS
    <2> QED  BY <2>1, <2>2, <2>3
  <1>3. CASE AttestHandoff \/ UploadAdmissible \/ UploadRejected
    BY <1>3 DEF AttestHandoff, UploadAdmissible, UploadRejected
  <1>4. CASE ScanSbom \/ ScanReport
    <2>1. DOMAIN files' = FileNames /\ files'["document"] = files["document"]
      BY <1>4, OtherFiles DEF ScanSbom, ScanReport
    <2>2. /\ step \in {"scan-sbom", "scan-report"}
          /\ step' \in {"scan-report", "gate", "diagnose"}
          /\ UNCHANGED <<verified, outputs, summary, counts, hashes>>
      BY <1>4 DEF ScanSbom, ScanReport
    <2> QED  BY <2>1, <2>2
  <1> QED  BY <1>1, <1>2, <1>3, <1>4 DEF SharedSteps

(* The gate and the writer.                                                *)
LEMMA OwnStepPreserves ==
  ASSUME IInv,
         EvaluateReport \/ AppendSummary \/ EnforceGate \/ CountFindings \/ HashMember \/ WriteDocument
  PROVE  IInv'
  <1> USE DEF Succeed, Continue, StopRun, Fail, Leave, IInv, SameReport, Carried, BeyondGate,
              evidence, products
  <1>1. CASE EvaluateReport
    BY <1>1 DEF EvaluateReport
  <1>2. CASE AppendSummary
    BY <1>2 DEF AppendSummary
  <1>3. CASE EnforceGate
    BY <1>3 DEF EnforceGate
  <1>4. CASE CountFindings
    <2>1. CASE step' = "hash"
      <3>1. /\ GateReads(files["report"]) /\ WriterReads(files["report"])
            /\ counts' = Count(files["report"], Lower) /\ step = "count"
            /\ UNCHANGED <<files, verified, outputs, summary, hashes>>
        BY <1>4, <2>1 DEF CountFindings
      <3>2. counts' = Count(files["report"], Upper)
        BY <3>1, ReadersAgree
      <3>3. counts' # None /\ Reported(counts') = outputs'
        BY <3>1, <3>2, CountsArePresent
      <3> QED  BY <2>1, <3>1, <3>3
    <2>2. CASE step' # "hash"
      BY <1>4, <2>2 DEF CountFindings
    <2> QED  BY <2>1, <2>2
  <1>5. CASE HashMember
    <2>1. /\ step = "hash" /\ step' \in {"hash", "document", "diagnose"}
          /\ UNCHANGED <<verified, files, outputs, summary, counts>>
      BY <1>5, Zenon DEF HashMember
    <2> QED  BY <2>1
  <1>6. CASE WriteDocument
    <2>1. step = "document" /\ counts # None /\ UNCHANGED <<verified, outputs, summary, counts>>
      BY <1>6 DEF WriteDocument
    <2>2. CASE Leave("document", [hashes |-> hashes, counts |-> counts]) /\ step' = "attest"
      <3>1. /\ DOMAIN files' = FileNames /\ "document" \in FileNames
            /\ files'["document"].counts = counts
        BY <2>2 DEF FileNames, Handoff
      <3> QED  BY <2>1, <2>2, <3>1
    <2>3. CASE UNCHANGED files /\ step' = "diagnose"
      BY <2>1, <2>3
    <2> QED  BY <1>6, <2>2, <2>3 DEF WriteDocument
  <1> QED  BY <1>1, <1>2, <1>3, <1>4, <1>5, <1>6

(* The inductive invariant of an undisturbed run.                          *)
THEOREM Invariance == ASSUME Undisturbed PROVE FairSpec => []IInv
  <1>1. IInv /\ [Next]_vars => IInv'
    <2> SUFFICES ASSUME IInv, [Next]_vars PROVE IInv'
      OBVIOUS
    <2>1. CASE UNCHANGED vars
      BY <2>1 DEF vars, runVars, evidence, products, IInv, SameReport, Carried, BeyondGate
    <2>2. CASE Next
      BY <2>2, EnvironmentPreserves, SharedPreserves, OwnStepPreserves DEF Next, Steps
    <2> QED  BY <2>1, <2>2
  <1> QED  BY InitEstablishes, <1>1, PTL DEF FairSpec

(* evaluate-vulnerabilities.mts:275 and write-candidate-evidence.mts:281:  *)
(* if no member changes between the two reads, the published HIGH and      *)
(* CRITICAL counts are the ones the gate reported, for every report.       *)
THEOREM CountsAgree ==
  ASSUME Undisturbed PROVE FairSpec => []PublishedCountsWereReported
  <1>1. IInv => PublishedCountsWereReported
    BY DEF IInv, Carried, PublishedCountsWereReported
  <1> QED  BY Invariance, <1>1, PTL

(* evaluate-vulnerabilities.mts:93-120: a run the gate rejects has its     *)
(* outputs and its summary written, and is verified.                       *)
THEOREM RejectionReported == ASSUME Undisturbed PROVE FairSpec => RejectionIsReported
  <1>1. IInv /\ [Next]_vars =>
          [step = "enforce" /\ failed' # failed =>
             /\ summary = outputs /\ outputs["CRITICAL"] > 0
             /\ verified]_vars
    <2> SUFFICES ASSUME IInv, Next, step = "enforce", failed' # failed
                 PROVE  summary = outputs /\ outputs["CRITICAL"] > 0 /\ verified
      OBVIOUS
    <2>1. EnforceGate
      BY DEF Next, Steps, SharedSteps, ResolveContext, VerifyProvenance, AttestHandoff,
        UploadAdmissible, UploadRejected, ScanSbom, ScanReport, EvaluateReport, AppendSummary,
        CountFindings, HashMember, WriteDocument, ChangeMember, Cancel
    <2>2. outputs["CRITICAL"] > 0
      BY <2>1 DEF EnforceGate, Continue, Succeed
    <2> QED  BY <2>2 DEF IInv, Carried, BeyondGate
  <1> QED  BY Invariance, <1>1, PTL DEF FairSpec, RejectionIsReported
-----------------------------------------------------------------------------
(* The refinement: if no member changes from the gate's read to the        *)
(* upload, a run keeps the promise of EvidenceHandoff.                     *)
Untouched ==
  UnstableSteps \cap {"summary", "enforce", "count", "hash", "document", "attest", "upload"} = {}

Ending == {"diagnose", "done"}
Hashing == {"hash", "document"}

(* Both readers accept the report, count it as given and find no CRITICAL. *)
Innocent(report, counted) ==
  /\ GateReads(report) /\ WriterReads(report)
  /\ counted = Count(report, Lower) /\ counted["CRITICAL"] = 0

(* The report on disk is one of Reports, an unreadable one, or missing.    *)
KnownReport == files["report"] \in Reports \cup {Unreadable, Absent}

(* The writer's hashes are those of the members on disk.                   *)
Hashed ==
  /\ step \in Hashing => Innocent(files["report"], counts)
  /\ step \notin Hashing \cup {"attest", "upload"} \cup Ending => DOMAIN hashes = {}
  /\ step \in Hashing => \A m \in DOMAIN hashes : files[m] = hashes[m] /\ files[m] # Absent
  /\ step = "document" => DOMAIN hashes = Members

(* The files on disk are a lawful handoff.                                 *)
Offered ==
  /\ \A n \in Handoff : files[n] # Absent
  /\ \A m \in Members : files[m] = files["document"].hashes[m]
  /\ Innocent(files["report"], files["document"].counts)

(* What left the run, by its step.                                         *)
Published ==
  /\ step \notin {"upload"} \cup Ending => signed = NoFiles
  /\ step = "upload" => signed = FilesOf(Handoff) /\ DOMAIN signed = Handoff
  /\ step \notin Ending => admissible = NoFiles /\ failed = FALSE
  /\ failed # FALSE => admissible = NoFiles
  /\ step # "done" => rejected = NoFiles

Handling ==
  /\ KnownReport
  /\ Hashed
  /\ step \in {"attest", "upload"} => Offered
  /\ Published

(* What the run may still publish: only behind a verified provenance, and  *)
(* nothing after a cancellation.                                           *)
Standing ==
  /\ step \notin Ending => ~cancelled
  /\ step \in {"attest", "upload"} => verified

(* The names the abstract and the detailed specification give to no files  *)
(* are the same function.                                                  *)
LEMMA NothingIsNoFiles == Handed!Nothing = NoFiles
  BY DEF Handed!Nothing, NoFiles

(* Nothing is hashed or published in the initial state.                    *)
LEMMA InitHandles == Init => Handling
  BY DEF Init, RunInit, Handling, KnownReport, Hashed, Offered, Published, NoFiles, Ending,
    Hashing, Members, FileNames, Handoff

(* A report counted without CRITICAL findings has none at any place, in    *)
(* the case it was counted in.                                             *)
LEMMA NoCriticalFinding ==
  ASSUME NEW report \in Reports, NEW normal, Count(report, normal)["CRITICAL"] = 0,
         NEW i \in DOMAIN report.findings, report.findings[i].severity \in DOMAIN normal
  PROVE  normal[report.findings[i].severity] # "CRITICAL"
  <1>1. report.findings \in Seq([severity : Spellings, complete : BOOLEAN])
    BY ReportAssumption
  <1>2. IsFiniteSet(DOMAIN report.findings)
    <2> DEFINE found == report.findings
    <2>1. Len(found) \in Nat /\ DOMAIN found = 1 .. Len(found)
      BY <1>1
    <2> HIDE DEF found
    <2>2. IsFiniteSet(1 .. Len(found))
      BY <2>1, FS_Interval
    <2> QED  BY <2>1, <2>2 DEF found
  <1> DEFINE critical == Having(report, normal, "CRITICAL")
  <1>3. critical \subseteq DOMAIN report.findings
    BY DEF Having
  <1>4. IsFiniteSet(critical)
    BY <1>2, <1>3, FS_Subset
  <1>5. Cardinality(critical) = 0
    BY DEF Count, Severities
  <1>6. critical = {}
    BY <1>4, <1>5, FS_EmptySet
  <1> QED  BY <1>6 DEF Having

(* A readable report is one of Reports.                                    *)
LEMMA ReadableIsKnown ==
  ASSUME KnownReport, GateReads(files["report"])
  PROVE  files["report"] \in Reports
  BY DEF KnownReport, GateReads, Unreadable

(* The files of a lawful handoff, taken together, are one.                 *)
LEMMA OfferIsLawful ==
  ASSUME Offered, KnownReport
  PROVE  /\ DOMAIN FilesOf(Handoff) = Handoff
         /\ FilesOf(Handoff) # NoFiles
         /\ LawfulHandoff(FilesOf(Handoff))
  <1> DEFINE artifact == FilesOf(Handoff)
             report == files["report"]
  <1>1. Present(Handoff) = Handoff
    BY DEF Present, Offered
  <1>2. artifact = [n \in Handoff |-> files[n]]
    BY <1>1 DEF FilesOf
  <1>3. Innocent(report, files["document"].counts)
    BY DEF Offered
  <1>4. report \in Reports
    BY <1>3, ReadableIsKnown DEF Innocent
  <1>5. Count(report, Upper) = Count(report, Lower)
    BY <1>3, ReadersAgree DEF Innocent
  <1> HIDE DEF artifact
  <1>6. DOMAIN artifact = Handoff /\ \A n \in Handoff : artifact[n] = files[n]
    BY <1>2
  <1>7. artifact # NoFiles
    BY <1>6 DEF NoFiles, Handoff
  <1>8. Consistent(artifact)
    BY <1>6 DEF Consistent, Offered, Handoff
  <1>9. artifact["report"] = report /\ artifact["document"] = files["document"]
    BY <1>6 DEF Handoff, Members
  <1> HIDE DEF report
  <1>10. ASSUME NEW i \in DOMAIN report.findings
         PROVE  /\ report.findings[i].severity \in DOMAIN Upper
                /\ report.findings[i].severity \in DOMAIN Lower
                /\ Upper[report.findings[i].severity] # "CRITICAL"
                /\ Lower[report.findings[i].severity] # "CRITICAL"
    <2>1. /\ report.findings[i].severity \in DOMAIN Upper
          /\ report.findings[i].severity \in DOMAIN Lower
      BY <1>3, <1>10 DEF Innocent, GateReads, WriterReads
    <2>2. Count(report, Lower)["CRITICAL"] = 0 /\ Count(report, Upper)["CRITICAL"] = 0
      BY <1>3, <1>5 DEF Innocent
    <2> QED  BY <1>4, <1>10, <2>1, <2>2, NoCriticalFinding
  <1>11. ASSUME NEW s \in Severities
         PROVE  files["document"].counts[s] = Cardinality(Having(report, Upper, s))
    <2>1. files["document"].counts = Count(report, Upper)
      BY <1>3, <1>5 DEF Innocent
    <2> QED  BY <2>1 DEF Count
  <1> QED  BY <1>6, <1>7, <1>8, <1>9, <1>10, <1>11 DEF LawfulHandoff, artifact

(* Nothing but the three steps that publish touches what was published;    *)
(* a step that fails ends the run.                                         *)
LEMMA FailHandles ==
  ASSUME Handling, step \notin Ending, Fail
  PROVE  Handling' /\ UNCHANGED products
  <1>1. step' = "diagnose" /\ UNCHANGED <<files, products>>
    BY DEF Fail, StopRun
  <1>2. KnownReport' /\ Hashed'
    BY <1>1 DEF Handling, KnownReport, Hashed, Hashing, Ending
  <1>3. Published'
    BY <1>1 DEF Handling, Published, products, Ending
  <1> QED  BY <1>1, <1>2, <1>3 DEF Handling

(* Another process, outside the steps that rely on the members.            *)
LEMMA ChangesHandle ==
  ASSUME Untouched, Handling, IInv, ChangeMember(Contents), UNCHANGED evidence
  PROVE  Handling' /\ UNCHANGED <<products, step>>
  <1>1. /\ step \notin {"summary", "enforce", "count", "hash", "document", "attest", "upload"}
        /\ UNCHANGED <<step, failed, products, counts, hashes>>
    BY DEF Untouched, ChangeMember, evidence
  <1>2. KnownReport'
    <2>1. PICK m \in Members : \E content \in Contents[m] \cup {Absent} :
                 files' = [files EXCEPT ![m] = content]
      BY DEF ChangeMember, Present
    <2>2. CASE m = "report"
      BY <2>1, <2>2 DEF KnownReport, Contents, Members, IInv, FileNames, Handoff
    <2>3. CASE m # "report"
      BY <2>1, <2>3 DEF KnownReport, Handling
    <2> QED  BY <2>2, <2>3
  <1>3. Hashed'
    BY <1>1 DEF Handling, Hashed, Hashing
  <1>4. Published'
    BY <1>1 DEF Handling, Published, products
  <1> QED  BY <1>1, <1>2, <1>3, <1>4 DEF Handling

(* A cancelled run hands on nothing more and forgets nothing.              *)
LEMMA CancelHandles ==
  ASSUME Handling, Cancel, UNCHANGED evidence
  PROVE  Handling' /\ UNCHANGED products /\ step # "done"
  <1>1. /\ step # "done" /\ step' \in Ending
        /\ step' = "done" => step = "diagnose"
        /\ UNCHANGED <<failed, files, products, counts, hashes>>
    BY DEF Cancel, Running, evidence, Ending
  <1>2. KnownReport' /\ Hashed'
    BY <1>1 DEF Handling, KnownReport, Hashed, Hashing, Ending
  <1>3. Published'
    BY <1>1 DEF Handling, Published, products, Ending
  <1> QED  BY <1>1, <1>2, <1>3 DEF Handling, Ending

(* The steps before the gate publish nothing and stay before it.           *)
LEMMA EarlyStepsHandle ==
  ASSUME Handling, IInv, UNCHANGED evidence,
         ResolveContext \/ VerifyProvenance \/ ScanSbom \/ ScanReport
  PROVE  Handling' /\ UNCHANGED products /\ step # "done" /\ step' # "done"
  <1>1. /\ step \in {"context", "verify", "scan-sbom", "scan-report"}
        /\ \/ /\ step' \in {"verify", "scan-sbom", "scan-report", "gate"}
              /\ UNCHANGED failed
           \/ step' = "diagnose"
        /\ UNCHANGED <<products, counts, hashes>>
    BY DEF ResolveContext, VerifyProvenance, ScanSbom, ScanReport, Continue, Succeed, Fail,
      StopRun, Leave, products, evidence
  <1>2. KnownReport'
    <2>1. CASE ScanReport
      BY <2>1 DEF ScanReport, Leave, Fail, KnownReport, Handling, IInv, FileNames, Handoff, Members
    <2>2. CASE ScanSbom \/ VerifyProvenance \/ ResolveContext
      <3>1. files'["report"] = files["report"]
        <4>1. UNCHANGED files \/ \E m \in {"sbom", "provenance"} :
                                  files' = [files EXCEPT ![m] = Original]
          BY <2>2 DEF ScanSbom, VerifyProvenance, ResolveContext, Continue, Leave, Fail
        <4>2. "report" \in DOMAIN files
          BY DEF IInv, FileNames, Handoff, Members
        <4> QED  BY <4>1, <4>2
      <3> QED  BY <3>1 DEF KnownReport, Handling
    <2> QED  BY <2>1, <2>2
  <1>3. Hashed'
    BY <1>1 DEF Handling, Hashed, Hashing, Ending
  <1>4. Published'
    BY <1>1 DEF Handling, Published, products, Ending
  <1> QED  BY <1>1, <1>2, <1>3, <1>4 DEF Handling

(* The gate writes its outputs and its summary and touches no file.        *)
LEMMA GateHandles ==
  ASSUME Handling, EvaluateReport \/ AppendSummary \/ EnforceGate
  PROVE  Handling' /\ UNCHANGED products /\ step # "done" /\ step' # "done"
  <1>1. /\ step \in {"gate", "summary", "enforce"}
        /\ \/ step' \in {"summary", "enforce", "count"} /\ UNCHANGED failed
           \/ step' = "diagnose"
        /\ UNCHANGED <<files, products, counts, hashes>>
    BY DEF EvaluateReport, AppendSummary, EnforceGate, Continue, Succeed, Fail, StopRun, products,
      evidence
  <1>2. KnownReport' /\ Hashed'
    BY <1>1 DEF Handling, KnownReport, Hashed, Hashing, Ending
  <1>3. Published'
    BY <1>1 DEF Handling, Published, products, Ending
  <1> QED  BY <1>1, <1>2, <1>3 DEF Handling

(* The writer counts the report the gate read.                             *)
LEMMA CountHandles ==
  ASSUME IInv, Handling, CountFindings
  PROVE  Handling' /\ UNCHANGED products /\ step # "done" /\ step' # "done"
  <1>1. CASE Fail
    BY <1>1, FailHandles DEF CountFindings, Fail, StopRun, Ending
  <1>2. CASE ~Fail
    <2>1. /\ step = "count" /\ step' = "hash"
          /\ WriterReads(files["report"])
          /\ counts' = Count(files["report"], Lower) /\ counts'["CRITICAL"] = 0
          /\ UNCHANGED <<failed, files, products, hashes>>
      BY <1>2 DEF CountFindings, Continue, Succeed
    <2>2. GateReads(files["report"])
      BY <2>1 DEF IInv, SameReport
    <2>3. Innocent(files["report"], counts')
      BY <2>1, <2>2 DEF Innocent
    <2>4. DOMAIN hashes = {}
      BY <2>1 DEF Handling, Hashed, Hashing, Ending
    <2>5. Innocent(files["report"], counts)'
      BY <2>1, <2>3 DEF Innocent, GateReads, WriterReads, Count, Having
    <2>6. Hashed'
      BY <2>1, <2>4, <2>5 DEF Hashed, Hashing
    <2>7. KnownReport' /\ Published'
      BY <2>1 DEF Handling, KnownReport, Published, products, Ending
    <2> QED  BY <2>1, <2>6, <2>7 DEF Handling
  <1> QED  BY <1>1, <1>2

(* The writer hashes one member after the other.                           *)
LEMMA HashHandles ==
  ASSUME Handling, HashMember
  PROVE  Handling' /\ UNCHANGED products /\ step # "done" /\ step' # "done"
  <1>1. CASE Fail
    BY <1>1, FailHandles DEF HashMember, Fail, StopRun, Ending
  <1>2. CASE ~Fail
    <2>1. PICK m \in Members :
            /\ files[m] # Absent
            /\ hashes' = [n \in DOMAIN hashes \cup {m} |-> IF n = m THEN files[m] ELSE hashes[n]]
            /\ step' = IF DOMAIN hashes' = Members THEN "document" ELSE "hash"
      BY <1>2 DEF HashMember, Continue, Succeed
    <2>2. step = "hash" /\ UNCHANGED <<failed, files, products, counts>>
      BY <1>2 DEF HashMember, Continue, Succeed
    <2>3. \A n \in DOMAIN hashes' : files'[n] = hashes'[n] /\ files'[n] # Absent
      BY <2>1, <2>2 DEF Handling, Hashed, Hashing
    <2>4. Innocent(files["report"], counts)'
      BY <2>2 DEF Handling, Hashed, Hashing, Innocent
    <2>5. Hashed'
      BY <2>1, <2>3, <2>4 DEF Hashed, Hashing, Ending
    <2>6. KnownReport' /\ Published'
      BY <2>1, <2>2 DEF Handling, KnownReport, Published, products, Ending
    <2> QED  BY <2>1, <2>2, <2>5, <2>6 DEF Handling
  <1> QED  BY <1>1, <1>2

(* The document makes the files on disk an offer.                          *)
LEMMA DocumentHandles ==
  ASSUME IInv, Handling, WriteDocument
  PROVE  Handling' /\ UNCHANGED products /\ step # "done" /\ step' # "done"
  <1>1. CASE Fail
    BY <1>1, FailHandles DEF WriteDocument, Fail, StopRun, Ending
  <1>2. CASE ~Fail
    <2> DEFINE document == [hashes |-> hashes, counts |-> counts]
    <2>1. /\ step = "document" /\ step' = "attest"
          /\ files' = [files EXCEPT !["document"] = document]
          /\ UNCHANGED <<failed, products, counts, hashes>>
      BY <1>2 DEF WriteDocument, Leave, Succeed, products, evidence
    <2>2. document # Absent /\ document.hashes = hashes /\ document.counts = counts
      BY DEF Absent
    <2> HIDE DEF document
    <2>3. DOMAIN files = FileNames
      BY DEF IInv
    <2>4. /\ \A m \in Members : files'[m] = files[m]
          /\ files'["document"] = document
      BY <2>1, <2>3 DEF Members, FileNames, Handoff
    <2>5. \A m \in Members : files[m] = hashes[m] /\ files[m] # Absent
      BY <2>1 DEF Handling, Hashed, Hashing
    <2>6. Innocent(files["report"], counts)
      BY <2>1 DEF Handling, Hashed, Hashing
    <2>7. /\ files'["report"] = files["report"] /\ files'["document"].counts = counts
          /\ \A m \in Members : files'[m] = files'["document"].hashes[m]
          /\ \A n \in Handoff : files'[n] # Absent
      BY <2>2, <2>4, <2>5 DEF Members, Handoff
    <2>8. Offered'
      BY <2>6, <2>7 DEF Offered, Innocent
    <2>9. Hashed' /\ KnownReport'
      BY <2>1, <2>7 DEF Handling, Hashed, Hashing, KnownReport
    <2>10. Published'
      BY <2>1 DEF Handling, Published, products, Ending
    <2> QED  BY <2>1, <2>8, <2>9, <2>10 DEF Handling
  <1> QED  BY <1>1, <1>2

(* The abstract steps: an offer is signed, what was signed is admitted,    *)
(* and the run ends, with diagnostics only if nothing was admitted.        *)
LEMMA AttestHandles ==
  ASSUME Handling, Standing, AttestHandoff, UNCHANGED evidence
  PROVE  Handling' /\ (Handed!Sign \/ (UNCHANGED products /\ step # "done" /\ step' # "done"))
  <1>1. CASE Fail
    BY <1>1, FailHandles DEF AttestHandoff, Fail, StopRun, Ending
  <1>2. CASE ~Fail
    <2>1. /\ step = "attest" /\ step' = "upload" /\ signed' = FilesOf(Handoff)
          /\ UNCHANGED <<verified, cancelled, failed, files, admissible, rejected,
                         counts, hashes>>
      BY <1>2 DEF AttestHandoff, Succeed, evidence
    <2>2. /\ Offered /\ signed = NoFiles /\ admissible = NoFiles /\ rejected = NoFiles
          /\ failed = FALSE
      BY <2>1 DEF Handling, Published, Ending
    <2>3. /\ DOMAIN FilesOf(Handoff) = Handoff
          /\ FilesOf(Handoff) # NoFiles
          /\ LawfulHandoff(FilesOf(Handoff))
      BY <2>2, OfferIsLawful DEF Handling
    <2>4. Offered' /\ FilesOf(Handoff)' = FilesOf(Handoff)
      BY <2>1, <2>2 DEF Offered, Innocent, FilesOf, Present
    <2>5. Published'
      BY <2>1, <2>2, <2>3, <2>4 DEF Published, Ending
    <2>6. Hashed' /\ KnownReport'
      BY <2>1 DEF Handling, Hashed, Hashing, KnownReport
    <2>7. Handed!Sign
      BY <2>1, <2>2, <2>3, NothingIsNoFiles DEF Handed!Sign, Handed!Open, Standing, Ending
    <2> QED  BY <2>1, <2>4, <2>5, <2>6, <2>7 DEF Handling
  <1> QED  BY <1>1, <1>2

(* The upload hands on the files compared, whole, and only once.           *)
LEMMA UploadHandles ==
  ASSUME Handling, Standing, UploadAdmissible, UNCHANGED evidence
  PROVE  Handling' /\ (Handed!Admit \/ (UNCHANGED products /\ step # "done" /\ step' # "done"))
  <1>1. CASE Fail
    BY <1>1, FailHandles DEF UploadAdmissible, Fail, StopRun, Ending
  <1>2. CASE ~Fail
    <2>1. /\ step = "upload" /\ step' = "diagnose" /\ admissible' = FilesOf(Handoff)
          /\ UNCHANGED <<verified, cancelled, failed, files, signed, rejected,
                         counts, hashes>>
      BY <1>2 DEF UploadAdmissible, Succeed, evidence
    <2>2. /\ signed = FilesOf(Handoff) /\ DOMAIN signed = Handoff
          /\ admissible = NoFiles /\ failed = FALSE /\ rejected = NoFiles
      BY <2>1 DEF Handling, Published, Ending
    <2>3. signed # NoFiles
      BY <2>2 DEF NoFiles, Handoff
    <2>4. Published'
      BY <2>1, <2>2 DEF Published, Ending
    <2>5. Hashed' /\ KnownReport'
      BY <2>1 DEF Handling, Hashed, Hashing, KnownReport, Ending
    <2>6. Handed!Admit
      BY <2>1, <2>2, <2>3, NothingIsNoFiles DEF Handed!Admit, Handed!Open, Standing, Ending
    <2> QED  BY <2>1, <2>4, <2>5, <2>6 DEF Handling
  <1> QED  BY <1>1, <1>2

(* Keeping the rejected files apart is no step of the handoff.             *)
LEMMA EndHandles ==
  ASSUME Handling, UploadRejected, UNCHANGED evidence
  PROVE  Handling' /\ Handed!End
  <1>1. /\ step = "diagnose" /\ step' = "done"
        /\ UNCHANGED <<verified, cancelled, failed, files, signed, admissible,
                       counts, hashes>>
        /\ \/ rejected' = NoFiles
           \/ /\ failed # FALSE /\ ~cancelled /\ verified
              /\ rejected' = FilesOf(Diagnostics)
    BY DEF UploadRejected, Succeed, evidence
  <1>2. rejected = NoFiles /\ (failed # FALSE => admissible = NoFiles)
    BY <1>1 DEF Handling, Published
  <1>3. DOMAIN FilesOf(Diagnostics) \subseteq Diagnostics
    BY DEF FilesOf, Present
  <1>4. Handed!End
    BY <1>1, <1>2, <1>3, NothingIsNoFiles DEF Handed!End
  <1>5. Published'
    BY <1>1, <1>2 DEF Published, Ending
  <1>6. Hashed' /\ KnownReport'
    BY <1>1 DEF Handling, Hashed, Hashing, KnownReport, Ending
  <1> QED  BY <1>1, <1>4, <1>5, <1>6 DEF Handling

(* Only the verification and a cancellation touch what the run may still   *)
(* publish; the handoff is reached behind a verified provenance only.      *)
LEMMA StepsStand ==
  ASSUME IInv, Standing, Steps
  PROVE  /\ Standing' /\ cancelled' = cancelled
         /\ verified' = verified \/ (step = "verify" /\ step' = "scan-sbom" /\ verified' = TRUE)
  <1>1. /\ cancelled' = cancelled /\ step # "done"
        /\ verified' = verified \/ (step = "verify" /\ step' = "scan-sbom" /\ verified' = TRUE)
        /\ step = "diagnose" => step' = "done"
        /\ step' = "attest" => step = "document"
        /\ step' = "upload" => step = "attest"
    <2>1. CASE SharedSteps \/ ScanSbom \/ ScanReport
      BY <2>1 DEF SharedSteps, ResolveContext, VerifyProvenance, AttestHandoff, UploadAdmissible,
        UploadRejected, ScanSbom, ScanReport, Leave, Continue, Succeed, Fail, StopRun
    <2>2. CASE EvaluateReport \/ AppendSummary \/ EnforceGate
      BY <2>2 DEF EvaluateReport, AppendSummary, EnforceGate, Continue, Succeed, Fail, StopRun
    <2>3. CASE CountFindings \/ HashMember \/ WriteDocument
      BY <2>3 DEF CountFindings, HashMember, WriteDocument, Leave, Continue, Succeed, Fail, StopRun
    <2> QED  BY <2>1, <2>2, <2>3 DEF Steps
  <1>2. step = "document" => verified
    BY DEF IInv, Carried, BeyondGate
  <1> QED  BY <1>1, <1>2 DEF Standing, Ending

(* A step that publishes nothing is a stutter of the handoff, unless it is *)
(* the verification.                                                       *)
LEMMA QuietSteps ==
  ASSUME IInv, Standing, Steps, UNCHANGED products, step # "done", step' # "done"
  PROVE  [Handed!Next]_(Handed!vars)
  <1>1. /\ cancelled' = cancelled
        /\ verified' = verified \/ (step = "verify" /\ step' = "scan-sbom" /\ verified' = TRUE)
    BY StepsStand
  <1>2. CASE verified' = verified
    BY <1>1, <1>2 DEF Handed!vars, Handed!products, products
  <1>3. CASE step = "verify" /\ verified' = TRUE
    <2>1. Handed!Verify
      BY <1>1, <1>3 DEF Handed!Verify, Handed!Open, Handed!products, products, Standing, Ending
    <2> QED  BY <2>1 DEF Handed!Next
  <1> QED  BY <1>1, <1>2, <1>3

(* If no member changes from the gate's read to the upload, what the run   *)
(* signs is complete, is what the document describes and has no CRITICAL   *)
(* finding in either case; exactly that is admitted, rejected diagnostics  *)
(* never accompany it, and nothing is published after a cancellation: the  *)
(* run implements EvidenceHandoff (write-candidate-evidence.mts:87,        *)
(* action.yml:111-132).                                                    *)
THEOREM HandoffIsKept ==
  ASSUME Untouched
  PROVE  FairSpec => ImplementsHandoff
  <1>1. Init => Handed!Init
    BY NothingIsNoFiles DEF Init, RunInit, Handed!Init
  <1>2. IInv /\ Handling /\ Standing /\ [Next]_vars =>
          Handling' /\ Standing' /\ [Handed!Next]_(Handed!vars)
    <2> SUFFICES ASSUME IInv, Handling, Standing, [Next]_vars
                 PROVE  Handling' /\ Standing' /\ [Handed!Next]_(Handed!vars)
      OBVIOUS
    <2>1. CASE UNCHANGED vars
      BY <2>1 DEF vars, evidence, runVars, products, Handling, KnownReport, Hashed, Offered,
        Innocent, Published, FilesOf, Present, Standing, Handed!vars, Handed!products
    <2>2. CASE ChangeMember(Contents) /\ UNCHANGED evidence
      <3>1. UNCHANGED <<verified, cancelled, products, step>>
        BY <2>2 DEF ChangeMember
      <3> QED  BY <2>2, <3>1, ChangesHandle DEF products, Standing, Handed!vars, Handed!products
    <2>3. CASE Cancel /\ UNCHANGED evidence
      <3>1. Handling' /\ UNCHANGED products /\ step # "done"
        BY <2>3, CancelHandles
      <3>2. ~cancelled /\ cancelled' = TRUE /\ UNCHANGED verified /\ step' \in Ending
        BY <2>3 DEF Cancel, Ending
      <3>3. Handed!Cancel
        BY <3>1, <3>2 DEF Handed!Cancel, Handed!Open, Handed!products, products
      <3> QED  BY <3>1, <3>2, <3>3 DEF Handed!Next, Standing, Ending
    <2>4. CASE Steps
      <3>1. Standing'
        BY <2>4, StepsStand
      <3>2. CASE AttestHandoff /\ UNCHANGED evidence
        BY <2>4, <3>1, <3>2, AttestHandles, QuietSteps DEF Handed!Next
      <3>3. CASE UploadAdmissible /\ UNCHANGED evidence
        BY <2>4, <3>1, <3>3, UploadHandles, QuietSteps DEF Handed!Next
      <3>4. CASE UploadRejected /\ UNCHANGED evidence
        BY <3>1, <3>4, EndHandles DEF Handed!Next
      <3>5. CASE /\ ResolveContext \/ VerifyProvenance \/ ScanSbom \/ ScanReport
                 /\ UNCHANGED evidence
        BY <2>4, <3>1, <3>5, EarlyStepsHandle, QuietSteps
      <3>6. CASE EvaluateReport \/ AppendSummary \/ EnforceGate
        BY <2>4, <3>1, <3>6, GateHandles, QuietSteps
      <3>7. CASE CountFindings \/ HashMember \/ WriteDocument
        BY <2>4, <3>1, <3>7, CountHandles, HashHandles, DocumentHandles, QuietSteps
      <3> QED  BY <2>4, <3>2, <3>3, <3>4, <3>5, <3>6, <3>7 DEF Steps, SharedSteps
    <2> QED  BY <2>1, <2>2, <2>3, <2>4 DEF Next
  <1>3. Undisturbed
    BY DEF Untouched, Undisturbed
  <1>4. Init => Standing
    BY DEF Init, RunInit, Standing
  <1> QED  BY <1>1, <1>2, <1>3, <1>4, InitHandles, Invariance, PTL
    DEF FairSpec, ImplementsHandoff, Handed!Spec
-----------------------------------------------------------------------------
(* The types, whatever changes and when.                                   *)
BeforeGate == {"scan-sbom", "scan-report", "gate"}
BeforeSummary == {"context", "verify", "summary"} \cup BeforeGate
Writing == {"count", "hash", "document"}

RunTypes ==
  /\ changes \in 0 .. MaxChanges /\ step \in StepNames
  /\ failed \in BOOLEAN /\ cancelled \in BOOLEAN /\ verified \in BOOLEAN
FilesTypes ==
  /\ DOMAIN files = FileNames
  /\ \A m \in Members : files[m] \in Contents[m] \cup {Absent}
  /\ files["diagnostic"] = Absent
ProductTypes ==
  /\ DOMAIN signed \subseteq Handoff /\ DOMAIN admissible \subseteq Handoff
  /\ DOMAIN rejected \subseteq Diagnostics
GateTypes ==
  /\ outputs \in {None} \cup [{"HIGH", "CRITICAL"} -> Nat]
  /\ summary \in {None, outputs}
WriterTypes ==
  /\ counts \in {None} \cup [Severities -> Nat]
  /\ DOMAIN hashes \subseteq Members /\ \A m \in DOMAIN hashes : hashes[m] \in Contents[m]
  /\ DOMAIN hashes # {} => counts # None
  /\ files["document"] # Absent => DOMAIN hashes = Members

(* What each step finds of the steps before it.                            *)
Sequenced ==
  /\ step \in BeforeSummary => summary = None
  /\ step \in {"summary", "enforce"} => outputs # None
  /\ step = "enforce" => summary = outputs
  /\ step \in BeforeGate \cup {"summary", "enforce"} \cup Writing => verified = TRUE
  /\ step \in Writing => summary # None /\ summary["CRITICAL"] = 0
  /\ step \in Hashing => counts # None
  /\ step = "document" => DOMAIN hashes = Members

TInv == RunTypes /\ FilesTypes /\ ProductTypes /\ GateTypes /\ WriterTypes /\ Sequenced

(* The parts make up TypeOK.                                               *)
LEMMA TypeParts == TInv => TypeOK
  BY DEF TInv, RunTypes, FilesTypes, ProductTypes, GateTypes, WriterTypes, Sequenced, Writing,
    TypeOK, RunTypeOK

(* The initial states are typed.                                           *)
LEMMA InitTypes == Init => TInv
  <1> SUFFICES ASSUME Init PROVE TInv
    OBVIOUS
  <1> USE DEF Init, RunInit
  <1>1. RunTypes
    <2>1. changes \in 0 .. MaxChanges
      BY ChangesAssumption
    <2>2. step \in StepNames
      BY DEF StepNames
    <2>3. failed \in BOOLEAN /\ cancelled \in BOOLEAN /\ verified \in BOOLEAN
      BY Zenon
    <2> QED  BY <2>1, <2>2, <2>3 DEF RunTypes
  <1>2. FilesTypes
    BY DEF FilesTypes, FileNames, Handoff, Members
  <1>3. ProductTypes /\ GateTypes
    BY DEF ProductTypes, GateTypes, NoFiles
  <1>4. WriterTypes
    BY DEF WriterTypes, NoFiles, FileNames, Handoff
  <1>5. Sequenced
    BY DEF Sequenced, BeforeGate, Writing, Hashing
  <1> QED  BY <1>1, <1>2, <1>3, <1>4, <1>5 DEF TInv

(* The files that exist among some names are named so.                     *)
LEMMA PresentFiles ==
  ASSUME NEW names
  PROVE  DOMAIN FilesOf(names) \subseteq names
  BY DEF FilesOf, Present

(* A member may be written with any content it may have.                   *)
LEMMA WrittenMember ==
  ASSUME FilesTypes, NEW m \in Members, NEW content \in Contents[m] \cup {Absent},
         files' = [files EXCEPT ![m] = content]
  PROVE  FilesTypes' /\ files'["document"] = files["document"]
  BY DEF FilesTypes, FileNames, Handoff, Members

(* A severity count is a number.                                           *)
LEMMA CountType ==
  ASSUME NEW report \in Reports, NEW normal
  PROVE  Count(report, normal) \in [Severities -> Nat]
  <1>1. ASSUME NEW s \in Severities PROVE Cardinality(Having(report, normal, s)) \in Nat
    <2> DEFINE found == report.findings
    <2>1. found \in Seq([severity : Spellings, complete : BOOLEAN])
      BY ReportAssumption
    <2>2. Having(report, normal, s) \subseteq DOMAIN found
      BY DEF Having
    <2> HIDE DEF found
    <2>3. Len(found) \in Nat /\ DOMAIN found = 1 .. Len(found)
      BY <2>1
    <2>4. IsFiniteSet(1 .. Len(found))
      BY <2>3, FS_Interval
    <2> QED  BY <2>2, <2>3, <2>4, FS_Subset, FS_CardinalityType
  <1> QED  BY <1>1 DEF Count

(* A step that ends the run, or retreats to its last step.                 *)
LEMMA RetreatTypes ==
  ASSUME TInv, step' \in Ending, UNCHANGED <<changes, verified, files, signed, admissible, evidence>>,
         failed' \in BOOLEAN, cancelled' \in BOOLEAN, DOMAIN rejected' \subseteq Diagnostics
  PROVE  TInv'
  <1>1. RunTypes' /\ FilesTypes' /\ ProductTypes'
    BY DEF TInv, RunTypes, FilesTypes, ProductTypes, Ending, StepNames
  <1>2. GateTypes' /\ WriterTypes'
    BY DEF TInv, GateTypes, WriterTypes, evidence
  <1>3. Sequenced'
    BY DEF Sequenced, Ending, BeforeSummary, BeforeGate, Writing, Hashing
  <1> QED  BY <1>1, <1>2, <1>3 DEF TInv

(* A failing step keeps the types.                                         *)
LEMMA FailTypes ==
  ASSUME TInv, Fail, UNCHANGED evidence
  PROVE  TInv'
  BY RetreatTypes DEF Fail, StopRun, products, Ending, TInv, RunTypes, ProductTypes

(* Another process and a cancellation.                                     *)
LEMMA EnvironmentTypes ==
  ASSUME TInv, ChangeMember(Contents) \/ Cancel, UNCHANGED evidence
  PROVE  TInv'
  <1>1. CASE Cancel
    BY <1>1, RetreatTypes DEF Cancel, products, Ending, TInv, RunTypes, ProductTypes
  <1>2. CASE ChangeMember(Contents)
    <2>1. /\ changes < MaxChanges /\ changes' = changes + 1
          /\ UNCHANGED <<step, failed, cancelled, verified, products>>
      BY <1>2 DEF ChangeMember
    <2>2. FilesTypes' /\ files'["document"] = files["document"]
      BY <1>2, WrittenMember DEF ChangeMember, Present, TInv
    <2>3. RunTypes' /\ ProductTypes'
      BY <2>1, ChangesAssumption DEF TInv, RunTypes, ProductTypes, products
    <2>4. GateTypes' /\ WriterTypes' /\ Sequenced'
      BY <2>1, <2>2 DEF TInv, GateTypes, WriterTypes, Sequenced, evidence
    <2> QED  BY <2>2, <2>3, <2>4 DEF TInv
  <1> QED  BY <1>1, <1>2

(* The first steps and the scans.                                          *)
LEMMA EarlyTypes ==
  ASSUME TInv, ResolveContext \/ VerifyProvenance \/ ScanSbom \/ ScanReport, UNCHANGED evidence
  PROVE  TInv'
  <1>1. /\ UNCHANGED <<changes, cancelled, products>>
        /\ \/ /\ step = "context" /\ step' = "verify" /\ UNCHANGED <<failed, verified>>
           \/ /\ step = "verify" /\ step' = "scan-sbom" /\ UNCHANGED failed /\ verified' = TRUE
           \/ /\ step = "scan-sbom" /\ step' = "scan-report" /\ UNCHANGED <<failed, verified>>
           \/ /\ step = "scan-report" /\ step' = "gate" /\ UNCHANGED <<failed, verified>>
           \/ /\ step' = "diagnose" /\ failed' = TRUE /\ UNCHANGED verified
    BY DEF ResolveContext, VerifyProvenance, ScanSbom, ScanReport, Continue, Succeed, Fail,
      StopRun, Leave, products
  <1>2. FilesTypes' /\ files'["document"] = files["document"]
    <2>1. UNCHANGED files \/ \E m \in Members : \E content \in Contents[m] :
                               files' = [files EXCEPT ![m] = content]
      BY DEF ResolveContext, VerifyProvenance, ScanSbom, ScanReport, Continue, Succeed, Fail,
        StopRun, Leave, Members, Contents
    <2> QED  BY <2>1, WrittenMember DEF TInv, FilesTypes
  <1>3. RunTypes' /\ ProductTypes'
    BY <1>1 DEF TInv, RunTypes, ProductTypes, products, StepNames
  <1>4. GateTypes' /\ WriterTypes'
    BY <1>2 DEF TInv, GateTypes, WriterTypes, evidence
  <1>5. Sequenced'
    BY <1>1 DEF TInv, Sequenced, evidence, BeforeSummary, BeforeGate, Writing, Hashing
  <1> QED  BY <1>2, <1>3, <1>4, <1>5 DEF TInv

(* The attestation and the uploads.                                        *)
LEMMA PublishingTypes ==
  ASSUME TInv, AttestHandoff \/ UploadAdmissible \/ UploadRejected, UNCHANGED evidence
  PROVE  TInv'
  <1>1. CASE Fail
    BY <1>1, FailTypes
  <1>2. CASE ~Fail
    <2>1. /\ UNCHANGED <<changes, failed, cancelled, verified, files>>
          /\ step' \in {"upload"} \cup Ending
          /\ signed' \in {signed, FilesOf(Handoff)}
          /\ admissible' \in {admissible, FilesOf(Handoff)}
          /\ rejected' \in {rejected, FilesOf(Diagnostics), NoFiles}
      BY <1>2 DEF AttestHandoff, UploadAdmissible, UploadRejected, Succeed, Ending
    <2>2. RunTypes' /\ FilesTypes'
      BY <2>1 DEF TInv, RunTypes, FilesTypes, StepNames, Ending
    <2>3. DOMAIN NoFiles \subseteq Diagnostics
      BY DEF NoFiles
    <2>4. ProductTypes'
      BY <2>1, <2>3, PresentFiles DEF TInv, ProductTypes
    <2>5. GateTypes' /\ WriterTypes'
      BY <2>1 DEF TInv, GateTypes, WriterTypes, evidence
    <2>6. Sequenced'
      BY <2>1 DEF Sequenced, Ending, BeforeSummary, BeforeGate, Writing, Hashing
    <2> QED  BY <2>2, <2>4, <2>5, <2>6 DEF TInv
  <1> QED  BY <1>1, <1>2

(* The gate and its enforcement.                                           *)
LEMMA GateStepTypes ==
  ASSUME TInv, EvaluateReport \/ AppendSummary \/ EnforceGate
  PROVE  TInv'
  <1>1. CASE step' # "diagnose"
    <2>1. /\ UNCHANGED <<changes, failed, cancelled, verified, files, products, counts, hashes>>
          /\ \/ /\ step = "gate" /\ step' = "summary" /\ GateReads(files["report"])
                /\ outputs' = Reported(Count(files["report"], Upper)) /\ UNCHANGED summary
             \/ /\ step = "summary" /\ step' = "enforce" /\ summary' = outputs
                /\ UNCHANGED outputs
             \/ /\ step = "enforce" /\ step' = "count" /\ outputs["CRITICAL"] = 0
                /\ UNCHANGED <<outputs, summary>>
      BY <1>1 DEF EvaluateReport, AppendSummary, EnforceGate, Continue, Succeed, Fail, StopRun,
        evidence
    <2>2. RunTypes' /\ FilesTypes' /\ ProductTypes' /\ WriterTypes'
      BY <2>1 DEF TInv, RunTypes, FilesTypes, ProductTypes, WriterTypes, products, StepNames
    <2>3. step = "gate" => outputs' \in [{"HIGH", "CRITICAL"} -> Nat] /\ outputs' # None
      <3>1. SUFFICES ASSUME step = "gate"
                     PROVE  outputs' \in [{"HIGH", "CRITICAL"} -> Nat] /\ outputs' # None
        OBVIOUS
      <3>2. files["report"] \in Reports
        BY <2>1, <3>1 DEF TInv, FilesTypes, GateReads, Contents, Members, Unreadable
      <3>3. Count(files["report"], Upper) \in [Severities -> Nat]
        BY <3>2, CountType
      <3>4. outputs' \in [{"HIGH", "CRITICAL"} -> Nat]
        BY <2>1, <3>1, <3>3 DEF Reported, Severities
      <3>5. "CRITICAL" \in DOMAIN outputs' /\ "CRITICAL" \notin DOMAIN None
        BY <3>4 DEF None
      <3> QED  BY <3>4, <3>5
    <2>4. GateTypes'
      BY <2>1, <2>3 DEF TInv, GateTypes, Sequenced, BeforeSummary, BeforeGate
    <2>5. Sequenced'
      BY <2>1, <2>3 DEF TInv, Sequenced, BeforeSummary, BeforeGate, Writing, Hashing
    <2> QED  BY <2>2, <2>4, <2>5 DEF TInv
  <1>2. CASE step' = "diagnose"
    <2>1. /\ UNCHANGED <<changes, cancelled, verified, files, products, evidence>>
          /\ failed' = TRUE
      BY <1>2 DEF EvaluateReport, AppendSummary, EnforceGate, Continue, Succeed, Fail, StopRun,
        evidence
    <2> QED  BY <1>2, <2>1, RetreatTypes DEF Ending, products, TInv, RunTypes, ProductTypes
  <1> QED  BY <1>1, <1>2

(* The writer.                                                             *)
LEMMA WriterStepTypes ==
  ASSUME TInv, CountFindings \/ HashMember \/ WriteDocument
  PROVE  TInv'
  <1>1. CASE step' = "diagnose"
    <2>1. /\ UNCHANGED <<changes, cancelled, verified, files, products, evidence>>
          /\ failed' = TRUE
      <3>1. CASE CountFindings
        BY <1>1, <3>1 DEF CountFindings, Continue, Succeed, Fail, StopRun
      <3>2. CASE HashMember
        BY <1>1, <3>2, Zenon DEF HashMember, Continue, Succeed, Fail, StopRun, evidence
      <3>3. CASE WriteDocument
        BY <1>1, <3>3 DEF WriteDocument, Leave, Succeed, Fail, StopRun
      <3> QED  BY <3>1, <3>2, <3>3
    <2> QED  BY <1>1, <2>1, RetreatTypes DEF Ending, products, TInv, RunTypes, ProductTypes
  <1>2. CASE CountFindings /\ step' # "diagnose"
    <2>1. /\ step = "count" /\ step' = "hash" /\ WriterReads(files["report"])
          /\ counts' = Count(files["report"], Lower)
          /\ UNCHANGED <<changes, failed, cancelled, verified, files, products, outputs, summary,
                         hashes>>
      BY <1>2 DEF CountFindings, Continue, Succeed, Fail, StopRun
    <2>2. files["report"] \in Reports
      BY <2>1 DEF TInv, FilesTypes, WriterReads, Contents, Members, Unreadable
    <2>3. counts' \in [Severities -> Nat] /\ counts' # None
      BY <2>1, <2>2, CountType, CountsArePresent
    <2>4. RunTypes' /\ FilesTypes' /\ ProductTypes' /\ GateTypes'
      BY <2>1 DEF TInv, RunTypes, FilesTypes, ProductTypes, GateTypes, products, StepNames
    <2>5. WriterTypes'
      BY <2>1, <2>3 DEF TInv, WriterTypes
    <2>6. Sequenced'
      BY <2>1, <2>3 DEF TInv, Sequenced, BeforeSummary, BeforeGate, Writing, Hashing
    <2> QED  BY <2>4, <2>5, <2>6 DEF TInv
  <1>3. CASE HashMember /\ step' # "diagnose"
    <2>1. PICK m \in Members \ DOMAIN hashes :
            /\ files[m] # Absent
            /\ hashes' = [n \in DOMAIN hashes \cup {m} |-> IF n = m THEN files[m] ELSE hashes[n]]
            /\ step' = IF DOMAIN hashes' = Members THEN "document" ELSE "hash"
      BY <1>3 DEF HashMember, Continue, Succeed, Fail, StopRun
    <2>2. step = "hash" /\ UNCHANGED <<changes, failed, cancelled, verified, files, products,
                                       outputs, summary, counts>>
      BY <1>3 DEF HashMember, Continue, Succeed, Fail, StopRun
    <2>3. RunTypes' /\ FilesTypes' /\ ProductTypes' /\ GateTypes'
      BY <2>1, <2>2 DEF TInv, RunTypes, FilesTypes, ProductTypes, GateTypes, products, StepNames
    <2>4. files[m] \in Contents[m]
      BY <2>1 DEF TInv, FilesTypes
    <2>5. DOMAIN hashes # Members
      BY <2>1
    <2>6. /\ DOMAIN hashes' \subseteq Members
          /\ \A n \in DOMAIN hashes' : hashes'[n] \in Contents[n]
      BY <2>1, <2>4 DEF TInv, WriterTypes
    <2>7. files["document"] = Absent /\ counts # None
      BY <2>2, <2>5 DEF TInv, WriterTypes, Sequenced, Hashing
    <2>8. WriterTypes'
      BY <2>2, <2>6, <2>7 DEF TInv, WriterTypes
    <2>9. Sequenced'
      BY <2>1, <2>2 DEF TInv, Sequenced, BeforeSummary, BeforeGate, Writing, Hashing
    <2> QED  BY <2>3, <2>8, <2>9 DEF TInv
  <1>4. CASE WriteDocument /\ step' # "diagnose"
    <2>1. /\ step = "document" /\ step' = "attest"
          /\ files' = [files EXCEPT !["document"] = [hashes |-> hashes, counts |-> counts]]
          /\ UNCHANGED <<changes, failed, cancelled, verified, products, evidence>>
      BY <1>4 DEF WriteDocument, Leave, Succeed, Fail, StopRun, products
    <2>2. RunTypes' /\ ProductTypes'
      BY <2>1 DEF TInv, RunTypes, ProductTypes, products, StepNames
    <2>3. FilesTypes'
      BY <2>1 DEF TInv, FilesTypes, FileNames, Handoff, Members
    <2>4. DOMAIN hashes = Members
      BY <2>1 DEF TInv, Sequenced
    <2>5. GateTypes' /\ WriterTypes'
      BY <2>1, <2>4 DEF TInv, GateTypes, WriterTypes, evidence
    <2>6. Sequenced'
      BY <2>1 DEF Sequenced, BeforeSummary, BeforeGate, Writing, Hashing
    <2> QED  BY <2>2, <2>3, <2>5, <2>6 DEF TInv
  <1> QED  BY <1>1, <1>2, <1>3, <1>4

(* TypeOK of LegacyEvidence, whatever another process changes and when: in *)
(* particular the writer runs only behind a verified provenance and a gate *)
(* that counted no CRITICAL finding and said so (action.yml:62-109).       *)
THEOREM TypeCorrect == FairSpec => []TypeOK
  <1>1. TInv /\ [Next]_vars => TInv'
    <2> SUFFICES ASSUME TInv, [Next]_vars PROVE TInv'
      OBVIOUS
    <2>1. CASE UNCHANGED vars
      BY <2>1 DEF vars, runVars, evidence, products, TInv, RunTypes, FilesTypes, ProductTypes,
        GateTypes, WriterTypes, Sequenced
    <2>2. CASE Next
      BY <2>2, EnvironmentTypes, EarlyTypes, PublishingTypes, GateStepTypes, WriterStepTypes
      DEF Next, Steps, SharedSteps
    <2> QED  BY <2>1, <2>2
  <1> QED  BY <1>1, InitTypes, TypeParts, PTL DEF FairSpec
=============================================================================
