--------------------------- MODULE LegacyEvidence ---------------------------
(***************************************************************************)
(* One run attempt of the composite action (CompositeRun) with evidence    *)
(* version v1alpha2: the scans of trivy-action, the strict CRITICAL gate   *)
(* evaluate-vulnerabilities.mts and the writer                             *)
(* write-candidate-evidence.mts between provenance and attestation.  Gate  *)
(* and writer read the report separately, ask different fields of it and   *)
(* normalise its severities differently; the writer hashes it in a third   *)
(* read.                                                                   *)
(***************************************************************************)
EXTENDS CompositeRun, FiniteSets, Sequences

CONSTANTS
  Spellings,    \* spellings of severities, by what the two cases make of them
  Upper,        \* String.toUpperCase, where that yields a supported severity
  Lower,        \* String.toLowerCase, likewise, named in upper case
  Reports       \* the reports trivy, or another process, may leave

Severities == {"UNKNOWN", "LOW", "MEDIUM", "HIGH", "CRITICAL"}

(* A report has a subject and findings; Trivy may leave an unreadable one. *)
Unreadable == [subject |-> "none", findings |-> <<>>, readable |-> FALSE]

ASSUME ReportAssumption ==
  /\ DOMAIN Upper \subseteq Spellings /\ DOMAIN Lower \subseteq Spellings
  /\ \A s \in DOMAIN Upper : Upper[s] \in Severities
  /\ \A s \in DOMAIN Lower : Lower[s] \in Severities
  /\ \A r \in Reports :
       /\ r.readable \in BOOLEAN
       /\ r.findings \in Seq([severity : Spellings, complete : BOOLEAN])

(* A spelling that both cases turn into a severity is an ASCII one, and    *)
(* they agree on it; dotless i and the Kelvin sign are supported in one    *)
(* case only.                                                              *)
ASSUME CaseAssumption == \A s \in DOMAIN Upper \cap DOMAIN Lower : Upper[s] = Lower[s]

VARIABLES
  outputs,   \* what the gate appended to GITHUB_OUTPUT
  summary,   \* what it appended to GITHUB_STEP_SUMMARY
  counts,    \* the writer's counts
  hashes     \* the writer's hashes, by member

evidence == <<outputs, summary, counts, hashes>>
vars == <<evidence, runVars>>

None == [none |-> TRUE]

Contents ==
  [m \in Members |-> IF m = "report" THEN Reports \cup {Unreadable}
                                     ELSE {Original, Replaced}]

Init ==
  /\ RunInit
  /\ outputs = None
  /\ summary = None
  /\ counts = None
  /\ hashes = NoFiles

-----------------------------------------------------------------------------
(* trivy-action writes its output file as it goes: a failing scan may      *)
(* leave an unreadable one.                                                *)
ScanSbom ==
  /\ step = "scan-sbom"
  /\ \/ Leave("sbom", Original) /\ (Succeed("scan-report") \/ StopRun)
     \/ Fail

ScanReport ==
  /\ step = "scan-report"
  /\ \/ \E r \in Reports : Leave("report", r) /\ Succeed("gate")
     \/ Leave("report", Unreadable) /\ StopRun
     \/ Fail

-----------------------------------------------------------------------------
(* evaluate-vulnerabilities.mts: every finding needs its identifying       *)
(* fields and a severity that is supported in upper case.                  *)
Subject == "candidate"

GateReads(report) ==
  /\ report # Absent /\ report.readable /\ report.subject = Subject
  /\ \A i \in DOMAIN report.findings :
       report.findings[i].complete /\ report.findings[i].severity \in DOMAIN Upper

(* How many findings have each severity under a normalisation.             *)
Having(report, normal, s) ==
  {i \in DOMAIN report.findings :
     report.findings[i].severity \in DOMAIN normal /\ normal[report.findings[i].severity] = s}

Count(report, normal) == [s \in Severities |-> Cardinality(Having(report, normal, s))]

(* What the gate reports of the counts.                                    *)
Reported(counted) == [s \in {"HIGH", "CRITICAL"} |-> counted[s]]

(* Mutant: findings without their identifying fields are passed over.      *)
EvaluatePassingOver ==
  LET kept == SelectSeq(files["report"].findings, LAMBDA f : f.complete)
      report == [files["report"] EXCEPT !.findings = kept] IN
  /\ step = "gate" /\ files["report"] # Absent /\ GateReads(report)
  /\ outputs' = Reported(Count(report, Upper))
  /\ Continue("summary")
  /\ UNCHANGED <<summary, counts, hashes>>

EvaluateReport ==
  /\ step = "gate"
  /\ \/ /\ GateReads(files["report"])
        /\ outputs' = Reported(Count(files["report"], Upper))
        /\ Continue("summary")
        /\ UNCHANGED <<summary, counts, hashes>>
     \/ Fail /\ UNCHANGED evidence

(* The outputs stay when the summary cannot be appended.                   *)
AppendSummary ==
  /\ step = "summary"
  /\ \/ /\ summary' = outputs
        /\ Continue("enforce")
     \/ Fail /\ UNCHANGED summary
  /\ UNCHANGED <<outputs, counts, hashes>>

(* Mutant: HIGH findings fail the run too.                                 *)
EnforceHigh ==
  /\ step = "enforce"
  /\ \/ outputs["CRITICAL"] + outputs["HIGH"] = 0 /\ Continue("count")
     \/ outputs["CRITICAL"] + outputs["HIGH"] > 0 /\ Fail
  /\ UNCHANGED evidence

EnforceGate ==
  /\ step = "enforce"
  /\ \/ outputs["CRITICAL"] = 0 /\ Continue("count")
     \/ outputs["CRITICAL"] > 0 /\ Fail
  /\ UNCHANGED evidence

-----------------------------------------------------------------------------
(* write-candidate-evidence.mts: only the severity of a finding is         *)
(* required, and it is compared in lower case.                             *)
WriterReads(report) ==
  /\ report # Absent /\ report.readable /\ report.subject = Subject
  /\ \A i \in DOMAIN report.findings : report.findings[i].severity \in DOMAIN Lower

(* Mutant: equal findings are counted once.                                *)
CountDistinctFindings ==
  /\ step = "count"
  /\ \/ /\ WriterReads(files["report"])
        /\ counts' = [s \in Severities |->
             Cardinality({files["report"].findings[i] : i \in Having(files["report"], Lower, s)})]
        /\ counts'["CRITICAL"] = 0
        /\ Continue("hash")
        /\ UNCHANGED <<outputs, summary, hashes>>
     \/ Fail /\ UNCHANGED evidence

CountFindings ==
  /\ step = "count"
  /\ \/ /\ WriterReads(files["report"])
        /\ counts' = Count(files["report"], Lower)
        /\ counts'["CRITICAL"] = 0
        /\ Continue("hash")
        /\ UNCHANGED <<outputs, summary, hashes>>
     \/ Fail /\ UNCHANGED evidence

Rank == [provenance |-> 1, sbom |-> 2, report |-> 3]

(* Mutant: a missing member is awaited.                                    *)
HashWhenPresent ==
  /\ step = "hash"
  /\ \E m \in Members \ DOMAIN hashes :
       /\ \A other \in Members \ DOMAIN hashes : Rank[m] <= Rank[other]
       /\ files[m] # Absent
       /\ hashes' = [n \in DOMAIN hashes \cup {m} |->
                       IF n = m THEN files[m] ELSE hashes[n]]
       /\ Continue(IF DOMAIN hashes' = Members THEN "document" ELSE "hash")
  /\ UNCHANGED <<outputs, summary, counts>>

(* hashWorkspaceFile reads the members again, one after the other.         *)
HashMember ==
  /\ step = "hash"
  /\ \E m \in Members \ DOMAIN hashes :
       /\ \A other \in Members \ DOMAIN hashes : Rank[m] <= Rank[other]
       /\ \/ /\ files[m] # Absent
             /\ hashes' = [n \in DOMAIN hashes \cup {m} |->
                             IF n = m THEN files[m] ELSE hashes[n]]
             /\ Continue(IF DOMAIN hashes' = Members THEN "document" ELSE "hash")
          \/ Fail /\ UNCHANGED hashes
  /\ UNCHANGED <<outputs, summary, counts>>

WriteDocument ==
  /\ step = "document"
  /\ \/ Leave("document", [hashes |-> hashes, counts |-> counts]) /\ Succeed("attest")
     \/ Fail
  /\ UNCHANGED evidence

-----------------------------------------------------------------------------
Steps ==
  \/ (SharedSteps \/ ScanSbom \/ ScanReport) /\ UNCHANGED evidence
  \/ EvaluateReport \/ AppendSummary \/ EnforceGate
  \/ CountFindings \/ HashMember \/ WriteDocument

Next ==
  \/ (ChangeMember(Contents) \/ Cancel) /\ UNCHANGED evidence
  \/ Steps

(* As in HostedEvidence, every step of the job ends.                       *)
FairSpec == Init /\ [][Next]_vars /\ WF_vars(Steps)

-----------------------------------------------------------------------------
(* Properties.                                                             *)

StepNames ==
  {"context", "verify", "scan-sbom", "scan-report", "gate", "summary", "enforce",
   "count", "hash", "document", "attest", "upload", "diagnose", "done"}

(* Types of the run's state (action.yml, evaluate-vulnerabilities.mts,     *)
(* write-candidate-evidence.mts).  The writer only runs behind a gate that *)
(* found no CRITICAL and said so.                                          *)
TypeOK ==
  /\ RunTypeOK(Contents, StepNames)
  /\ outputs \in {None} \cup [{"HIGH", "CRITICAL"} -> Nat]
  /\ summary \in {None, outputs}
  /\ counts \in {None} \cup [Severities -> Nat]
  /\ DOMAIN hashes \subseteq Members /\ \A m \in DOMAIN hashes : hashes[m] \in Contents[m]
  /\ step \in {"count", "hash", "document"} =>
       summary # None /\ summary["CRITICAL"] = 0 /\ verified
  /\ DOMAIN hashes # {} => counts # None
  /\ files["document"] # Absent => DOMAIN hashes = Members
  /\ files["diagnostic"] = Absent

(* No finding of the handed over report is CRITICAL in either case, and    *)
(* the document's counts are those of this report.                         *)
LawfulHandoff(artifact) ==
  LET report == artifact["report"] IN
  /\ Consistent(artifact)
  /\ \A i \in DOMAIN report.findings :
       \A normal \in {Upper, Lower} :
         report.findings[i].severity \in DOMAIN normal
         /\ normal[report.findings[i].severity] # "CRITICAL"
  /\ \A s \in Severities :
       artifact["document"].counts[s] = Cardinality(Having(report, Upper, s))

Handed == INSTANCE EvidenceHandoff
            WITH Lawful <- LawfulHandoff, ended <- step = "done"

(* If members only change until the gate reads the report, the v1alpha2    *)
(* run keeps the same promise as the v1alpha3 run: what is signed and      *)
(* uploaded is complete, is what the document describes, and has no        *)
(* CRITICAL finding; rejected diagnostics never accompany it, and a        *)
(* cancelled run publishes nothing more.                                   *)
ImplementsHandoff == Handed!Spec

(* The run ends, also when a member it is to hash has vanished.            *)
RunEnds == <>(step = "done")

(* The HIGH and CRITICAL counts a consumer admits by are the ones the gate *)
(* reported: two readers that ask for different fields and normalise in    *)
(* different cases agree on every report both accept                       *)
(* (evaluate-vulnerabilities.mts:275, write-candidate-evidence.mts:281).   *)
PublishedCountsWereReported ==
  files["document"] # Absent =>
    Reported(files["document"].counts) = outputs /\ summary = outputs

(* A run the gate rejects has said so, counts and summary, before it       *)
(* fails; HIGH findings alone do not fail it.                              *)
RejectionIsReported ==
  [][step = "enforce" /\ failed' # failed =>
       /\ summary = outputs /\ outputs["CRITICAL"] > 0
       /\ verified]_vars
=============================================================================
