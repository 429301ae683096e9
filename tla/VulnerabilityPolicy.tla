------------------------- MODULE VulnerabilityPolicy -------------------------
(***************************************************************************)
(* The evaluator of vulnerability-policy.mts: it validates one evaluation  *)
(* input, decides the findings of the report one by one in their original  *)
(* order, attaches approval snapshots and warnings in exemption ID order,  *)
(* and derives the overall result.  Each loop iteration is one action.     *)
(***************************************************************************)
EXTENDS ExemptionPolicy, Sequences

CONSTANTS
  ExemptionRecords,   \* the records an evaluation may be given
  Findings,           \* the findings a report may hold
  Inputs,             \* the evaluation inputs offered to the evaluator
  Rechecks,           \* trusted records and times of later rechecks
  NoPurl,             \* the null package URL
  SoonWindow,         \* "expires soon" window (7 days)
  MaxFindings,        \* findings accepted in one report (10 000)
  MaxEvaluationItems  \* stands for the 768 KiB bound on the outcome

(* The null exemptionId of a decision; IDs are positive, in name order.    *)
NoId == 0

Severities == {"UNKNOWN", "LOW", "MEDIUM", "HIGH", "CRITICAL"}

ASSUME InputAssumption ==
  /\ SoonWindow \in Nat
  /\ MaxFindings \in Nat
  /\ MaxEvaluationItems \in Nat
  /\ \A r \in ExemptionRecords :
       r.id \in Nat \ {NoId} /\ r.expiresAt \in Nat /\ r.package.purl # NoPurl
  /\ \A in \in Inputs :
       /\ in.now \in Nat
       /\ in.useApprovedExemptions \in BOOLEAN
       /\ in.records \in Seq(ExemptionRecords)
       /\ in.report.findings \in Seq(Findings)

VARIABLES
  input,             \* the EvaluationInput, fixed for the whole call
  phase,             \* where evaluateVulnerabilities is
  counts,            \* outcome.counts
  exempted,          \* outcome.exempted, by exemption type
  blockingCritical,  \* outcome.blockingCritical
  decisions,         \* outcome.findings
  applied,           \* appliedExemptionIds
  criticalMatch,     \* criticalMatchExemptionIds
  attached,          \* IDs already handled by attachExemptionDetails
  exemptions,        \* outcome.exemptions, by ID
  warnings,          \* outcome.warnings
  result             \* outcome.result

vars == <<input, phase, counts, exempted, blockingCritical, decisions, applied,
          criticalMatch, attached, exemptions, warnings, result>>

-----------------------------------------------------------------------------
(* Inputs of the loops.                                                    *)

(* Strict mode deliberately ignores the approval records.                  *)
Records == IF input.useApprovedExemptions THEN input.records ELSE <<>>

RecordIds == {Records[k].id : k \in DOMAIN Records}

RecordOf(id) == CHOOSE r \in {Records[k] : k \in DOMAIN Records} : r.id = id

(* Subject identity: an immutable reference must be the component's own    *)
(* image at a digest, a local one a name with a tag.                       *)
SubjectValid(in) ==
  \/ /\ in.subjectKind = "immutable-ghcr"
     /\ in.image.kind = "digest"
     /\ in.image.component = in.component
  \/ /\ in.subjectKind = "local"
     /\ in.image.kind = "tag"

(* validateEvaluationInput; an approval from the future rejects the whole  *)
(* evaluation, not only its record.                                        *)
InputValid(in) ==
  /\ SubjectValid(in)
  /\ in.useApprovedExemptions =>
       /\ ParseExemptions(in.records, in.component)
       /\ \A k \in DOMAIN in.records : in.records[k].approval.at <= in.now

(* readTrivyFindings accepts the report of exactly this image, with the    *)
(* supported platform when approvals may apply, and known severities.      *)
ReportReadable(in) ==
  /\ in.report.image = in.image
  /\ in.useApprovedExemptions => in.report.platform = "linux/amd64"
  /\ Len(in.report.findings) <= MaxFindings
  /\ \A k \in DOMAIN in.report.findings :
       in.report.findings[k].severity \in Severities

(* A package URL that does not identify the installed package is dropped;  *)
(* its finding is kept.                                                    *)
EligiblePurl(finding) ==
  IF finding.purl # NoPurl /\ PurlIdentifies(finding.purl, finding.version)
  THEN finding.purl ELSE NoPurl

(* The record a finding matches, as a set of at most one: the scope is     *)
(* looked up in a map, whose last record wins, then the package name and   *)
(* the installed version must agree.                                       *)
MatchingExemption(finding, records) ==
  LET hits == {k \in DOMAIN records :
                 /\ EligiblePurl(finding) # NoPurl
                 /\ Scope(records[k]) =
                      <<finding.vulnerabilityId, EligiblePurl(finding)>>}
  IN  {records[k] : k \in {h \in hits :
         /\ \A other \in hits : other <= h
         /\ records[h].package.name = finding.name
         /\ records[h].package.version = finding.version}}

(* Mutant: an approval still applies at the instant it expires.            *)
UnexpiredInclusive(record) == input.now <= record.expiresAt

(* An approval applies strictly before its expiry.                         *)
Unexpired(record) == input.now < record.expiresAt

-----------------------------------------------------------------------------
Init ==
  /\ input \in Inputs
  /\ phase = "validate"
  /\ counts = [s \in Severities |-> 0]
  /\ exempted = [t \in ExemptionTypes |-> 0]
  /\ blockingCritical = 0
  /\ decisions = <<>>
  /\ applied = {}
  /\ criticalMatch = {}
  /\ attached = {}
  /\ exemptions = <<>>
  /\ warnings = <<>>
  /\ result = "passed"

(* Input and report are accepted together, or the call throws.             *)
Validate ==
  /\ phase = "validate"
  /\ phase' = IF InputValid(input) /\ ReportReadable(input)
              THEN "evaluate" ELSE "refused"
  /\ UNCHANGED <<input, counts, exempted, blockingCritical, decisions, applied,
                 criticalMatch, attached, exemptions, warnings, result>>

(* Mutant: the findings are taken from the end of the report.              *)
LastFindingFirst ==
  input.report.findings[Len(input.report.findings) - Len(decisions)]

(* The finding the loop of evaluateFindings is at.                         *)
CurrentFinding == input.report.findings[Len(decisions) + 1]

AtFinding ==
  /\ phase = "evaluate"
  /\ Len(decisions) < Len(input.report.findings)

(* Every finding is counted and kept, whatever is decided about it.        *)
Decide(disposition, exemptionId) ==
  /\ counts' = [counts EXCEPT ![CurrentFinding.severity] = @ + 1]
  /\ decisions' = Append(decisions, [finding     |-> CurrentFinding,
                                     disposition |-> disposition,
                                     exemptionId |-> exemptionId])
  /\ UNCHANGED <<input, phase, attached, exemptions, warnings, result>>

KeepNonCritical ==
  /\ AtFinding
  /\ CurrentFinding.severity # "CRITICAL"
  /\ Decide("non-blocking", NoId)
  /\ UNCHANGED <<exempted, blockingCritical, applied, criticalMatch>>

(* Mutant: an expired match is not remembered as a match.                  *)
BlockForgettingMatch ==
  /\ AtFinding
  /\ CurrentFinding.severity = "CRITICAL"
  /\ \A record \in MatchingExemption(CurrentFinding, Records) : ~Unexpired(record)
  /\ Decide("blocking", NoId)
  /\ blockingCritical' = blockingCritical + 1
  /\ UNCHANGED <<exempted, applied, criticalMatch>>

(* A CRITICAL finding without a matching record, or with an expired one.   *)
BlockCritical ==
  /\ AtFinding
  /\ CurrentFinding.severity = "CRITICAL"
  /\ LET matching == MatchingExemption(CurrentFinding, Records) IN
       /\ \A record \in matching : ~Unexpired(record)
       /\ criticalMatch' = criticalMatch \cup {record.id : record \in matching}
  /\ Decide("blocking", NoId)
  /\ blockingCritical' = blockingCritical + 1
  /\ UNCHANGED <<exempted, applied>>

(* Mutant: an exempted finding is still counted as blocking.               *)
ExemptButStillBlocking ==
  /\ AtFinding
  /\ CurrentFinding.severity = "CRITICAL"
  /\ \E record \in MatchingExemption(CurrentFinding, Records) :
       /\ Unexpired(record)
       /\ Decide(record.type, record.id)
       /\ criticalMatch' = criticalMatch \cup {record.id}
       /\ applied' = applied \cup {record.id}
       /\ exempted' = [exempted EXCEPT ![record.type] = @ + 1]
  /\ blockingCritical' = blockingCritical + 1

(* A CRITICAL finding with a matching record that has not expired.         *)
ExemptCritical ==
  /\ AtFinding
  /\ CurrentFinding.severity = "CRITICAL"
  /\ \E record \in MatchingExemption(CurrentFinding, Records) :
       /\ Unexpired(record)
       /\ Decide(record.type, record.id)
       /\ criticalMatch' = criticalMatch \cup {record.id}
       /\ applied' = applied \cup {record.id}
       /\ exempted' = [exempted EXCEPT ![record.type] = @ + 1]
  /\ UNCHANGED blockingCritical

FindingsDecided ==
  /\ phase = "evaluate"
  /\ Len(decisions) = Len(input.report.findings)
  /\ phase' = "attach"
  /\ UNCHANGED <<input, counts, exempted, blockingCritical, decisions, applied,
                 criticalMatch, attached, exemptions, warnings, result>>

WarningNames ==
  {"exemption-applied", "expires-soon", "unused-exemption",
   "unused-expired-exemption", "expired-exemption"}

(* The warnings one record earns, in the order they are pushed.            *)
WarningCodes(record) ==
  LET remaining == record.expiresAt - input.now
      isApplied == record.id \in applied
      unused    == ~isApplied /\ record.id \notin criticalMatch
      matched   == ~isApplied /\ record.id \in criticalMatch
  IN CASE isApplied /\ remaining > SoonWindow -> <<"exemption-applied">>
       [] isApplied /\ remaining <= SoonWindow ->
            <<"exemption-applied", "expires-soon">>
       [] unused /\ remaining > 0    -> <<"unused-exemption">>
       [] unused /\ remaining <= 0   -> <<"unused-expired-exemption">>
       [] matched /\ remaining <= 0  -> <<"expired-exemption">>
       [] matched /\ remaining > 0   -> <<>>

WarningsFor(record) ==
  [k \in DOMAIN WarningCodes(record) |->
     [code |-> WarningCodes(record)[k], exemptionId |-> record.id]]

(* Mutant: the records are taken in the order they were read.              *)
AttachUnsorted ==
  /\ phase = "attach"
  /\ \E id \in RecordIds \ attached :
       /\ id = Records[Cardinality(attached) + 1].id
       /\ attached' = attached \cup {id}
       /\ exemptions' = IF id \in applied THEN Append(exemptions, id)
                                          ELSE exemptions
       /\ warnings' = warnings \o WarningsFor(RecordOf(id))
  /\ UNCHANGED <<input, phase, counts, exempted, blockingCritical, decisions,
                 applied, criticalMatch, result>>

(* One iteration of attachExemptionDetails: the records sorted by ID.      *)
AttachRecord ==
  /\ phase = "attach"
  /\ \E id \in RecordIds \ attached :
       /\ \A other \in RecordIds \ attached : id <= other
       /\ attached' = attached \cup {id}
       /\ exemptions' = IF id \in applied THEN Append(exemptions, id)
                                          ELSE exemptions
       /\ warnings' = warnings \o WarningsFor(RecordOf(id))
  /\ UNCHANGED <<input, phase, counts, exempted, blockingCritical, decisions,
                 applied, criticalMatch, result>>

(* The overall result, then the bound on the serialized outcome.           *)
Conclude ==
  /\ phase = "attach"
  /\ attached = RecordIds
  /\ result' = IF blockingCritical > 0 THEN "failed"
               ELSE IF applied # {} THEN "passed-with-exemptions"
               ELSE result
  /\ phase' = IF Len(decisions) + Len(exemptions) + Len(warnings)
                   <= MaxEvaluationItems
              THEN "done" ELSE "refused"
  /\ UNCHANGED <<input, counts, exempted, blockingCritical, decisions, applied,
                 criticalMatch, attached, exemptions, warnings>>

Next ==
  \/ Validate
  \/ KeepNonCritical
  \/ BlockCritical
  \/ ExemptCritical
  \/ FindingsDecided
  \/ AttachRecord
  \/ Conclude

Spec == Init /\ [][Next]_vars

-----------------------------------------------------------------------------
(* Properties.                                                             *)

Dispositions == {"non-blocking", "blocking"} \cup ExemptionTypes

(* Types of the evaluator's variables (evaluateVulnerabilities, the        *)
(* Evaluation and Decision types).                                         *)
TypeOK ==
  /\ phase \in {"validate", "evaluate", "attach", "done", "refused"}
  /\ counts \in [Severities -> Nat]
  /\ exempted \in [ExemptionTypes -> Nat]
  /\ blockingCritical \in Nat
  /\ decisions \in Seq([finding     : {input.report.findings[k] :
                                         k \in DOMAIN input.report.findings},
                        disposition : Dispositions,
                        exemptionId : RecordIds \cup {NoId}])
  /\ Len(decisions) <= Len(input.report.findings)
  /\ \A k \in DOMAIN decisions : decisions[k].finding = input.report.findings[k]
  /\ applied \subseteq criticalMatch
  /\ criticalMatch \subseteq RecordIds
  /\ attached \subseteq RecordIds
  /\ exemptions \in Seq(RecordIds)
  /\ warnings \in Seq([code : WarningNames, exemptionId : RecordIds])
  /\ result \in {"passed", "passed-with-exemptions", "failed"}

(* No finding is lost between the counters: at every point of the loop     *)
(* each CRITICAL finding counted so far is either blocking or exempted     *)
(* under exactly one type, and the counters agree with the decisions kept. *)
CriticalAccounting ==
  /\ blockingCritical + exempted["not-affected"] + exempted["risk-accepted"]
       = counts["CRITICAL"]
  /\ \A s \in Severities :
       counts[s] = Cardinality({k \in DOMAIN decisions :
                                  decisions[k].finding.severity = s})
  /\ blockingCritical = Cardinality({k \in DOMAIN decisions :
                                       decisions[k].disposition = "blocking"})

(* The record whose exact scope is the finding's: same CVE, same package   *)
(* URL, same package name and same installed version.                      *)
Covers(record, finding) ==
  /\ finding.purl = record.package.purl
  /\ PurlIdentifies(finding.purl, finding.version)
  /\ finding.vulnerabilityId = record.vex.vulnerability
  /\ finding.name = record.package.name
  /\ finding.version = record.package.version

(* A CRITICAL finding stops blocking only in approved mode, through a      *)
(* reviewed record of this component with exactly its scope that is        *)
(* already approved and not yet expired at the decision time.              *)
UnblockedOnlyByLiveApproval ==
  \A k \in DOMAIN decisions :
    LET d == decisions[k] IN
    d.finding.severity = "CRITICAL" /\ d.disposition # "blocking" =>
      /\ input.useApprovedExemptions
      /\ \E j \in DOMAIN input.records :
           LET record == input.records[j] IN
           /\ record.id = d.exemptionId
           /\ record.type = d.disposition
           /\ record.component = input.component
           /\ Covers(record, d.finding)
           /\ record.approval.at <= input.now
           /\ input.now < record.expiresAt
           /\ ApprovalWindowValid(record)

(* The approvals the outcome carries to a later recheck.                   *)
UsedRecords == [k \in DOMAIN exemptions |-> RecordOf(exemptions[k])]

(* The outcome carries enough for an admission that comes later: when its  *)
(* used approvals pass verifyExemptionSnapshot against records trusted at  *)
(* that time, each CRITICAL finding the evaluation let pass is covered by  *)
(* a trusted record in force at that time; a withdrawn, changed or expired *)
(* approval is never carried through.                                      *)
RecheckedApprovalsStillHold ==
  phase = "done" /\ result # "failed" =>
    \A recheck \in Rechecks :
      VerifyExemptionSnapshot(UsedRecords, recheck.trusted, input.component, recheck.now) =>
        \A k \in DOMAIN decisions :
          decisions[k].finding.severity = "CRITICAL" =>
            \E j \in DOMAIN recheck.trusted :
              LET record == recheck.trusted[j] IN
              /\ record.id = decisions[k].exemptionId
              /\ Covers(record, decisions[k].finding)
              /\ record.approval.at <= recheck.now /\ recheck.now < record.expiresAt

(* The verdict this evaluation stands for.                                 *)
verdictMapping ==
  CASE phase = "done" ->
         [status   |-> "decided",
          result   |-> result,
          counts   |-> counts,
          blocking |-> blockingCritical,
          exempted |-> exempted,
          used     |-> {exemptions[k] : k \in DOMAIN exemptions},
          warned   |-> {warnings[k] : k \in DOMAIN warnings}]
    [] phase = "refused" -> [status |-> "refused"]
    [] OTHER -> [status |-> "pending"]

Acceptable(in) == InputValid(in) /\ ReportReadable(in)

Decision == INSTANCE PolicyDecision WITH verdict <- verdictMapping

(* The loops implement the one-step policy: the result, the counters, the  *)
(* attached snapshots and the warnings are those the findings and the      *)
(* approvals determine, whatever their order; what cannot be evaluated or  *)
(* held is refused, and nothing else (vulnerability-policy.mts:47-72).     *)
ImplementsDecision == Decision!Spec

(* The size bound must see what the verdict holds: no approval is attached *)
(* twice and no warning repeated, in exemption ID order.                   *)
DetailsInIdOrder ==
  /\ \A j, k \in DOMAIN exemptions : j < k => exemptions[j] < exemptions[k]
  /\ \A j, k \in DOMAIN warnings :
       j < k => /\ warnings[j].exemptionId <= warnings[k].exemptionId
                /\ warnings[j] # warnings[k]
=============================================================================
