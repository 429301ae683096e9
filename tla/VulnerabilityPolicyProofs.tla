---------------------- MODULE VulnerabilityPolicyProofs ----------------------
(***************************************************************************)
(* Theorems about the evaluator for every report, every set of records and *)
(* every bound: its types, the agreement of its counters with the          *)
(* decisions it keeps, that only a live, exactly scoped approval stops a   *)
(* CRITICAL finding from blocking, and that its three loops together       *)
(* implement the one-step policy of PolicyDecision.                        *)
(***************************************************************************)
EXTENDS VulnerabilityPolicy, FiniteSetTheorems, SequenceTheorems, TLAPS

Past == {"evaluate", "attach", "done"}

(* Once validation let the input through it stays valid.                   *)
Accepted == phase \in Past => InputValid(input) /\ ReportReadable(input)

IInv == input \in Inputs /\ Accepted /\ TypeOK

-----------------------------------------------------------------------------
(* Records, or none in strict mode, is a sequence of known records.        *)
LEMMA RecordsType ==
  ASSUME input \in Inputs
  PROVE  /\ Records \in Seq(ExemptionRecords)
         /\ \A k \in DOMAIN Records :
              /\ Records[k] \in ExemptionRecords
              /\ Records[k].id \in RecordIds
  BY InputAssumption DEF Records, RecordIds

(* A matching record is one of the records in force and covers the         *)
(* finding: matchingExemption never returns anything else.                 *)
LEMMA MatchCovers ==
  ASSUME NEW finding, NEW record \in MatchingExemption(finding, Records)
  PROVE  \E k \in DOMAIN Records : record = Records[k] /\ Covers(record, finding)
  <1> DEFINE hits == {k \in DOMAIN Records :
                 /\ EligiblePurl(finding) # NoPurl
                 /\ Scope(Records[k]) =
                      <<finding.vulnerabilityId, EligiblePurl(finding)>>}
  <1>1. PICK k \in hits :
          /\ record = Records[k]
          /\ Records[k].package.name = finding.name
          /\ Records[k].package.version = finding.version
    BY DEF MatchingExemption
  <1>2. /\ EligiblePurl(finding) = finding.purl
        /\ PurlIdentifies(finding.purl, finding.version)
    BY <1>1 DEF EligiblePurl
  <1>3. /\ Records[k].vex.vulnerability = finding.vulnerabilityId
        /\ Records[k].package.purl = finding.purl
    BY <1>1, <1>2 DEF Scope
  <1> QED  BY <1>1, <1>2, <1>3 DEF Covers

(* In an accepted input the records in force are parsed exemptions of the  *)
(* component, approved by the decision time.                               *)
LEMMA RecordsParsed ==
  ASSUME input \in Inputs, InputValid(input), NEW k \in DOMAIN Records
  PROVE  /\ input.useApprovedExemptions
         /\ k \in DOMAIN input.records
         /\ Records[k] = input.records[k]
         /\ ParseExemption(Records[k])
         /\ Records[k].component = input.component
         /\ Records[k].approval.at <= input.now
  <1>1. input.useApprovedExemptions
    BY DEF Records
  <1>2. Records = input.records
    BY <1>1 DEF Records
  <1> QED  BY <1>1, <1>2 DEF InputValid, ParseExemptions

(* What TypeOK needs of a matching record.                                 *)
LEMMA MatchType ==
  ASSUME input \in Inputs, InputValid(input),
         NEW finding, NEW record \in MatchingExemption(finding, Records)
  PROVE  /\ record.id \in RecordIds
         /\ record.type \in ExemptionTypes
  <1>1. PICK k \in DOMAIN Records : record = Records[k]
    BY MatchCovers
  <1> QED  BY <1>1, RecordsType, RecordsParsed DEF ParseExemption

(* The record looked up for an ID has that ID.                             *)
LEMMA RecordOfId ==
  ASSUME input \in Inputs, NEW id \in RecordIds
  PROVE  RecordOf(id) \in ExemptionRecords /\ RecordOf(id).id = id
  <1>1. \E r \in {Records[k] : k \in DOMAIN Records} : r.id = id
    BY DEF RecordIds
  <1>2. /\ RecordOf(id) \in {Records[k] : k \in DOMAIN Records}
        /\ RecordOf(id).id = id
    BY <1>1 DEF RecordOf
  <1> QED  BY <1>2, RecordsType

(* Every record earns one of six sequences of warnings: the cases of       *)
(* WarningCodes are complete.                                              *)
LEMMA WarningsKnown ==
  ASSUME input \in Inputs, NEW id \in RecordIds
  PROVE  WarningCodes(RecordOf(id)) \in {<<"exemption-applied">>,
                                         <<"exemption-applied", "expires-soon">>,
                                         <<"unused-exemption">>,
                                         <<"unused-expired-exemption">>,
                                         <<"expired-exemption">>, <<>>}
  <1> DEFINE r == RecordOf(id)
             left == r.expiresAt - input.now
  <1>1. r.expiresAt \in Nat /\ input.now \in Nat /\ r.id = id
    BY RecordOfId, InputAssumption
  <1>2. r.expiresAt - input.now \in Int /\ SoonWindow \in Int
    BY <1>1, InputAssumption
  <1> HIDE DEF r
  <1>3. \/ left > SoonWindow \/ left <= SoonWindow
    BY <1>2
  <1>4. \/ left > 0 \/ left <= 0
    BY <1>2
  <1>5. WarningCodes(r) \in {<<"exemption-applied">>,
                             <<"exemption-applied", "expires-soon">>,
                             <<"unused-exemption">>,
                             <<"unused-expired-exemption">>,
                             <<"expired-exemption">>, <<>>}
    BY <1>3, <1>4, Zenon DEF WarningCodes
  <1> QED  BY <1>5 DEF r

(* These are well-formed warnings about that record.                       *)
LEMMA WarningsType ==
  ASSUME input \in Inputs, NEW id \in RecordIds
  PROVE  WarningsFor(RecordOf(id)) \in
           Seq([code : WarningNames, exemptionId : RecordIds])
  <1> DEFINE r == RecordOf(id)
  <1>1. r.id = id
    BY RecordOfId
  <1>3. WarningCodes(r) \in {<<"exemption-applied">>,
                             <<"exemption-applied", "expires-soon">>,
                             <<"unused-exemption">>,
                             <<"unused-expired-exemption">>,
                             <<"expired-exemption">>, <<>>}
    BY WarningsKnown
  <1>4. WarningCodes(r) \in Seq(WarningNames)
    <2>1. \A w \in WarningNames, v \in WarningNames :
            <<w>> \in Seq(WarningNames) /\ <<w, v>> \in Seq(WarningNames)
      OBVIOUS
    <2>2. <<>> \in Seq(WarningNames)
      OBVIOUS
    <2> QED  BY <1>3, <2>1, <2>2 DEF WarningNames
  <1> HIDE DEF r
  <1>5. \A k \in DOMAIN WarningCodes(r) :
          [code |-> WarningCodes(r)[k], exemptionId |-> r.id]
            \in [code : WarningNames, exemptionId : RecordIds]
    BY <1>1, <1>4
  <1>6. DOMAIN WarningCodes(r) = 1 .. Len(WarningCodes(r)) /\ Len(WarningCodes(r)) \in Nat
    BY <1>4, LenProperties
  <1>7. WarningsFor(r) \in Seq([code : WarningNames, exemptionId : RecordIds])
    BY <1>5, <1>6 DEF WarningsFor
  <1> QED  BY <1>7 DEF r

-----------------------------------------------------------------------------
(* Type correctness.                                                       *)

DecisionType ==
  [finding     : {input.report.findings[k] : k \in DOMAIN input.report.findings},
   disposition : Dispositions,
   exemptionId : RecordIds \cup {NoId}]

(* Appending one decision for the finding the loop is at keeps the counts  *)
(* and the decisions well typed and aligned with the report.               *)
LEMMA DecideType ==
  ASSUME IInv, AtFinding,
         NEW d \in Dispositions, NEW id \in RecordIds \cup {NoId},
         Decide(d, id)
  PROVE  /\ counts' \in [Severities -> Nat]
         /\ decisions' \in Seq(DecisionType)
         /\ Len(decisions') = Len(decisions) + 1
         /\ Len(decisions') <= Len(input.report.findings)
         /\ \A k \in DOMAIN decisions' :
              decisions'[k].finding = input.report.findings[k]
  <1>1. /\ counts \in [Severities -> Nat]
        /\ decisions \in Seq(DecisionType)
        /\ \A k \in DOMAIN decisions :
             decisions[k].finding = input.report.findings[k]
    BY DEF IInv, TypeOK, DecisionType
  <1>2. input.report.findings \in Seq(Findings)
    BY InputAssumption DEF IInv
  <1>3. /\ Len(decisions) \in Nat
        /\ DOMAIN input.report.findings = 1 .. Len(input.report.findings)
        /\ Len(input.report.findings) \in Nat
        /\ Len(decisions) < Len(input.report.findings)
    BY <1>1, <1>2, LenProperties DEF AtFinding
  <1> DEFINE entry == [finding |-> CurrentFinding, disposition |-> d, exemptionId |-> id]
  <1>4. Len(decisions) + 1 \in DOMAIN input.report.findings
    BY <1>3
  <1>5. entry \in DecisionType
    BY <1>4 DEF DecisionType, CurrentFinding
  <1>6. decisions' = Append(decisions, entry)
    BY DEF Decide
  <1>7. entry.finding = input.report.findings[Len(decisions) + 1]
    BY DEF CurrentFinding
  <1> HIDE DEF entry
  <1>8. /\ decisions' \in Seq(DecisionType)
        /\ Len(decisions') = Len(decisions) + 1
        /\ \A k \in 1 .. Len(decisions) : decisions'[k] = decisions[k]
        /\ decisions'[Len(decisions) + 1] = entry
        /\ DOMAIN decisions' = 1 .. Len(decisions) + 1
        /\ DOMAIN decisions = 1 .. Len(decisions)
    BY <1>1, <1>5, <1>6
  <1>9. counts' \in [Severities -> Nat]
    <2>1. counts' = [counts EXCEPT ![CurrentFinding.severity] = @ + 1]
      BY DEF Decide
    <2> DEFINE sev == CurrentFinding.severity
    <2>2. \A s \in Severities : counts[s] + 1 \in Nat
      BY <1>1
    <2> HIDE DEF sev
    <2>3. counts' = [counts EXCEPT ![sev] = counts[sev] + 1]
      BY <2>1 DEF sev
    <2> QED  BY <1>1, <2>2, <2>3
  <1>10. \A k \in DOMAIN decisions' : decisions'[k].finding = input.report.findings[k]
    BY <1>1, <1>3, <1>7, <1>8
  <1> QED  BY <1>3, <1>8, <1>9, <1>10

(***************************************************************************)
(* An evaluation that has decided nothing satisfies the inductive          *)
(* invariant: the input is a legal one and every list is still empty.      *)
(***************************************************************************)
LEMMA InitIInv == Init => IInv
  <1> SUFFICES ASSUME Init PROVE IInv
    OBVIOUS
  <1>1. input.report.findings \in Seq(Findings)
    BY InputAssumption DEF Init
  <1>2. Len(input.report.findings) \in Nat
    BY <1>1, LenProperties
  <1>3. Accepted
    BY DEF Init, Accepted, Past
  <1>4. /\ decisions = <<>> /\ Len(decisions) = 0 /\ DOMAIN decisions = {}
        /\ exemptions \in Seq(RecordIds)
        /\ warnings \in Seq([code : WarningNames, exemptionId : RecordIds])
        /\ decisions \in Seq(DecisionType)
    BY DEF Init
  <1>5. TypeOK
    BY <1>2, <1>4 DEF Init, TypeOK, DecisionType
  <1> QED  BY <1>3, <1>5 DEF IInv, Init

(***************************************************************************)
(* Every step of evaluateVulnerabilities keeps the inductive invariant:    *)
(* validation establishes what Accepted says, and the later steps only     *)
(* append well typed decisions and records of the accepted input.          *)
(***************************************************************************)
LEMMA NextIInv == IInv /\ [Next]_vars => IInv'
  <1> SUFFICES ASSUME IInv, [Next]_vars PROVE IInv'
    OBVIOUS
  <1>i. /\ input \in Inputs
        /\ input' = input
    BY DEF IInv, Next, vars, Validate, KeepNonCritical, BlockCritical,
           ExemptCritical, FindingsDecided, AttachRecord, Conclude, Decide
  <1>r. RecordIds' = RecordIds
    BY <1>i DEF RecordIds, Records
  <1>d. DecisionType' = DecisionType
    BY <1>i, <1>r DEF DecisionType
  <1>n. NoId \in RecordIds \cup {NoId}
    OBVIOUS
  <1>1. CASE Validate
    <2>1. Accepted'
      BY <1>1, <1>i DEF Validate, Accepted, Past, InputValid, SubjectValid, ReportReadable
    <2>2. TypeOK'
      BY <1>1, <1>i, <1>r DEF Validate, IInv, TypeOK
    <2> QED  BY <1>i, <2>1, <2>2 DEF IInv
  <1>2. CASE KeepNonCritical
    <2>1. "non-blocking" \in Dispositions
      BY DEF Dispositions
    <2>2. AtFinding /\ Decide("non-blocking", NoId)
      BY <1>2 DEF KeepNonCritical
    <2>3. /\ counts' \in [Severities -> Nat]
          /\ decisions' \in Seq(DecisionType)
          /\ Len(decisions') <= Len(input.report.findings)
          /\ \A k \in DOMAIN decisions' :
               decisions'[k].finding = input.report.findings[k]
      BY <2>1, <2>2, <1>n, DecideType
    <2>4. TypeOK'
      BY <1>2, <2>3, <1>i, <1>r, <1>d
      DEF KeepNonCritical, Decide, IInv, TypeOK, DecisionType
    <2>5. Accepted'
      BY <2>2, <1>i DEF Decide, IInv, Accepted, InputValid, SubjectValid, ReportReadable
    <2> QED  BY <1>i, <2>4, <2>5 DEF IInv
  <1>3. CASE BlockCritical
    <2>1. "blocking" \in Dispositions
      BY DEF Dispositions
    <2>2. AtFinding /\ Decide("blocking", NoId) /\ InputValid(input)
      BY <1>3 DEF BlockCritical, AtFinding, IInv, Accepted, Past
    <2>3. /\ counts' \in [Severities -> Nat]
          /\ decisions' \in Seq(DecisionType)
          /\ Len(decisions') <= Len(input.report.findings)
          /\ \A k \in DOMAIN decisions' :
               decisions'[k].finding = input.report.findings[k]
      BY <2>1, <2>2, <1>n, DecideType
    <2>4. {record.id : record \in MatchingExemption(CurrentFinding, Records)}
            \subseteq RecordIds
      BY <1>i, <2>2, MatchType
    <2>5. /\ applied' \subseteq criticalMatch'
          /\ criticalMatch' \subseteq RecordIds
      BY <1>3, <2>4 DEF BlockCritical, IInv, TypeOK
    <2>6. TypeOK'
      BY <1>3, <2>3, <2>5, <1>i, <1>r, <1>d
      DEF BlockCritical, Decide, IInv, TypeOK, DecisionType
    <2>7. Accepted'
      BY <2>2, <1>i DEF Decide, IInv, Accepted, InputValid, SubjectValid, ReportReadable
    <2> QED  BY <1>i, <2>6, <2>7 DEF IInv
  <1>4. CASE ExemptCritical
    <2>1. PICK record \in MatchingExemption(CurrentFinding, Records) :
            /\ Unexpired(record)
            /\ Decide(record.type, record.id)
            /\ criticalMatch' = criticalMatch \cup {record.id}
            /\ applied' = applied \cup {record.id}
            /\ exempted' = [exempted EXCEPT ![record.type] = @ + 1]
      BY <1>4 DEF ExemptCritical
    <2>2. AtFinding /\ InputValid(input)
      BY <1>4 DEF ExemptCritical, AtFinding, IInv, Accepted, Past
    <2>3. record.id \in RecordIds /\ record.type \in ExemptionTypes
      BY <1>i, <2>2, MatchType
    <2>4. /\ counts' \in [Severities -> Nat]
          /\ decisions' \in Seq(DecisionType)
          /\ Len(decisions') <= Len(input.report.findings)
          /\ \A k \in DOMAIN decisions' :
               decisions'[k].finding = input.report.findings[k]
      <3>1. record.type \in Dispositions /\ record.id \in RecordIds \cup {NoId}
        BY <2>3 DEF Dispositions
      <3> QED  BY <3>1, <2>1, <2>2, DecideType
    <2>5. exempted' \in [ExemptionTypes -> Nat]
      BY <2>1, <2>3 DEF IInv, TypeOK
    <2>6. /\ applied' \subseteq criticalMatch'
          /\ criticalMatch' \subseteq RecordIds
      BY <2>1, <2>3 DEF IInv, TypeOK
    <2>7. TypeOK'
      BY <1>4, <2>1, <2>4, <2>5, <2>6, <1>i, <1>r, <1>d
      DEF ExemptCritical, Decide, IInv, TypeOK, DecisionType
    <2>8. Accepted'
      BY <2>1, <1>i DEF Decide, IInv, Accepted, InputValid, SubjectValid, ReportReadable
    <2> QED  BY <1>i, <2>7, <2>8 DEF IInv
  <1>5. CASE FindingsDecided
    <2>1. Accepted'
      BY <1>5, <1>i
      DEF FindingsDecided, IInv, Accepted, Past, InputValid, SubjectValid, ReportReadable
    <2>2. TypeOK'
      BY <1>5, <1>i, <1>r DEF FindingsDecided, IInv, TypeOK
    <2> QED  BY <1>i, <2>1, <2>2 DEF IInv
  <1>6. CASE AttachRecord
    <2>1. PICK id \in RecordIds \ attached :
            /\ attached' = attached \cup {id}
            /\ exemptions' = IF id \in applied THEN Append(exemptions, id)
                                               ELSE exemptions
            /\ warnings' = warnings \o WarningsFor(RecordOf(id))
      BY <1>6 DEF AttachRecord
    <2>2. exemptions' \in Seq(RecordIds)
      BY <2>1 DEF IInv, TypeOK
    <2>3. warnings' \in Seq([code : WarningNames, exemptionId : RecordIds])
      <3>1. WarningsFor(RecordOf(id))
              \in Seq([code : WarningNames, exemptionId : RecordIds])
        BY <1>i, WarningsType
      <3>2. warnings \in Seq([code : WarningNames, exemptionId : RecordIds])
        BY DEF IInv, TypeOK
      <3> QED  BY <2>1, <3>1, <3>2, ConcatProperties
    <2>4. TypeOK'
      BY <1>6, <2>1, <2>2, <2>3, <1>i, <1>r DEF AttachRecord, IInv, TypeOK
    <2>5. Accepted'
      BY <1>6, <1>i
      DEF AttachRecord, IInv, Accepted, InputValid, SubjectValid, ReportReadable
    <2> QED  BY <1>i, <2>4, <2>5 DEF IInv
  <1>7. CASE Conclude
    <2>1. Accepted'
      BY <1>7, <1>i
      DEF Conclude, IInv, Accepted, Past, InputValid, SubjectValid, ReportReadable
    <2>2. TypeOK'
      BY <1>7, <1>i, <1>r DEF Conclude, IInv, TypeOK
    <2> QED  BY <1>i, <2>1, <2>2 DEF IInv
  <1>8. CASE UNCHANGED vars
    BY <1>8, <1>i, <1>r
    DEF vars, IInv, TypeOK, Accepted, InputValid, SubjectValid, ReportReadable
  <1> QED  BY <1>1, <1>2, <1>3, <1>4, <1>5, <1>6, <1>7, <1>8 DEF Next

(***************************************************************************)
(* The inductive invariant holds throughout every evaluation. The theorems *)
(* below take from it that the input in use has been validated.            *)
(***************************************************************************)
THEOREM Invariance == Spec => []IInv
  BY InitIInv, NextIInv, PTL DEF Spec

(* The evaluator's variables keep their types (evaluateVulnerabilities):   *)
(* decisions stay aligned with the findings of the report, applied         *)
(* approvals are matched ones, warnings and snapshots name given records.  *)
THEOREM TypeCorrect == Spec => []TypeOK
  <1>1. IInv => TypeOK
    BY DEF IInv
  <1> QED  BY <1>1, Invariance, PTL

-----------------------------------------------------------------------------
(* The counters and the decisions kept.                                    *)

(* Appending one element adds one to the number of positions that hold an  *)
(* element of W exactly when the new element is in W.                      *)
LEMMA CountAppended ==
  ASSUME NEW T, NEW q \in Seq(T), NEW e \in T, NEW W
  PROVE  Cardinality({k \in DOMAIN Append(q, e) : Append(q, e)[k] \in W})
           = Cardinality({k \in DOMAIN q : q[k] \in W})
               + (IF e \in W THEN 1 ELSE 0)
  <1> DEFINE old == {k \in DOMAIN q : q[k] \in W}
             new == {k \in DOMAIN Append(q, e) : Append(q, e)[k] \in W}
             n   == Len(q)
  <1> SUFFICES Cardinality(new) = Cardinality(old) + (IF e \in W THEN 1 ELSE 0)
    OBVIOUS
  <1>1. /\ n \in Nat
        /\ DOMAIN q = 1 .. n
        /\ DOMAIN Append(q, e) = 1 .. n + 1
        /\ \A k \in 1 .. n : Append(q, e)[k] = q[k]
        /\ Append(q, e)[n + 1] = e
    OBVIOUS
  <1>2. IsFiniteSet(old)
    <2>1. IsFiniteSet(1 .. n)
      BY <1>1, FS_Interval
    <2>2. old \in SUBSET (1 .. n)
      BY <1>1
    <2> HIDE DEF old, n
    <2> QED  BY <2>1, <2>2, FS_Subset
  <1>3. n + 1 \notin old
    BY <1>1
  <1>4. CASE e \in W
    <2>1. new = old \cup {n + 1}
      BY <1>1, <1>4
    <2>2. Cardinality(old \cup {n + 1}) = Cardinality(old) + 1
      <3> HIDE DEF old, n
      <3> QED  BY <1>2, <1>3, FS_AddElement
    <2>3. Cardinality(old) \in Nat
      BY <1>2, FS_CardinalityType
    <2> HIDE DEF old, new
    <2> QED  BY <1>4, <2>1, <2>2, <2>3
  <1>5. CASE e \notin W
    <2>1. new = old
      BY <1>1, <1>5
    <2>2. Cardinality(old) \in Nat
      BY <1>2, FS_CardinalityType
    <2> HIDE DEF old, new
    <2> QED  BY <1>5, <2>1, <2>2
  <1> QED  BY <1>4, <1>5

OfSeverity(s) == {d \in DecisionType : d.finding.severity = s}

BlockingOnes == {d \in DecisionType : d.disposition = "blocking"}

(* What Decide does to the two counts CriticalAccounting compares.         *)
LEMMA DecideCounts ==
  ASSUME IInv, AtFinding, CriticalAccounting,
         NEW d \in Dispositions, NEW id \in RecordIds \cup {NoId},
         Decide(d, id)
  PROVE  /\ \A s \in Severities :
              counts'[s] = Cardinality({k \in DOMAIN decisions' :
                                          decisions'[k].finding.severity = s})
         /\ Cardinality({k \in DOMAIN decisions' :
                            decisions'[k].disposition = "blocking"})
              = blockingCritical + (IF d = "blocking" THEN 1 ELSE 0)
  <1> DEFINE entry == [finding |-> CurrentFinding, disposition |-> d, exemptionId |-> id]
  <1>1. /\ decisions \in Seq(DecisionType)
        /\ counts \in [Severities -> Nat]
    BY DEF IInv, TypeOK, DecisionType
  <1>2. decisions' = Append(decisions, entry)
    BY DEF Decide
  <1>3. entry \in DecisionType
    <2>1. /\ input.report.findings \in Seq(Findings)
          /\ Len(decisions) \in Nat
          /\ Len(decisions) < Len(input.report.findings)
      BY <1>1, InputAssumption, LenProperties DEF IInv, AtFinding
    <2>2. Len(decisions) + 1 \in DOMAIN input.report.findings
      BY <2>1
    <2> QED  BY <2>2 DEF DecisionType, CurrentFinding
  <1>4. entry.finding = CurrentFinding /\ entry.disposition = d
    OBVIOUS
  <1> HIDE DEF entry
  <1>5. decisions' \in Seq(DecisionType)
    BY <1>1, <1>2, <1>3
  <1>6. \A q \in Seq(DecisionType) : \A k \in DOMAIN q : q[k] \in DecisionType
    OBVIOUS
  <1>7. ASSUME NEW W
        PROVE  Cardinality({k \in DOMAIN decisions' : decisions'[k] \in W})
                 = Cardinality({k \in DOMAIN decisions : decisions[k] \in W})
                     + (IF entry \in W THEN 1 ELSE 0)
    <2> DEFINE q == Append(decisions, entry)
    <2>1. Cardinality({k \in DOMAIN q : q[k] \in W})
            = Cardinality({k \in DOMAIN decisions : decisions[k] \in W})
                + (IF entry \in W THEN 1 ELSE 0)
      BY <1>1, <1>3, CountAppended
    <2> HIDE DEF q
    <2>2. decisions' = q
      BY <1>2 DEF q
    <2> QED  BY <2>1, <2>2, Zenon
  <1>8. ASSUME NEW s \in Severities
        PROVE  counts'[s] = Cardinality({k \in DOMAIN decisions' :
                                           decisions'[k].finding.severity = s})
    <2>1. \A q \in Seq(DecisionType) :
            {k \in DOMAIN q : q[k].finding.severity = s}
              = {k \in DOMAIN q : q[k] \in OfSeverity(s)}
      BY <1>6 DEF OfSeverity
    <2>2. Cardinality({k \in DOMAIN decisions' : decisions'[k] \in OfSeverity(s)})
            = Cardinality({k \in DOMAIN decisions : decisions[k] \in OfSeverity(s)})
                + (IF entry \in OfSeverity(s) THEN 1 ELSE 0)
      BY <1>7
    <2>3. counts[s] = Cardinality({k \in DOMAIN decisions : decisions[k] \in OfSeverity(s)})
      BY <1>1, <2>1 DEF CriticalAccounting
    <2>4. counts'[s] = counts[s] + (IF CurrentFinding.severity = s THEN 1 ELSE 0)
      <3> DEFINE sev == CurrentFinding.severity
      <3>1. counts' = [counts EXCEPT ![sev] = counts[sev] + 1]
        BY DEF Decide
      <3>2. counts[s] \in Nat /\ DOMAIN counts = Severities
        BY <1>1
      <3> HIDE DEF sev
      <3>3. counts'[s] = counts[s] + (IF sev = s THEN 1 ELSE 0)
        BY <3>1, <3>2
      <3> QED  BY <3>3 DEF sev
    <2>5. entry \in OfSeverity(s) <=> CurrentFinding.severity = s
      BY <1>3, <1>4 DEF OfSeverity
    <2>6. Cardinality({k \in DOMAIN decisions' : decisions'[k] \in OfSeverity(s)})
            = counts'[s]
      BY <2>2, <2>3, <2>4, <2>5
    <2> QED  BY <1>5, <2>1, <2>6
  <1>9. Cardinality({k \in DOMAIN decisions' :
                       decisions'[k].disposition = "blocking"})
          = blockingCritical + (IF d = "blocking" THEN 1 ELSE 0)
    <2>1. \A q \in Seq(DecisionType) :
            {k \in DOMAIN q : q[k].disposition = "blocking"}
              = {k \in DOMAIN q : q[k] \in BlockingOnes}
      BY <1>6 DEF BlockingOnes
    <2>2. Cardinality({k \in DOMAIN decisions' : decisions'[k] \in BlockingOnes})
            = Cardinality({k \in DOMAIN decisions : decisions[k] \in BlockingOnes})
                + (IF entry \in BlockingOnes THEN 1 ELSE 0)
      BY <1>7
    <2>3. blockingCritical
            = Cardinality({k \in DOMAIN decisions : decisions[k] \in BlockingOnes})
      BY <1>1, <2>1 DEF CriticalAccounting
    <2>4. entry \in BlockingOnes <=> d = "blocking"
      BY <1>3, <1>4 DEF BlockingOnes
    <2> QED  BY <1>5, <2>1, <2>2, <2>3, <2>4
  <1> QED  BY <1>8, <1>9

(***************************************************************************)
(* Before any finding is decided the counters are zero, as are the numbers *)
(* of decisions they count.                                                *)
(***************************************************************************)
LEMMA InitAccounting == Init => CriticalAccounting
  <1> SUFFICES ASSUME Init PROVE CriticalAccounting
    OBVIOUS
  <1>1. DOMAIN decisions = {}
    BY DEF Init
  <1>2. \A s \in Severities :
          {k \in DOMAIN decisions : decisions[k].finding.severity = s} = {}
    BY <1>1
  <1>3. {k \in DOMAIN decisions : decisions[k].disposition = "blocking"} = {}
    BY <1>1
  <1>4. /\ "CRITICAL" \in Severities
        /\ "not-affected" \in ExemptionTypes /\ "risk-accepted" \in ExemptionTypes
    BY DEF Severities, ExemptionTypes
  <1>5. /\ blockingCritical = 0
        /\ \A s \in Severities : counts[s] = 0
        /\ \A t \in ExemptionTypes : exempted[t] = 0
    BY DEF Init
  <1>6. \A s \in Severities :
          counts[s] = Cardinality({k \in DOMAIN decisions :
                                     decisions[k].finding.severity = s})
    BY <1>2, <1>5, FS_EmptySet, Zenon
  <1>7. blockingCritical = Cardinality({k \in DOMAIN decisions :
                                          decisions[k].disposition = "blocking"})
    BY <1>3, <1>5, FS_EmptySet, Zenon
  <1>8. blockingCritical + exempted["not-affected"] + exempted["risk-accepted"]
          = counts["CRITICAL"]
    BY <1>4, <1>5
  <1> QED  BY <1>6, <1>7, <1>8 DEF CriticalAccounting

(***************************************************************************)
(* Every step keeps the counters of evaluateFindings in agreement with the *)
(* decisions kept: a critical finding adds to exactly one of them.         *)
(***************************************************************************)
LEMMA NextAccounting == IInv /\ CriticalAccounting /\ [Next]_vars => CriticalAccounting'
  <1> SUFFICES ASSUME IInv, CriticalAccounting, [Next]_vars PROVE CriticalAccounting'
    OBVIOUS
  <1>t. /\ blockingCritical \in Nat
        /\ counts \in [Severities -> Nat]
        /\ exempted \in [ExemptionTypes -> Nat]
        /\ "CRITICAL" \in Severities
        /\ ExemptionTypes = {"not-affected", "risk-accepted"}
        /\ blockingCritical + exempted["not-affected"] + exempted["risk-accepted"]
             = counts["CRITICAL"]
    BY DEF IInv, TypeOK, Severities, ExemptionTypes, CriticalAccounting
  <1>n. NoId \in RecordIds \cup {NoId}
    OBVIOUS
  <1>s. CASE UNCHANGED <<counts, exempted, blockingCritical, decisions>>
    BY <1>s DEF CriticalAccounting
  <1>1. CASE KeepNonCritical
    <2>1. "non-blocking" \in Dispositions
      BY DEF Dispositions
    <2>2. /\ AtFinding /\ Decide("non-blocking", NoId)
          /\ CurrentFinding.severity # "CRITICAL"
          /\ exempted' = exempted /\ blockingCritical' = blockingCritical
      BY <1>1 DEF KeepNonCritical
    <2>3. counts'["CRITICAL"] = counts["CRITICAL"]
      BY <1>t, <2>2 DEF Decide
    <2>4. /\ \A s \in Severities :
               counts'[s] = Cardinality({k \in DOMAIN decisions' :
                                           decisions'[k].finding.severity = s})
          /\ Cardinality({k \in DOMAIN decisions' :
                             decisions'[k].disposition = "blocking"})
               = blockingCritical + (IF "non-blocking" = "blocking" THEN 1 ELSE 0)
      BY <1>n, <2>1, <2>2, DecideCounts, Zenon
    <2>5. blockingCritical + (IF "non-blocking" = "blocking" THEN 1 ELSE 0)
            = blockingCritical'
      BY <1>t, <2>2
    <2>6. blockingCritical' + exempted'["not-affected"] + exempted'["risk-accepted"]
            = counts'["CRITICAL"]
      BY <1>t, <2>2, <2>3
    <2> QED  BY <2>4, <2>5, <2>6, Zenon DEF CriticalAccounting
  <1>2. CASE BlockCritical
    <2>1. "blocking" \in Dispositions
      BY DEF Dispositions
    <2>2. /\ AtFinding /\ Decide("blocking", NoId)
          /\ CurrentFinding.severity = "CRITICAL"
          /\ exempted' = exempted /\ blockingCritical' = blockingCritical + 1
      BY <1>2 DEF BlockCritical
    <2>3. counts'["CRITICAL"] = counts["CRITICAL"] + 1
      BY <1>t, <2>2 DEF Decide
    <2>4. /\ \A s \in Severities :
               counts'[s] = Cardinality({k \in DOMAIN decisions' :
                                           decisions'[k].finding.severity = s})
          /\ Cardinality({k \in DOMAIN decisions' :
                             decisions'[k].disposition = "blocking"})
               = blockingCritical + 1
      BY <1>n, <2>1, <2>2, DecideCounts
    <2>5. blockingCritical' + exempted'["not-affected"] + exempted'["risk-accepted"]
            = counts'["CRITICAL"]
      BY <1>t, <2>2, <2>3
    <2> QED  BY <2>2, <2>4, <2>5 DEF CriticalAccounting
  <1>3. CASE ExemptCritical
    <2>1. PICK record \in MatchingExemption(CurrentFinding, Records) :
            /\ Decide(record.type, record.id)
            /\ exempted' = [exempted EXCEPT ![record.type] = @ + 1]
      BY <1>3 DEF ExemptCritical
    <2>2. /\ AtFinding /\ InputValid(input) /\ input \in Inputs
          /\ CurrentFinding.severity = "CRITICAL"
          /\ blockingCritical' = blockingCritical
      BY <1>3 DEF ExemptCritical, AtFinding, IInv, Accepted, Past
    <2>3. /\ record.id \in RecordIds \cup {NoId}
          /\ record.type \in ExemptionTypes
      BY <2>2, MatchType
    <2>4. record.type \in Dispositions /\ record.type # "blocking"
      BY <2>3, <1>t DEF Dispositions
    <2>5. counts'["CRITICAL"] = counts["CRITICAL"] + 1
      BY <1>t, <2>1, <2>2 DEF Decide
    <2>6. /\ \A s \in Severities :
               counts'[s] = Cardinality({k \in DOMAIN decisions' :
                                           decisions'[k].finding.severity = s})
          /\ Cardinality({k \in DOMAIN decisions' :
                             decisions'[k].disposition = "blocking"})
               = blockingCritical + (IF record.type = "blocking" THEN 1 ELSE 0)
      BY <2>1, <2>2, <2>3, <2>4, DecideCounts, Zenon
    <2>7. exempted'["not-affected"] + exempted'["risk-accepted"]
            = exempted["not-affected"] + exempted["risk-accepted"] + 1
      BY <1>t, <2>1, <2>3
    <2>8. /\ exempted["not-affected"] \in Nat /\ exempted["risk-accepted"] \in Nat
          /\ exempted'["not-affected"] \in Nat /\ exempted'["risk-accepted"] \in Nat
      BY <1>t, <2>1, <2>3
    <2>9. blockingCritical' + exempted'["not-affected"] + exempted'["risk-accepted"]
            = counts'["CRITICAL"]
      BY <1>t, <2>2, <2>5, <2>7, <2>8
    <2>10. blockingCritical + (IF record.type = "blocking" THEN 1 ELSE 0)
             = blockingCritical'
      BY <1>t, <2>2, <2>4
    <2> QED  BY <2>6, <2>9, <2>10, Zenon DEF CriticalAccounting
  <1>4. CASE Validate
    BY <1>4, <1>s DEF Validate
  <1>5. CASE FindingsDecided
    BY <1>5, <1>s DEF FindingsDecided
  <1>6. CASE AttachRecord
    BY <1>6, <1>s DEF AttachRecord
  <1>7. CASE Conclude
    BY <1>7, <1>s DEF Conclude
  <1>8. CASE UNCHANGED vars
    BY <1>8, <1>s DEF vars
  <1> QED  BY <1>1, <1>2, <1>3, <1>4, <1>5, <1>6, <1>7, <1>8 DEF Next

(* At every point of evaluateFindings the CRITICAL findings counted so far *)
(* are partitioned into blocking ones and ones exempted under one type,    *)
(* and the counters agree with the decisions kept.                         *)
THEOREM AccountingHolds == Spec => []CriticalAccounting
  BY InitAccounting, NextAccounting, Invariance, PTL DEF Spec

-----------------------------------------------------------------------------
(* Only a live approval stops a CRITICAL finding from blocking.            *)

(* The record record excuses finding with decision (disposition, id).      *)
Excuses(record, finding, disposition, id) ==
  /\ record.id = id
  /\ record.type = disposition
  /\ record.component = input.component
  /\ Covers(record, finding)
  /\ record.approval.at <= input.now
  /\ input.now < record.expiresAt
  /\ ApprovalWindowValid(record)

Excused(d) ==
  d.finding.severity = "CRITICAL" /\ d.disposition # "blocking" =>
    /\ input.useApprovedExemptions
    /\ \E j \in DOMAIN input.records :
         Excuses(input.records[j], d.finding, d.disposition, d.exemptionId)

(***************************************************************************)
(* UnblockedOnlyByLiveApproval says of each decision alone that it is      *)
(* excused, which lets the step proofs treat one appended decision.        *)
(***************************************************************************)
LEMMA UnblockedIsExcused ==
  UnblockedOnlyByLiveApproval <=> \A k \in DOMAIN decisions : Excused(decisions[k])
  BY DEF UnblockedOnlyByLiveApproval, Excused, Excuses

(* A decision appended for a finding that needs no excuse, or has one,     *)
(* keeps every decision excused.                                           *)
LEMMA AppendExcused ==
  ASSUME IInv, AtFinding, UnblockedOnlyByLiveApproval,
         NEW d \in Dispositions, NEW id \in RecordIds \cup {NoId},
         Decide(d, id),
         Excused([finding |-> CurrentFinding, disposition |-> d, exemptionId |-> id])
  PROVE  UnblockedOnlyByLiveApproval'
  <1> DEFINE entry == [finding |-> CurrentFinding, disposition |-> d, exemptionId |-> id]
  <1>1. /\ decisions' = Append(decisions, entry)
        /\ input' = input
    BY DEF Decide
  <1>2. Excused(entry)
    OBVIOUS
  <1>3. decisions \in Seq(DecisionType)
    BY DEF IInv, TypeOK, DecisionType
  <1> HIDE DEF entry
  <1>4. /\ Len(decisions) \in Nat
        /\ DOMAIN decisions = 1 .. Len(decisions)
        /\ DOMAIN decisions' = 1 .. Len(decisions) + 1
        /\ \A k \in 1 .. Len(decisions) : decisions'[k] = decisions[k]
        /\ decisions'[Len(decisions) + 1] = entry
    BY <1>1, <1>3
  <1>5. \A k \in DOMAIN decisions : Excused(decisions[k])
    BY UnblockedIsExcused
  <1>6. \A k \in DOMAIN decisions' : Excused(decisions'[k])
    <2> SUFFICES ASSUME NEW k \in DOMAIN decisions' PROVE Excused(decisions'[k])
      OBVIOUS
    <2>1. k \in DOMAIN decisions \/ k = Len(decisions) + 1
      BY <1>4
    <2>2. CASE k \in DOMAIN decisions
      <3>1. decisions'[k] = decisions[k]
        BY <1>4, <2>2
      <3>2. Excused(decisions[k])
        BY <1>5, <2>2
      <3> QED  BY <3>1, <3>2
    <2>3. CASE k = Len(decisions) + 1
      BY <1>2, <1>4, <2>3
    <2> QED  BY <2>1, <2>2, <2>3
  <1> QED  BY <1>1, <1>6 DEF UnblockedOnlyByLiveApproval, Excused, Excuses

(***************************************************************************)
(* Every step keeps every unblocked critical finding backed by a live      *)
(* approval; only Decide adds a decision, and it exempts only by a match.  *)
(***************************************************************************)
LEMMA NextUnblocked ==
  IInv /\ UnblockedOnlyByLiveApproval /\ [Next]_vars => UnblockedOnlyByLiveApproval'
  <1> SUFFICES ASSUME IInv, UnblockedOnlyByLiveApproval, [Next]_vars
               PROVE  UnblockedOnlyByLiveApproval'
    OBVIOUS
  <1>n. NoId \in RecordIds \cup {NoId}
    OBVIOUS
  <1>s. CASE UNCHANGED <<input, decisions>>
    BY <1>s DEF UnblockedOnlyByLiveApproval
  <1>1. CASE KeepNonCritical
    <2>1. /\ AtFinding /\ Decide("non-blocking", NoId)
          /\ CurrentFinding.severity # "CRITICAL"
      BY <1>1 DEF KeepNonCritical
    <2>2. Excused([finding |-> CurrentFinding, disposition |-> "non-blocking",
                   exemptionId |-> NoId])
      BY <2>1 DEF Excused
    <2>3. "non-blocking" \in Dispositions
      BY DEF Dispositions
    <2> QED  BY <1>n, <2>1, <2>2, <2>3, AppendExcused
  <1>2. CASE BlockCritical
    <2>1. AtFinding /\ Decide("blocking", NoId)
      BY <1>2 DEF BlockCritical
    <2>2. Excused([finding |-> CurrentFinding, disposition |-> "blocking",
                   exemptionId |-> NoId])
      BY DEF Excused
    <2>3. "blocking" \in Dispositions
      BY DEF Dispositions
    <2> QED  BY <1>n, <2>1, <2>2, <2>3, AppendExcused
  <1>3. CASE ExemptCritical
    <2>1. PICK record \in MatchingExemption(CurrentFinding, Records) :
            Unexpired(record) /\ Decide(record.type, record.id)
      BY <1>3 DEF ExemptCritical
    <2>2. AtFinding /\ InputValid(input) /\ input \in Inputs
      BY <1>3 DEF ExemptCritical, AtFinding, IInv, Accepted, Past
    <2>3. PICK k \in DOMAIN Records :
            record = Records[k] /\ Covers(record, CurrentFinding)
      BY MatchCovers
    <2>4. /\ input.useApprovedExemptions
          /\ k \in DOMAIN input.records
          /\ record = input.records[k]
          /\ ParseExemption(record)
          /\ record.component = input.component
          /\ record.approval.at <= input.now
      BY <2>2, <2>3, RecordsParsed
    <2>5. input.now < record.expiresAt /\ ApprovalWindowValid(record)
      BY <2>1, <2>4 DEF Unexpired, ParseExemption
    <2>6. Excuses(input.records[k], CurrentFinding, record.type, record.id)
      BY <2>3, <2>4, <2>5 DEF Excuses
    <2>7. Excused([finding |-> CurrentFinding, disposition |-> record.type,
                   exemptionId |-> record.id])
      BY <2>4, <2>6 DEF Excused
    <2>8. /\ record.type \in Dispositions
          /\ record.id \in RecordIds \cup {NoId}
      BY <2>2, MatchType DEF Dispositions
    <2> QED  BY <2>1, <2>2, <2>7, <2>8, AppendExcused
  <1>4. CASE Validate
    BY <1>4, <1>s DEF Validate
  <1>5. CASE FindingsDecided
    BY <1>5, <1>s DEF FindingsDecided
  <1>6. CASE AttachRecord
    BY <1>6, <1>s DEF AttachRecord
  <1>7. CASE Conclude
    BY <1>7, <1>s DEF Conclude
  <1>8. CASE UNCHANGED vars
    BY <1>8, <1>s DEF vars
  <1> QED  BY <1>1, <1>2, <1>3, <1>4, <1>5, <1>6, <1>7, <1>8 DEF Next

(* Whatever the report and the records, evaluateFindings takes a CRITICAL  *)
(* finding off the blocking list only through a reviewed record of the     *)
(* component with the finding's exact scope, approved and not expired at   *)
(* the decision time.                                                      *)
THEOREM UnblockingIsApproved == Spec => []UnblockedOnlyByLiveApproval
  <1>1. Init => UnblockedOnlyByLiveApproval
    BY DEF Init, UnblockedOnlyByLiveApproval
  <1> QED  BY <1>1, NextUnblocked, Invariance, PTL DEF Spec
-----------------------------------------------------------------------------
(* What an outcome carries is enough for a later recheck.                  *)

(* An exempted decision names an applied approval, every applied approval  *)
(* is attached by the end, and an outcome that did not fail has no         *)
(* blocking decision.                                                      *)
NamesApplied(d) == d.disposition \in ExemptionTypes => d.exemptionId \in applied

Carried(id) == \E k \in DOMAIN exemptions : exemptions[k] = id

RInv ==
  /\ \A k \in DOMAIN decisions : NamesApplied(decisions[k])
  /\ phase \in {"validate", "evaluate"} => attached = {}
  /\ \A id \in applied \cap attached : Carried(id)
  /\ phase = "done" => attached = RecordIds
  /\ phase = "done" /\ result # "failed" => ~(blockingCritical > 0)

(* A decision appended to ones that name applied approvals.                *)
LEMMA AppendNames ==
  ASSUME IInv, RInv, AtFinding,
         NEW d \in Dispositions, NEW id \in RecordIds \cup {NoId},
         Decide(d, id), applied \subseteq applied',
         d \in ExemptionTypes => id \in applied'
  PROVE  RInv'
  <1> DEFINE entry == [finding |-> CurrentFinding, disposition |-> d, exemptionId |-> id]
  <1>1. /\ decisions' = Append(decisions, entry)
        /\ UNCHANGED <<phase, attached, exemptions, result>>
        /\ phase = "evaluate" /\ attached = {}
    BY DEF Decide, AtFinding, RInv
  <1>2. entry.disposition = d /\ entry.exemptionId = id
    OBVIOUS
  <1>3. decisions \in Seq(DecisionType)
    BY DEF IInv, TypeOK, DecisionType
  <1> HIDE DEF entry
  <1>4. /\ DOMAIN decisions' = DOMAIN decisions \cup {Len(decisions) + 1}
        /\ \A k \in DOMAIN decisions : decisions'[k] = decisions[k]
        /\ decisions'[Len(decisions) + 1] = entry
    BY <1>1, <1>3
  <1>5. \A k \in DOMAIN decisions' :
          decisions'[k].disposition \in ExemptionTypes => decisions'[k].exemptionId \in applied'
    BY <1>2, <1>4 DEF RInv, NamesApplied
  <1> QED  BY <1>1, <1>5 DEF RInv, NamesApplied, Carried

(* Every step of the evaluation keeps it.                                  *)
LEMMA NextCarries == IInv /\ RInv /\ [Next]_vars => RInv'
  <1> SUFFICES ASSUME IInv, RInv, [Next]_vars PROVE RInv'
    OBVIOUS
  <1>i. input' = input /\ RecordIds' = RecordIds
    BY DEF Next, vars, Validate, KeepNonCritical, BlockCritical, ExemptCritical,
      FindingsDecided, AttachRecord, Conclude, Decide, RecordIds, Records
  <1>n. NoId \in RecordIds \cup {NoId} /\ {"non-blocking", "blocking"} \subseteq Dispositions
    BY DEF Dispositions
  <1>1. CASE KeepNonCritical
    BY <1>1, <1>n, AppendNames DEF KeepNonCritical, ExemptionTypes
  <1>2. CASE BlockCritical
    BY <1>2, <1>n, AppendNames DEF BlockCritical, ExemptionTypes
  <1>3. CASE ExemptCritical
    <2>1. PICK record \in MatchingExemption(CurrentFinding, Records) :
            Decide(record.type, record.id) /\ applied' = applied \cup {record.id}
      BY <1>3 DEF ExemptCritical
    <2>2. AtFinding /\ InputValid(input) /\ input \in Inputs
      BY <1>3 DEF ExemptCritical, AtFinding, IInv, Accepted, Past
    <2>3. record.type \in Dispositions /\ record.id \in RecordIds \cup {NoId}
      BY <2>2, MatchType DEF Dispositions
    <2> QED  BY <2>1, <2>2, <2>3, AppendNames
  <1>4. CASE Validate
    BY <1>4 DEF Validate, RInv, NamesApplied, Carried
  <1>5. CASE FindingsDecided
    BY <1>5 DEF FindingsDecided, RInv, NamesApplied, Carried
  <1>6. CASE AttachRecord
    <2>1. PICK id \in RecordIds :
            /\ attached' = attached \cup {id}
            /\ exemptions' = IF id \in applied THEN Append(exemptions, id) ELSE exemptions
            /\ phase = "attach"
            /\ UNCHANGED <<phase, decisions, applied, result, blockingCritical>>
      BY <1>6 DEF AttachRecord
    <2>2. exemptions \in Seq(RecordIds)
      BY DEF IInv, TypeOK
    <2>3. \A other \in applied \cap attached' : Carried(other)'
      <3> SUFFICES ASSUME NEW other \in applied, other \in attached \cup {id}
                   PROVE  \E k \in DOMAIN exemptions' : exemptions'[k] = other
        BY <2>1 DEF Carried
      <3>1. CASE other \in attached
        <4>1. PICK k \in DOMAIN exemptions : exemptions[k] = other
          BY <3>1 DEF RInv, Carried
        <4> QED  BY <2>1, <2>2, <4>1
      <3>2. CASE other = id
        <4>1. exemptions' = Append(exemptions, id)
          BY <2>1, <3>2
        <4>2. /\ Len(exemptions) + 1 \in DOMAIN exemptions'
              /\ exemptions'[Len(exemptions) + 1] = id
          BY <2>2, <4>1
        <4> QED  BY <3>2, <4>2
      <3> QED  BY <3>1, <3>2
    <2> QED  BY <2>1, <2>3 DEF RInv, NamesApplied
  <1>7. CASE Conclude
    BY <1>7, <1>i DEF Conclude, RInv, NamesApplied, Carried
  <1>8. CASE UNCHANGED vars
    BY <1>8, <1>i DEF vars, RInv, NamesApplied, Carried
  <1> QED  BY <1>1, <1>2, <1>3, <1>4, <1>5, <1>6, <1>7, <1>8 DEF Next

(* An ID names one record of an accepted input.                            *)
LEMMA RecordOfAccepted ==
  ASSUME input \in Inputs, InputValid(input), input.useApprovedExemptions,
         NEW j \in DOMAIN input.records
  PROVE  RecordOf(input.records[j].id) = input.records[j]
  <1> DEFINE r == RecordOf(input.records[j].id)
  <1>1. Records = input.records
    BY DEF Records
  <1>2. \E s \in {Records[k] : k \in DOMAIN Records} : s.id = input.records[j].id
    BY <1>1
  <1>3. r \in {Records[k] : k \in DOMAIN Records} /\ r.id = input.records[j].id
    BY <1>2 DEF RecordOf
  <1> HIDE DEF r
  <1>4. PICK k \in DOMAIN input.records : r = input.records[k]
    BY <1>1, <1>3
  <1>5. k = j
    BY <1>3, <1>4 DEF InputValid, ParseExemptions
  <1> QED  BY <1>4, <1>5 DEF r

(* The invariants together say what the property asks of an outcome.       *)
LEMMA CarriedIsEnough ==
  IInv /\ CriticalAccounting /\ UnblockedOnlyByLiveApproval /\ RInv
    => RecheckedApprovalsStillHold
  <1> SUFFICES ASSUME IInv, CriticalAccounting, UnblockedOnlyByLiveApproval, RInv,
                      phase = "done", result # "failed", NEW recheck \in Rechecks,
                      VerifyExemptionSnapshot(UsedRecords, recheck.trusted,
                                              input.component, recheck.now),
                      NEW k \in DOMAIN decisions,
                      decisions[k].finding.severity = "CRITICAL"
               PROVE  \E j \in DOMAIN recheck.trusted :
                        /\ recheck.trusted[j].id = decisions[k].exemptionId
                        /\ Covers(recheck.trusted[j], decisions[k].finding)
                        /\ recheck.trusted[j].approval.at <= recheck.now
                        /\ recheck.now < recheck.trusted[j].expiresAt
    BY DEF RecheckedApprovalsStillHold
  <1>1. decisions[k].disposition # "blocking"
    <2> DEFINE blocking == {n \in DOMAIN decisions : decisions[n].disposition = "blocking"}
    <2>1. IsFiniteSet(blocking)
      <3>1. decisions \in Seq(DecisionType)
        BY DEF IInv, TypeOK, DecisionType
      <3>2. IsFiniteSet(DOMAIN decisions)
        BY <3>1, FS_Interval, LenProperties
      <3> QED  BY <3>2, FS_Subset
    <2>2. Cardinality(blocking) = 0
      BY DEF RInv, CriticalAccounting, IInv, TypeOK
    <2> HIDE DEF blocking
    <2>3. blocking = {}
      BY <2>1, <2>2, FS_EmptySet
    <2> QED  BY <2>3 DEF blocking
  <1>2. Excused(decisions[k])
    BY UnblockedIsExcused
  <1>3. /\ input.useApprovedExemptions
        /\ \E j \in DOMAIN input.records :
             Excuses(input.records[j], decisions[k].finding, decisions[k].disposition,
                     decisions[k].exemptionId)
    BY <1>1, <1>2 DEF Excused
  <1>4. PICK j \in DOMAIN input.records :
          Excuses(input.records[j], decisions[k].finding, decisions[k].disposition,
                  decisions[k].exemptionId)
    BY <1>3
  <1> DEFINE record == input.records[j]
  <1>5. input \in Inputs /\ InputValid(input)
    BY DEF IInv, Accepted, Past
  <1>6. record.id = decisions[k].exemptionId /\ Covers(record, decisions[k].finding)
    BY <1>4 DEF Excuses
  <1>7. decisions[k].disposition \in ExemptionTypes
    BY <1>3, <1>4, <1>5 DEF Excuses, InputValid, ParseExemptions, ParseExemption
  <1>8. record.id \in applied \cap attached
    BY <1>6, <1>7 DEF RInv, NamesApplied, IInv, TypeOK
  <1>9. PICK n \in DOMAIN exemptions : exemptions[n] = record.id
    BY <1>8 DEF RInv, Carried
  <1>10. UsedRecords[n] = record /\ n \in DOMAIN UsedRecords
    BY <1>3, <1>5, <1>9, RecordOfAccepted DEF UsedRecords
  <1> HIDE DEF record
  <1>11. /\ \E i \in DOMAIN recheck.trusted : record = recheck.trusted[i]
         /\ record.approval.at <= recheck.now /\ recheck.now < record.expiresAt
    BY <1>10 DEF VerifyExemptionSnapshot, SameDigest
  <1>12. PICK i \in DOMAIN recheck.trusted : recheck.trusted[i] = record
    BY <1>11
  <1> QED  BY <1>6, <1>11, <1>12

(* For every outcome and every later recheck: the used approvals of an     *)
(* evaluation that passed are all that verifyExemptionSnapshot needs; when *)
(* it accepts them, every CRITICAL finding let pass is still covered by a  *)
(* trusted record in force.                                                *)
THEOREM RecheckHolds == Spec => []RecheckedApprovalsStillHold
  <1>1. Init => RInv
    BY DEF Init, RInv, Carried
  <1> QED  BY <1>1, NextCarries, CarriedIsEnough, Invariance, AccountingHolds,
            UnblockingIsApproved, PTL DEF Spec

-----------------------------------------------------------------------------
(* The order of what is attached.                                          *)

(* Warnings about records with the given IDs, in ID order, none repeated.  *)
SortedWarnings(list, ids) ==
  /\ \A k \in DOMAIN list : list[k].exemptionId \in ids
  /\ \A j, k \in DOMAIN list :
       j < k => list[j].exemptionId <= list[k].exemptionId /\ list[j] # list[k]

(* Only records already handled appear among approvals and warnings, and   *)
(* each of them has a smaller ID than every record still to come.          *)
Ordered ==
  /\ \A k \in DOMAIN exemptions : exemptions[k] \in attached
  /\ \A k \in DOMAIN warnings : warnings[k].exemptionId \in attached
  /\ \A a \in attached, b \in RecordIds \ attached : a < b
  /\ DetailsInIdOrder

(* The warnings of one record name it, and no two of them are equal.       *)
LEMMA WarningsDistinct ==
  ASSUME input \in Inputs, NEW id \in RecordIds
  PROVE  LET new == WarningsFor(RecordOf(id)) IN
         /\ \A k \in DOMAIN new : new[k].exemptionId = id
         /\ \A j, k \in DOMAIN new : j < k => new[j] # new[k]
  <1> DEFINE codes == WarningCodes(RecordOf(id))
             new == WarningsFor(RecordOf(id))
  <1>1. new = [k \in DOMAIN codes |-> [code |-> codes[k], exemptionId |-> id]]
    BY RecordOfId DEF WarningsFor
  <1>2. \A j, k \in DOMAIN codes : j < k => codes[j] # codes[k]
    <2>1. codes \in {<<"exemption-applied">>, <<"exemption-applied", "expires-soon">>,
                     <<"unused-exemption">>, <<"unused-expired-exemption">>,
                     <<"expired-exemption">>, <<>>}
      BY WarningsKnown
    <2> HIDE DEF codes
    <2> QED  BY <2>1
  <1> HIDE DEF codes, new
  <1>3. /\ \A k \in DOMAIN new : new[k].exemptionId = id
        /\ \A j, k \in DOMAIN new : j < k => new[j] # new[k]
    BY <1>1, <1>2
  <1> QED  BY <1>3 DEF new

(* The order survives the concatenation of warnings of a later record.     *)
LEMMA WarningsStaySorted ==
  ASSUME NEW ids \in SUBSET Nat, NEW id \in Nat,
         NEW W, NEW old \in Seq(W), NEW new \in Seq(W),
         \A a \in ids : a < id,
         SortedWarnings(old, ids), SortedWarnings(new, {id})
  PROVE  SortedWarnings(old \o new, ids \cup {id})
  <1> DEFINE all == old \o new
             n == Len(old)
  <1>0. /\ \A k \in DOMAIN old : old[k].exemptionId \in ids
        /\ \A k \in DOMAIN new : new[k].exemptionId = id
        /\ \A j, k \in DOMAIN old :
             j < k => old[j].exemptionId <= old[k].exemptionId /\ old[j] # old[k]
        /\ \A j, k \in DOMAIN new : j < k => new[j] # new[k]
    BY DEF SortedWarnings
  <1>1. /\ n \in Nat /\ Len(new) \in Nat
        /\ DOMAIN old = 1 .. n /\ DOMAIN new = 1 .. Len(new)
        /\ DOMAIN all = 1 .. n + Len(new)
        /\ \A k \in 1 .. n : all[k] = old[k]
        /\ \A k \in n + 1 .. n + Len(new) : all[k] = new[k - n]
    BY ConcatProperties, LenProperties
  <1> HIDE DEF all, n
  <1>2. \A k \in DOMAIN all :
          \/ k \in DOMAIN old /\ all[k] = old[k]
          \/ k > n /\ k - n \in DOMAIN new /\ all[k] = new[k - n]
    BY <1>1
  <1>3. \A k \in DOMAIN all : all[k].exemptionId \in ids \cup {id}
    BY <1>0, <1>2
  <1>4. ASSUME NEW j \in DOMAIN all, NEW k \in DOMAIN all, j < k
        PROVE  all[j].exemptionId <= all[k].exemptionId /\ all[j] # all[k]
    <2>1. CASE k \in DOMAIN old
      BY <1>0, <1>1, <1>4, <2>1
    <2>2. CASE j \in DOMAIN old /\ k \notin DOMAIN old
      <3>1. all[j] = old[j] /\ all[k] = new[k - n] /\ k - n \in DOMAIN new
        BY <1>1, <2>2
      <3>2. old[j].exemptionId \in ids
        BY <1>0, <2>2
      <3>3. new[k - n].exemptionId = id
        BY <1>0, <3>1
      <3>4. old[j].exemptionId \in Nat /\ old[j].exemptionId < id
        BY <3>2
      <3> QED  BY <3>1, <3>3, <3>4
    <2>3. CASE j \notin DOMAIN old /\ k \notin DOMAIN old
      <3>1. /\ all[j] = new[j - n] /\ all[k] = new[k - n]
            /\ j - n \in DOMAIN new /\ k - n \in DOMAIN new /\ j - n < k - n
        BY <1>1, <1>4, <2>3
      <3>2. new[j - n].exemptionId = id /\ new[k - n].exemptionId = id
        BY <1>0, <3>1
      <3>3. new[j - n] # new[k - n]
        BY <1>0, <3>1
      <3> QED  BY <3>1, <3>2, <3>3
    <2> QED  BY <1>1, <1>4, <2>1, <2>2, <2>3
  <1>5. SortedWarnings(all, ids \cup {id})
    BY <1>3, <1>4 DEF SortedWarnings
  <1> QED  BY <1>5 DEF all

(* A step keeps the order: only AttachRecord touches what is ordered, and  *)
(* it takes the smallest ID left.                                          *)
LEMMA NextOrdered == IInv /\ Ordered /\ [Next]_vars => Ordered'
  <1> SUFFICES ASSUME IInv, Ordered, [Next]_vars PROVE Ordered'
    OBVIOUS
  <1>1. RecordIds \subseteq Nat
    BY RecordsType, InputAssumption DEF IInv, RecordIds
  <1>2. CASE UNCHANGED <<input, attached, exemptions, warnings>>
    BY <1>2 DEF Ordered, DetailsInIdOrder, RecordIds, Records
  <1>3. CASE AttachRecord
    <2>1. PICK id \in RecordIds \ attached :
            /\ \A other \in RecordIds \ attached : id <= other
            /\ attached' = attached \cup {id}
            /\ exemptions' = IF id \in applied THEN Append(exemptions, id) ELSE exemptions
            /\ warnings' = warnings \o WarningsFor(RecordOf(id))
      BY <1>3 DEF AttachRecord
    <2>2. RecordIds' = RecordIds
      BY <1>3 DEF AttachRecord, RecordIds, Records
    <2>3. attached \subseteq Nat /\ id \in Nat /\ \A a \in attached : a < id
      BY <1>1 DEF IInv, TypeOK, Ordered
    <2>4. \A a \in attached', b \in RecordIds' \ attached' : a < b
      <3>1. \A b \in RecordIds \ attached' : b \in Nat /\ id < b
        BY <1>1, <2>1, <2>3
      <3> QED  BY <2>1, <2>2, <2>3, <3>1
    <2>5. exemptions \in Seq(RecordIds)
      BY DEF IInv, TypeOK
    <2>6. /\ \A k \in DOMAIN exemptions' : exemptions'[k] \in attached'
          /\ \A j, k \in DOMAIN exemptions' : j < k => exemptions'[j] < exemptions'[k]
      <3>1. CASE id \in applied
        <4>1. /\ Len(exemptions) \in Nat /\ DOMAIN exemptions = 1 .. Len(exemptions)
              /\ DOMAIN exemptions' = 1 .. Len(exemptions) + 1
              /\ \A k \in 1 .. Len(exemptions) : exemptions'[k] = exemptions[k]
              /\ exemptions'[Len(exemptions) + 1] = id
          BY <2>1, <2>5, <3>1, AppendProperties, LenProperties
        <4>2. \A k \in DOMAIN exemptions' :
                \/ k \in DOMAIN exemptions /\ exemptions'[k] = exemptions[k]
                \/ k = Len(exemptions) + 1 /\ exemptions'[k] = id
          BY <4>1
        <4>3. \A k \in DOMAIN exemptions : exemptions[k] \in attached /\ exemptions[k] < id
          BY <2>3 DEF Ordered
        <4>4. \A k \in DOMAIN exemptions' : exemptions'[k] \in attached'
          BY <2>1, <4>2, <4>3
        <4>5. ASSUME NEW j \in DOMAIN exemptions', NEW k \in DOMAIN exemptions', j < k
              PROVE  exemptions'[j] < exemptions'[k]
          <5>1. CASE k \in DOMAIN exemptions
            BY <4>1, <4>5, <5>1 DEF Ordered, DetailsInIdOrder
          <5>2. CASE k = Len(exemptions) + 1
            BY <4>1, <4>2, <4>3, <4>5, <5>2
          <5> QED  BY <4>2, <5>1, <5>2
        <4> QED  BY <4>4, <4>5
      <3>2. CASE id \notin applied
        BY <2>1, <3>2 DEF Ordered, DetailsInIdOrder
      <3> QED  BY <3>1, <3>2
    <2>7. SortedWarnings(warnings', attached')
      <3> DEFINE new == WarningsFor(RecordOf(id))
                 W == [code : WarningNames, exemptionId : RecordIds]
      <3>1. warnings \in Seq(W) /\ new \in Seq(W)
        BY WarningsType DEF IInv, TypeOK
      <3>2. SortedWarnings(new, {id})
        <4>1. /\ \A k \in DOMAIN new : new[k].exemptionId = id
              /\ \A j, k \in DOMAIN new : j < k => new[j] # new[k]
          BY WarningsDistinct DEF IInv
        <4> HIDE DEF new
        <4> QED  BY <2>3, <4>1 DEF SortedWarnings
      <3>3. SortedWarnings(warnings, attached)
        BY DEF Ordered, DetailsInIdOrder, SortedWarnings
      <3>4. warnings' = warnings \o new
        BY <2>1
      <3>5. attached \in SUBSET Nat /\ id \in Nat /\ \A a \in attached : a < id
        BY <2>3
      <3> HIDE DEF new, W
      <3>6. SortedWarnings(warnings \o new, attached \cup {id})
        BY <3>1, <3>2, <3>3, <3>5, WarningsStaySorted
      <3> QED  BY <2>1, <3>4, <3>6
    <2> QED  BY <2>4, <2>6, <2>7 DEF Ordered, DetailsInIdOrder, SortedWarnings
  <1>4. [Next]_vars => AttachRecord \/ UNCHANGED <<input, attached, exemptions, warnings>>
    BY DEF Next, vars, Validate, KeepNonCritical, BlockCritical, ExemptCritical,
      FindingsDecided, Conclude, Decide
  <1> QED  BY <1>2, <1>3, <1>4

(* For every set of records, in whatever order they were read, no approval *)
(* is attached twice, no warning repeated, and both follow the IDs.        *)
THEOREM DetailsAreOrdered == Spec => []DetailsInIdOrder
  <1>1. Init => Ordered
    BY DEF Init, Ordered, DetailsInIdOrder
  <1>2. Ordered => DetailsInIdOrder
    BY DEF Ordered
  <1> QED  BY <1>1, <1>2, NextOrdered, Invariance, PTL DEF Spec
-----------------------------------------------------------------------------
(* The loops implement the one-step policy.                                *)

(* The records the loops consult are the approvals of the policy.          *)
LEMMA ApprovalsAreRecords ==
  Decision!Approvals(input) = {Records[k] : k \in DOMAIN Records}
  BY DEF Decision!Approvals, Records

(* In an accepted input an approval is known by its ID and by its scope.   *)
LEMMA ApprovalsAreDistinct ==
  ASSUME input \in Inputs, InputValid(input),
         NEW r \in Decision!Approvals(input), NEW q \in Decision!Approvals(input)
  PROVE  /\ r.id = q.id => r = q
         /\ Scope(r) = Scope(q) => r = q
  <1>1. PICK j \in DOMAIN Records : r = Records[j]
    BY ApprovalsAreRecords
  <1>2. PICK k \in DOMAIN Records : q = Records[k]
    BY ApprovalsAreRecords
  <1>3. /\ input.useApprovedExemptions
        /\ j \in DOMAIN input.records /\ r = input.records[j]
        /\ k \in DOMAIN input.records /\ q = input.records[k]
    BY <1>1, <1>2, RecordsParsed
  <1> QED  BY <1>3 DEF InputValid, ParseExemptions

(* It is a record of the input, and the one looked up for its ID.          *)
LEMMA ApprovalIsRecord ==
  ASSUME input \in Inputs, InputValid(input), NEW r \in Decision!Approvals(input)
  PROVE  /\ r \in ExemptionRecords
         /\ r.id \in RecordIds
         /\ RecordOf(r.id) = r
         /\ r.type \in ExemptionTypes
  <1>1. PICK j \in DOMAIN Records : r = Records[j]
    BY ApprovalsAreRecords
  <1>2. /\ input.useApprovedExemptions
        /\ j \in DOMAIN input.records /\ r = input.records[j]
        /\ ParseExemption(r)
    BY <1>1, RecordsParsed
  <1> QED  BY <1>1, <1>2, RecordsType, RecordOfAccepted DEF ParseExemption

(* Conversely every ID is that of an approval.                             *)
LEMMA IdOfApproval ==
  ASSUME NEW id \in RecordIds
  PROVE  \E r \in Decision!Approvals(input) : r.id = id
  BY ApprovalsAreRecords DEF RecordIds

(* The map lookup of matchingExemption finds exactly the approval, at most *)
(* one, whose exact scope is the finding's.                                *)
LEMMA MatchIsCover ==
  ASSUME input \in Inputs, InputValid(input), NEW finding,
         NEW record \in Decision!Approvals(input)
  PROVE  record \in MatchingExemption(finding, Records) <=> Covers(record, finding)
  <1>1. ASSUME record \in MatchingExemption(finding, Records)
        PROVE  Covers(record, finding)
    BY <1>1, MatchCovers
  <1>2. ASSUME Covers(record, finding)
        PROVE  record \in MatchingExemption(finding, Records)
    <2> DEFINE hits == {k \in DOMAIN Records :
                 /\ EligiblePurl(finding) # NoPurl
                 /\ Scope(Records[k]) =
                      <<finding.vulnerabilityId, EligiblePurl(finding)>>}
    <2>1. PICK j \in DOMAIN Records : record = Records[j]
      BY ApprovalsAreRecords
    <2>2. record.package.purl # NoPurl
      BY ApprovalIsRecord, InputAssumption
    <2>3. EligiblePurl(finding) = finding.purl /\ finding.purl = record.package.purl
      BY <1>2, <2>2 DEF Covers, EligiblePurl
    <2>4. j \in hits
      BY <1>2, <2>1, <2>2, <2>3 DEF Covers, Scope
    <2>5. \A k \in hits : k = j
      <3> SUFFICES ASSUME NEW k \in hits PROVE k = j
        OBVIOUS
      <3>1. Scope(Records[k]) = Scope(Records[j])
        BY <2>4
      <3>2. /\ input.useApprovedExemptions
            /\ j \in DOMAIN input.records /\ Records[j] = input.records[j]
            /\ k \in DOMAIN input.records /\ Records[k] = input.records[k]
        BY <2>1, RecordsParsed
      <3> QED  BY <3>1, <3>2 DEF InputValid, ParseExemptions
    <2>6. j \in Int
      BY RecordsType DEF Records
    <2>7. /\ \A other \in hits : other <= j
          /\ Records[j].package.name = finding.name
          /\ Records[j].package.version = finding.version
      BY <1>2, <2>1, <2>5, <2>6 DEF Covers
    <2> QED  BY <2>1, <2>4, <2>7 DEF MatchingExemption
  <1> QED  BY <1>1, <1>2

(* No finding is covered by two approvals.                                 *)
LEMMA CoverIsUnique ==
  ASSUME input \in Inputs, InputValid(input), NEW finding,
         NEW r \in Decision!Approvals(input), NEW q \in Decision!Approvals(input),
         Covers(r, finding), Covers(q, finding)
  PROVE  r = q
  BY ApprovalsAreDistinct DEF Covers, Scope

(* The decisions taken so far are those of the policy, position by         *)
(* position.                                                               *)
BlocksAt(in, k, disposition) == disposition = "blocking" <=> k \in Decision!Blocking(in)

ExemptsAt(in, k, disposition) ==
  \A t \in ExemptionTypes :
    disposition = t <=>
      \E r \in Decision!Used(in) : r.type = t /\ k \in Decision!Matched(in, r)

DecisionsAgree ==
  \A k \in DOMAIN decisions :
    /\ BlocksAt(input, k, decisions[k].disposition)
    /\ ExemptsAt(input, k, decisions[k].disposition)

(* The two sets of IDs hold the approvals met so far, live or not.         *)
Met(in, r, n) == \E k \in 1 .. n : k \in Decision!Matched(in, r)

MatchesAgree ==
  \A r \in Decision!Approvals(input) :
    /\ r.id \in criticalMatch <=> Met(input, r, Len(decisions))
    /\ r.id \in applied <=> r \in Decision!Alive(input) /\ Met(input, r, Len(decisions))

OfDisposition(t) == {d \in DecisionType : d.disposition = t}

ExemptedAgree ==
  \A t \in ExemptionTypes :
    exempted[t] = Cardinality({k \in DOMAIN decisions : decisions[k].disposition = t})

LoopAgrees ==
  /\ DecisionsAgree /\ MatchesAgree /\ ExemptedAgree
  /\ phase = "attach" => Len(decisions) = Len(input.report.findings)

(* The current finding is the one after those decided.                     *)
LEMMA CurrentPosition ==
  ASSUME IInv, AtFinding
  PROVE  /\ Len(decisions) \in Nat
         /\ DOMAIN decisions = 1 .. Len(decisions)
         /\ Len(decisions) + 1 \in DOMAIN input.report.findings
         /\ CurrentFinding = input.report.findings[Len(decisions) + 1]
  <1>1. /\ decisions \in Seq(DecisionType)
        /\ input.report.findings \in Seq(Findings)
    BY InputAssumption DEF IInv, TypeOK, DecisionType
  <1>2. /\ Len(decisions) \in Nat
        /\ DOMAIN decisions = 1 .. Len(decisions)
        /\ Len(decisions) < Len(input.report.findings)
        /\ Len(input.report.findings) \in Nat
        /\ DOMAIN input.report.findings = 1 .. Len(input.report.findings)
    BY <1>1, LenProperties DEF AtFinding
  <1> QED  BY <1>2 DEF CurrentFinding

(* An approval matches the current finding in the policy exactly when the  *)
(* finding is CRITICAL and the loop's lookup returns the approval.         *)
LEMMA MatchedHere ==
  ASSUME IInv, AtFinding, NEW r \in Decision!Approvals(input)
  PROVE  Len(decisions) + 1 \in Decision!Matched(input, r) <=>
           /\ CurrentFinding.severity = "CRITICAL"
           /\ r \in MatchingExemption(CurrentFinding, Records)
  <1>1. input \in Inputs /\ InputValid(input)
    BY DEF IInv, Accepted, AtFinding, Past
  <1>2. r \in MatchingExemption(CurrentFinding, Records) <=> Covers(r, CurrentFinding)
    BY <1>1, MatchIsCover
  <1> QED  BY <1>2, CurrentPosition DEF Decision!Matched, Decision!Criticals

(* What the policy decides of the current finding: nothing unless it is    *)
(* CRITICAL, then what the approval found, if any, is worth now.           *)
LEMMA PolicyHere ==
  ASSUME IInv, AtFinding
  PROVE  LET k == Len(decisions) + 1
             found == MatchingExemption(CurrentFinding, Records) IN
         /\ CurrentFinding.severity # "CRITICAL" =>
              BlocksAt(input, k, "non-blocking") /\ ExemptsAt(input, k, "non-blocking")
         /\ CurrentFinding.severity = "CRITICAL" /\ (\A r \in found : ~Unexpired(r)) =>
              BlocksAt(input, k, "blocking") /\ ExemptsAt(input, k, "blocking")
         /\ CurrentFinding.severity = "CRITICAL" =>
              \A r \in found : Unexpired(r) =>
                BlocksAt(input, k, r.type) /\ ExemptsAt(input, k, r.type)
  <1> DEFINE k == Len(decisions) + 1
             found == MatchingExemption(CurrentFinding, Records)
  <1>1. input \in Inputs /\ InputValid(input)
    BY DEF IInv, Accepted, AtFinding, Past
  <1>2. \A r \in Decision!Approvals(input) :
          k \in Decision!Matched(input, r) <=>
            CurrentFinding.severity = "CRITICAL" /\ r \in found
    BY MatchedHere
  <1>3. k \in Decision!Criticals(input) <=> CurrentFinding.severity = "CRITICAL"
    BY CurrentPosition DEF Decision!Criticals
  <1>4. found \subseteq Decision!Approvals(input)
    BY MatchCovers, ApprovalsAreRecords
  <1>5. \A r \in Decision!Approvals(input) : r \in Decision!Alive(input) <=> Unexpired(r)
    BY DEF Decision!Alive, Unexpired
  <1>6. \A r \in found, q \in found : r = q
    BY <1>1, <1>4, MatchIsCover, CoverIsUnique
  <1>7. \A r \in found : r.type \in ExemptionTypes
    BY <1>1, <1>4, ApprovalIsRecord
  <1> HIDE DEF k, found
  <1>8. k \in Decision!Blocking(input) <=>
          CurrentFinding.severity = "CRITICAL" /\ \A r \in found : ~Unexpired(r)
    <2>1. Decision!Alive(input) \subseteq Decision!Approvals(input)
      BY DEF Decision!Alive
    <2> QED  BY <1>2, <1>3, <1>4, <1>5, <2>1 DEF Decision!Blocking
  <1>9. \A t : (\E r \in Decision!Used(input) : r.type = t /\ k \in Decision!Matched(input, r))
                 <=> /\ CurrentFinding.severity = "CRITICAL"
                     /\ \E r \in found : Unexpired(r) /\ r.type = t
    <2>1. \A r : r \in Decision!Used(input) /\ k \in Decision!Matched(input, r)
                   <=> r \in Decision!Alive(input) /\ k \in Decision!Matched(input, r)
      BY DEF Decision!Used
    <2>2. Decision!Alive(input) \subseteq Decision!Approvals(input)
      BY DEF Decision!Alive
    <2> QED  BY <1>2, <1>4, <1>5, <2>1, <2>2
  <1>10. "blocking" \notin ExemptionTypes /\ "non-blocking" \notin ExemptionTypes
    BY DEF ExemptionTypes
  <1>11. ASSUME CurrentFinding.severity # "CRITICAL"
         PROVE  BlocksAt(input, k, "non-blocking") /\ ExemptsAt(input, k, "non-blocking")
    BY <1>8, <1>9, <1>10, <1>11 DEF BlocksAt, ExemptsAt
  <1>12. ASSUME CurrentFinding.severity = "CRITICAL", \A r \in found : ~Unexpired(r)
         PROVE  BlocksAt(input, k, "blocking") /\ ExemptsAt(input, k, "blocking")
    BY <1>8, <1>9, <1>10, <1>12 DEF BlocksAt, ExemptsAt
  <1>13. ASSUME CurrentFinding.severity = "CRITICAL", NEW r \in found, Unexpired(r)
         PROVE  BlocksAt(input, k, r.type) /\ ExemptsAt(input, k, r.type)
    BY <1>6, <1>7, <1>8, <1>9, <1>10, <1>13 DEF BlocksAt, ExemptsAt
  <1> QED  BY <1>11, <1>12, <1>13 DEF k, found

(* A decision the policy takes too is appended to ones it takes.           *)
LEMMA AppendAgrees ==
  ASSUME IInv, AtFinding, DecisionsAgree, NEW d, NEW id, Decide(d, id),
         BlocksAt(input, Len(decisions) + 1, d), ExemptsAt(input, Len(decisions) + 1, d)
  PROVE  DecisionsAgree'
  <1> DEFINE entry == [finding |-> CurrentFinding, disposition |-> d, exemptionId |-> id]
  <1>1. decisions' = Append(decisions, entry) /\ input' = input
    BY DEF Decide
  <1>2. entry.disposition = d
    OBVIOUS
  <1>3. decisions \in Seq(DecisionType)
    BY DEF IInv, TypeOK, DecisionType
  <1> HIDE DEF entry
  <1>4. /\ DOMAIN decisions' = DOMAIN decisions \cup {Len(decisions) + 1}
        /\ \A k \in DOMAIN decisions : decisions'[k] = decisions[k]
        /\ decisions'[Len(decisions) + 1] = entry
    BY <1>1, <1>3
  <1> QED  BY <1>1, <1>2, <1>4 DEF DecisionsAgree

(* An approval met one finding later was met before, or by that finding.   *)
LEMMA MetLater ==
  ASSUME NEW n \in Nat, NEW r
  PROVE  Met(input, r, n + 1) <=> Met(input, r, n) \/ n + 1 \in Decision!Matched(input, r)
  <1>1. 1 .. n + 1 = (1 .. n) \cup {n + 1}
    OBVIOUS
  <1> QED  BY <1>1 DEF Met

(* The counters of exempted findings count the decisions.                  *)
LEMMA AppendExempted ==
  ASSUME IInv, AtFinding, ExemptedAgree,
         NEW d \in Dispositions, NEW id \in RecordIds \cup {NoId}, Decide(d, id),
         \A t \in ExemptionTypes : exempted'[t] = exempted[t] + (IF d = t THEN 1 ELSE 0)
  PROVE  ExemptedAgree'
  <1> DEFINE entry == [finding |-> CurrentFinding, disposition |-> d, exemptionId |-> id]
             q == Append(decisions, entry)
  <1>1. decisions \in Seq(DecisionType)
    BY DEF IInv, TypeOK, DecisionType
  <1>2. decisions' = q
    BY DEF Decide
  <1>3. entry \in DecisionType /\ entry.disposition = d
    BY CurrentPosition DEF DecisionType
  <1> HIDE DEF entry
  <1>4. q \in Seq(DecisionType)
    BY <1>1, <1>3
  <1>5. \A l \in Seq(DecisionType) : \A k \in DOMAIN l : l[k] \in DecisionType
    OBVIOUS
  <1> SUFFICES ASSUME NEW t \in ExemptionTypes
               PROVE  exempted'[t]
                        = Cardinality({k \in DOMAIN decisions' : decisions'[k].disposition = t})
    BY DEF ExemptedAgree
  <1>6. \A l \in Seq(DecisionType) :
          {k \in DOMAIN l : l[k].disposition = t} = {k \in DOMAIN l : l[k] \in OfDisposition(t)}
    BY <1>5 DEF OfDisposition
  <1>7. Cardinality({k \in DOMAIN q : q[k] \in OfDisposition(t)})
          = Cardinality({k \in DOMAIN decisions : decisions[k] \in OfDisposition(t)})
              + (IF entry \in OfDisposition(t) THEN 1 ELSE 0)
    BY <1>1, <1>3, CountAppended
  <1> HIDE DEF q
  <1>8. entry \in OfDisposition(t) <=> d = t
    BY <1>3 DEF OfDisposition
  <1>9. exempted[t]
          = Cardinality({k \in DOMAIN decisions : decisions[k] \in OfDisposition(t)})
    BY <1>1, <1>6 DEF ExemptedAgree
  <1>10. exempted'[t] = Cardinality({k \in DOMAIN q : q[k] \in OfDisposition(t)})
    BY <1>7, <1>8, <1>9
  <1>11. exempted'[t] = Cardinality({k \in DOMAIN q : q[k].disposition = t})
    BY <1>4, <1>6, <1>10
  <1> QED  BY <1>2, <1>11

(* Each step of the loop keeps the agreement with the policy.              *)
LEMMA NextLoop == IInv /\ LoopAgrees /\ [Next]_vars => LoopAgrees'
  <1> SUFFICES ASSUME IInv, LoopAgrees, [Next]_vars PROVE LoopAgrees'
    OBVIOUS
  <1> DEFINE n == Len(decisions)
             found == MatchingExemption(CurrentFinding, Records)
  <1>0. /\ DecisionsAgree /\ MatchesAgree /\ ExemptedAgree
        /\ exempted \in [ExemptionTypes -> Nat]
    BY DEF LoopAgrees, IInv, TypeOK
  <1>s. CASE UNCHANGED <<input, exempted, decisions, applied, criticalMatch>> /\ phase' # "attach"
    BY <1>s DEF LoopAgrees, DecisionsAgree, MatchesAgree, ExemptedAgree
  <1>a. CASE UNCHANGED <<input, exempted, decisions, applied, criticalMatch, phase>>
    BY <1>a DEF LoopAgrees, DecisionsAgree, MatchesAgree, ExemptedAgree
  <1>f. ASSUME AtFinding, NEW d, NEW id, Decide(d, id)
        PROVE  /\ phase' # "attach" /\ input' = input /\ Len(decisions') = n + 1 /\ n \in Nat
               /\ input \in Inputs /\ InputValid(input)
               /\ \A r \in Decision!Approvals(input) :
                    Met(input, r, n + 1) <=>
                      \/ Met(input, r, n)
                      \/ CurrentFinding.severity = "CRITICAL" /\ r \in found
    <2>1. decisions \in Seq(DecisionType) /\ n \in Nat
      BY DEF IInv, TypeOK, DecisionType
    <2>2. Len(decisions') = n + 1
      <3> DEFINE entry == [finding |-> CurrentFinding, disposition |-> d, exemptionId |-> id]
      <3>1. decisions' = Append(decisions, entry)
        BY <1>f DEF Decide
      <3> HIDE DEF entry
      <3> QED  BY <2>1, <3>1
    <2> QED  BY <1>f, <2>1, <2>2, MetLater, MatchedHere
         DEF Decide, AtFinding, IInv, Accepted, Past
  <1>n. NoId \in RecordIds \cup {NoId} /\ {"non-blocking", "blocking"} \subseteq Dispositions
    BY DEF Dispositions
  <1> HIDE DEF n
  <1>1. CASE KeepNonCritical
    <2>1. /\ AtFinding /\ Decide("non-blocking", NoId)
          /\ CurrentFinding.severity # "CRITICAL"
          /\ UNCHANGED <<exempted, applied, criticalMatch>>
      BY <1>1 DEF KeepNonCritical
    <2>2. DecisionsAgree'
      BY <1>0, <2>1, PolicyHere, AppendAgrees
    <2>3. ExemptedAgree'
      <3>1. \A t \in ExemptionTypes :
              exempted'[t] = exempted[t] + (IF "non-blocking" = t THEN 1 ELSE 0)
        BY <1>0, <2>1 DEF ExemptionTypes
      <3> QED  BY <1>0, <1>n, <2>1, <3>1, AppendExempted
    <2>4. MatchesAgree'
      BY <1>0, <1>f, <2>1 DEF MatchesAgree, n
    <2> QED  BY <1>f, <2>1, <2>2, <2>3, <2>4 DEF LoopAgrees
  <1>2. CASE BlockCritical
    <2>1. /\ AtFinding /\ Decide("blocking", NoId)
          /\ CurrentFinding.severity = "CRITICAL"
          /\ \A r \in found : ~Unexpired(r)
          /\ criticalMatch' = criticalMatch \cup {r.id : r \in found}
          /\ UNCHANGED <<exempted, applied>>
      BY <1>2 DEF BlockCritical
    <2>2. DecisionsAgree'
      BY <1>0, <2>1, PolicyHere, AppendAgrees
    <2>3. ExemptedAgree'
      <3>1. \A t \in ExemptionTypes :
              exempted'[t] = exempted[t] + (IF "blocking" = t THEN 1 ELSE 0)
        BY <1>0, <2>1 DEF ExemptionTypes
      <3> QED  BY <1>0, <1>n, <2>1, <3>1, AppendExempted
    <2>4. MatchesAgree'
      <3>1. found \subseteq Decision!Approvals(input)
        BY MatchCovers, ApprovalsAreRecords
      <3>2. \A r \in Decision!Approvals(input) :
              r.id \in {q.id : q \in found} <=> r \in found
        BY <1>f, <2>1, <3>1, ApprovalsAreDistinct
      <3>3. \A r \in Decision!Approvals(input) : r \in Decision!Alive(input) <=> Unexpired(r)
        BY DEF Decision!Alive, Unexpired
      <3> HIDE DEF found
      <3> QED  BY <1>0, <1>f, <2>1, <3>2, <3>3 DEF MatchesAgree, n
    <2> QED  BY <1>f, <2>1, <2>2, <2>3, <2>4 DEF LoopAgrees
  <1>3. CASE ExemptCritical
    <2>1. AtFinding /\ CurrentFinding.severity = "CRITICAL"
      BY <1>3 DEF ExemptCritical
    <2>2. PICK record \in found :
            /\ Unexpired(record)
            /\ Decide(record.type, record.id)
            /\ criticalMatch' = criticalMatch \cup {record.id}
            /\ applied' = applied \cup {record.id}
            /\ exempted' = [exempted EXCEPT ![record.type] = @ + 1]
      BY <1>3 DEF ExemptCritical
    <2>3. found \subseteq Decision!Approvals(input) /\ \A r \in found : r = record
      <3>1. found \subseteq Decision!Approvals(input)
        BY MatchCovers, ApprovalsAreRecords
      <3> QED  BY <1>f, <2>1, <2>2, <3>1, MatchIsCover, CoverIsUnique
    <2>4. record.type \in ExemptionTypes /\ record.id \in RecordIds
      BY <1>f, <2>1, <2>2, <2>3, ApprovalIsRecord
    <2>5. DecisionsAgree'
      BY <1>0, <2>1, <2>2, PolicyHere, AppendAgrees
    <2>6. ExemptedAgree'
      <3>1. \A t \in ExemptionTypes :
              exempted'[t] = exempted[t] + (IF record.type = t THEN 1 ELSE 0)
        BY <1>0, <2>2, <2>4
      <3>2. record.type \in Dispositions /\ record.id \in RecordIds \cup {NoId}
        BY <2>4 DEF Dispositions
      <3> QED  BY <1>0, <2>1, <2>2, <3>1, <3>2, AppendExempted
    <2>7. MatchesAgree'
      <3>1. \A r \in Decision!Approvals(input) : r.id = record.id <=> r \in found
        BY <1>f, <2>1, <2>2, <2>3, ApprovalsAreDistinct
      <3>2. \A r \in Decision!Approvals(input) : r \in Decision!Alive(input) <=> Unexpired(r)
        BY DEF Decision!Alive, Unexpired
      <3> HIDE DEF found
      <3> QED  BY <1>0, <1>f, <2>1, <2>2, <2>3, <3>1, <3>2 DEF MatchesAgree, n
    <2> QED  BY <1>f, <2>1, <2>2, <2>5, <2>6, <2>7 DEF LoopAgrees
  <1>4. CASE Validate
    BY <1>4, <1>s DEF Validate
  <1>5. CASE FindingsDecided
    <2>1. UNCHANGED <<input, exempted, decisions, applied, criticalMatch>>
      BY <1>5 DEF FindingsDecided
    <2>2. Len(decisions) = Len(input.report.findings)
      BY <1>5 DEF FindingsDecided
    <2> QED  BY <2>1, <2>2 DEF LoopAgrees, DecisionsAgree, MatchesAgree, ExemptedAgree
  <1>6. CASE AttachRecord
    BY <1>6, <1>a DEF AttachRecord
  <1>7. CASE Conclude
    BY <1>7, <1>s DEF Conclude
  <1>8. CASE UNCHANGED vars
    BY <1>8, <1>a DEF vars
  <1> QED  BY <1>1, <1>2, <1>3, <1>4, <1>5, <1>6, <1>7, <1>8 DEF Next

-----------------------------------------------------------------------------
(* What is attached.                                                       *)

Occurs(e, list) == \E k \in DOMAIN list : list[k] = e

(* What occurs in a concatenation.                                         *)
LEMMA OccursInConcat ==
  ASSUME NEW T, NEW s \in Seq(T), NEW t \in Seq(T), NEW e
  PROVE  Occurs(e, s \o t) <=> Occurs(e, s) \/ Occurs(e, t)
  <1> DEFINE n == Len(s)
             all == s \o t
  <1>1. /\ n \in Nat /\ Len(t) \in Nat
        /\ DOMAIN s = 1 .. n /\ DOMAIN t = 1 .. Len(t)
        /\ DOMAIN all = 1 .. n + Len(t)
        /\ \A k \in 1 .. n : all[k] = s[k]
        /\ \A k \in n + 1 .. n + Len(t) : all[k] = t[k - n]
    BY ConcatProperties, LenProperties
  <1> HIDE DEF n, all
  <1>2. ASSUME NEW k \in DOMAIN t PROVE k + n \in DOMAIN all /\ all[k + n] = t[k]
    <2>1. k + n \in n + 1 .. n + Len(t) /\ (k + n) - n = k
      BY <1>1
    <2> QED  BY <1>1, <2>1
  <1>3. ASSUME NEW k \in DOMAIN s PROVE k \in DOMAIN all /\ all[k] = s[k]
    BY <1>1
  <1>4. ASSUME NEW k \in DOMAIN all
        PROVE  \/ k \in DOMAIN s /\ all[k] = s[k]
               \/ k - n \in DOMAIN t /\ all[k] = t[k - n]
    BY <1>1
  <1>5. Occurs(e, all) <=> Occurs(e, s) \/ Occurs(e, t)
    BY <1>2, <1>3, <1>4 DEF Occurs
  <1> QED  BY <1>5 DEF all

(* Approvals and warnings in the outcome are those of the records handled. *)
ListsAgree ==
  /\ \A id \in RecordIds : Occurs(id, exemptions) <=> id \in applied /\ id \in attached
  /\ \A r \in Decision!Approvals(input) : \A c \in WarningNames :
       Occurs([code |-> c, exemptionId |-> r.id], warnings) <=>
         r.id \in attached /\ c \in Decision!Codes(input, r)

(* Once all findings are decided, the two sets of IDs tell used approvals, *)
(* matched ones and unused ones apart as the policy does.                  *)
LEMMA AllMet ==
  ASSUME IInv, LoopAgrees, Len(decisions) = Len(input.report.findings),
         NEW r \in Decision!Approvals(input)
  PROVE  /\ r.id \in criticalMatch <=> Decision!Matched(input, r) # {}
         /\ r.id \in applied <=> r \in Decision!Used(input)
  <1>1. Decision!Matched(input, r) \subseteq 1 .. Len(decisions)
    <2>1. input.report.findings \in Seq(Findings)
      BY InputAssumption DEF IInv
    <2> QED  BY <2>1, LenProperties DEF Decision!Matched, Decision!Criticals
  <1>2. Met(input, r, Len(decisions)) <=> Decision!Matched(input, r) # {}
    BY <1>1 DEF Met
  <1> QED  BY <1>2 DEF LoopAgrees, MatchesAgree, Decision!Used

(* An approval earns the warnings the policy asks for.                     *)
LEMMA CodesAgree ==
  ASSUME IInv, LoopAgrees, phase = "attach", NEW r \in Decision!Approvals(input), NEW c
  PROVE  Occurs(c, WarningCodes(r)) <=> c \in Decision!Codes(input, r)
  <1> DEFINE left == r.expiresAt - input.now
  <1>1. input \in Inputs /\ InputValid(input)
    BY DEF IInv, Accepted, Past
  <1>2. left \in Int /\ SoonWindow \in Nat
    BY <1>1, ApprovalIsRecord, InputAssumption
  <1>3. /\ r.id \in criticalMatch <=> Decision!Matched(input, r) # {}
        /\ r.id \in applied <=> r \in Decision!Used(input)
    BY AllMet DEF LoopAgrees
  <1>4. r \in Decision!Used(input) <=> left > 0 /\ Decision!Matched(input, r) # {}
    BY <1>1, ApprovalIsRecord, InputAssumption DEF Decision!Used, Decision!Alive
  <1> DEFINE used == r \in Decision!Used(input)
             matched == Decision!Matched(input, r) # {}
  <1>5. c \in Decision!Codes(input, r) <=>
          \/ c = "exemption-applied" /\ used
          \/ c = "expires-soon" /\ used /\ left <= SoonWindow
          \/ c = "unused-exemption" /\ ~matched /\ left > 0
          \/ c = "unused-expired-exemption" /\ ~matched /\ left <= 0
          \/ c = "expired-exemption" /\ matched /\ left <= 0
    BY DEF Decision!Codes
  <1>6. \A e : /\ Occurs(c, <<>>) <=> FALSE
               /\ Occurs(c, <<e>>) <=> c = e
               /\ \A f : Occurs(c, <<e, f>>) <=> c = e \/ c = f
    BY DEF Occurs
  <1> HIDE DEF left, used, matched
  <1>7. left > SoonWindow \/ left <= SoonWindow
    BY <1>2
  <1>8. left > 0 \/ left <= 0
    BY <1>2
  <1>9. ~(left > 0 /\ left <= 0) /\ ~(left > SoonWindow /\ left <= SoonWindow)
    BY <1>2
  <1>10. used <=> left > 0 /\ matched
    BY <1>4 DEF used, matched
  <1>11. /\ r.id \in criticalMatch <=> matched
         /\ r.id \in applied <=> used
    BY <1>3 DEF used, matched
  <1>12. WarningCodes(r) =
           CASE used /\ left > SoonWindow -> <<"exemption-applied">>
             [] used /\ left <= SoonWindow -> <<"exemption-applied", "expires-soon">>
             [] ~used /\ ~matched /\ left > 0 -> <<"unused-exemption">>
             [] ~used /\ ~matched /\ left <= 0 -> <<"unused-expired-exemption">>
             [] ~used /\ matched /\ left <= 0 -> <<"expired-exemption">>
             [] ~used /\ matched /\ left > 0 -> <<>>
    BY <1>11, Zenon DEF WarningCodes, left
  <1>13. CASE used
    <2>1. WarningCodes(r) = IF left > SoonWindow THEN <<"exemption-applied">>
                            ELSE <<"exemption-applied", "expires-soon">>
      BY <1>7, <1>9, <1>12, <1>13
    <2> QED  BY <1>5, <1>6, <1>7, <1>9, <1>10, <1>13, <2>1
  <1>14. CASE ~used /\ ~matched
    <2>1. WarningCodes(r) = IF left > 0 THEN <<"unused-exemption">>
                            ELSE <<"unused-expired-exemption">>
      BY <1>8, <1>9, <1>12, <1>14
    <2> QED  BY <1>5, <1>6, <1>8, <1>9, <1>14, <2>1
  <1>15. CASE ~used /\ matched
    <2>1. left <= 0
      BY <1>8, <1>10, <1>15
    <2>2. WarningCodes(r) = <<"expired-exemption">>
      BY <1>9, <1>12, <1>15, <2>1
    <2> QED  BY <1>5, <1>6, <1>15, <2>1, <2>2
  <1> QED  BY <1>13, <1>14, <1>15

(* AttachRecord adds what the policy holds of one more approval.           *)
LEMMA AttachAgrees ==
  ASSUME IInv, LoopAgrees, ListsAgree, AttachRecord
  PROVE  ListsAgree'
  <1>1. PICK id \in RecordIds \ attached :
          /\ attached' = attached \cup {id}
          /\ exemptions' = IF id \in applied THEN Append(exemptions, id) ELSE exemptions
          /\ warnings' = warnings \o WarningsFor(RecordOf(id))
    BY DEF AttachRecord
  <1>2. /\ input' = input /\ applied' = applied /\ RecordIds' = RecordIds
        /\ phase = "attach" /\ input \in Inputs /\ InputValid(input)
    BY DEF AttachRecord, IInv, Accepted, Past, RecordIds, Records
  <1>3. PICK r \in Decision!Approvals(input) : r.id = id
    BY <1>1, IdOfApproval
  <1>4. RecordOf(id) = r
    BY <1>2, <1>3, ApprovalIsRecord
  <1>5. ASSUME NEW e \in RecordIds
        PROVE  Occurs(e, exemptions') <=> e \in applied /\ e \in attached'
    <2>1. exemptions \in Seq(RecordIds)
      BY DEF IInv, TypeOK
    <2>2. CASE id \in applied
      <3>1. exemptions' = exemptions \o <<id>>
        BY <1>1, <2>1, <2>2, AppendIsConcat
      <3>2. <<id>> \in Seq(RecordIds)
        BY <1>1
      <3>3. Occurs(e, exemptions') <=> Occurs(e, exemptions) \/ Occurs(e, <<id>>)
        BY <2>1, <3>1, <3>2, OccursInConcat
      <3>4. Occurs(e, <<id>>) <=> e = id
        BY DEF Occurs
      <3> QED  BY <1>1, <2>2, <3>3, <3>4 DEF ListsAgree
    <2>3. CASE id \notin applied
      BY <1>1, <2>3 DEF ListsAgree
    <2> QED  BY <2>2, <2>3
  <1>6. ASSUME NEW q \in Decision!Approvals(input), NEW c \in WarningNames
        PROVE  Occurs([code |-> c, exemptionId |-> q.id], warnings') <=>
                 q.id \in attached' /\ c \in Decision!Codes(input, q)
    <2> DEFINE w == [code |-> c, exemptionId |-> q.id]
               new == WarningsFor(r)
               W == [code : WarningNames, exemptionId : RecordIds]
    <2>1. warnings \in Seq(W) /\ new \in Seq(W)
      BY <1>1, <1>2, <1>4, WarningsType DEF IInv, TypeOK
    <2>2. Occurs(w, new) <=> q.id = id /\ Occurs(c, WarningCodes(r))
      BY <1>3 DEF Occurs, WarningsFor
    <2>3. Occurs(c, WarningCodes(r)) <=> c \in Decision!Codes(input, r)
      BY <1>2, CodesAgree
    <2>4. q.id = id => q = r
      BY <1>2, <1>3, ApprovalsAreDistinct
    <2>5. Occurs(w, warnings) <=> q.id \in attached /\ c \in Decision!Codes(input, q)
      BY DEF ListsAgree
    <2> HIDE DEF w, new, W
    <2>6. Occurs(w, warnings \o new) <=> Occurs(w, warnings) \/ Occurs(w, new)
      BY <2>1, OccursInConcat
    <2>7. warnings' = warnings \o new
      BY <1>1, <1>4 DEF new
    <2>8. Occurs(w, warnings') <=> q.id \in attached' /\ c \in Decision!Codes(input, q)
      BY <1>1, <1>3, <2>2, <2>3, <2>4, <2>5, <2>6, <2>7
    <2> QED  BY <2>8 DEF w
  <1> QED  BY <1>2, <1>5, <1>6 DEF ListsAgree

(* So does, trivially, every other step.                                   *)
LEMMA NextLists == IInv /\ RInv /\ LoopAgrees /\ ListsAgree /\ [Next]_vars => ListsAgree'
  <1> SUFFICES ASSUME IInv, RInv, LoopAgrees, ListsAgree, [Next]_vars PROVE ListsAgree'
    OBVIOUS
  <1>1. CASE AttachRecord
    BY <1>1, AttachAgrees
  <1>2. CASE UNCHANGED <<input, attached, exemptions, warnings>> /\ attached = {}
    BY <1>2 DEF ListsAgree, RecordIds, Records
  <1>3. CASE UNCHANGED <<input, applied, attached, exemptions, warnings>>
    BY <1>3 DEF ListsAgree, RecordIds, Records
  <1>4. CASE KeepNonCritical \/ BlockCritical \/ ExemptCritical
    BY <1>2, <1>4 DEF KeepNonCritical, BlockCritical, ExemptCritical, AtFinding, Decide, RInv
  <1>5. CASE Validate \/ FindingsDecided \/ Conclude \/ UNCHANGED vars
    BY <1>3, <1>5 DEF Validate, FindingsDecided, Conclude, vars
  <1> QED  BY <1>1, <1>4, <1>5 DEF Next

-----------------------------------------------------------------------------
(* The verdict.                                                            *)

(* No result is decided before the end.                                    *)
ResultOpen == phase \in {"validate", "evaluate", "attach"} => result = "passed"

(* A sequence without repetition is as long as its elements are many.      *)
LEMMA DistinctCount ==
  ASSUME NEW n \in Nat, NEW q, DOMAIN q = 1 .. n,
         \A j, k \in 1 .. n : j < k => q[j] # q[k]
  PROVE  Cardinality({q[k] : k \in DOMAIN q}) = n
  <1> DEFINE S == {q[k] : k \in DOMAIN q}
             f == [k \in 1 .. n |-> q[k]]
  <1>1. f \in [1 .. n -> S] /\ \A k \in 1 .. n : f[k] = q[k]
    OBVIOUS
  <1>2. \A s \in S : \E k \in 1 .. n : f[k] = s
    OBVIOUS
  <1>3. \A j, k \in 1 .. n : j = k \/ j < k \/ k < j
    OBVIOUS
  <1>4. \A j, k \in 1 .. n : f[j] = f[k] => j = k
    BY <1>1, <1>3
  <1> HIDE DEF f, S
  <1>5. f \in Bijection(1 .. n, S)
    BY <1>1, <1>2, <1>4 DEF Bijection, Injection, Surjection, IsInjective
  <1>6. ExistsBijection(1 .. n, S)
    BY <1>5 DEF ExistsBijection
  <1>7. Cardinality(S) = n
    BY <1>6, FS_CountingElements
  <1> QED  BY <1>7 DEF S

(* Once all findings are decided the counters are the policy's.            *)
LEMMA CountersDecided ==
  ASSUME IInv, CriticalAccounting, LoopAgrees, phase = "attach"
  PROVE  /\ counts = [s \in Severities |->
                        Cardinality({k \in DOMAIN input.report.findings :
                                       input.report.findings[k].severity = s})]
         /\ blockingCritical = Cardinality(Decision!Blocking(input))
         /\ exempted = [t \in ExemptionTypes |->
              Cardinality(UNION {Decision!Matched(input, r) :
                            r \in {u \in Decision!Used(input) : u.type = t}})]
  <1>1. /\ DOMAIN decisions = DOMAIN input.report.findings
        /\ \A k \in DOMAIN decisions : decisions[k].finding = input.report.findings[k]
    <2>1. decisions \in Seq(DecisionType) /\ input.report.findings \in Seq(Findings)
      BY InputAssumption DEF IInv, TypeOK, DecisionType
    <2>2. Len(decisions) = Len(input.report.findings)
      BY DEF LoopAgrees
    <2> QED  BY <2>1, <2>2, LenProperties DEF IInv, TypeOK
  <1>2. counts = [s \in Severities |->
                    Cardinality({k \in DOMAIN input.report.findings :
                                   input.report.findings[k].severity = s})]
    <2>1. \A s : {k \in DOMAIN decisions : decisions[k].finding.severity = s}
                   = {k \in DOMAIN input.report.findings :
                        input.report.findings[k].severity = s}
      BY <1>1
    <2>2. \A s \in Severities :
            counts[s] = Cardinality({k \in DOMAIN input.report.findings :
                                       input.report.findings[k].severity = s})
      BY <2>1 DEF CriticalAccounting
    <2> QED  BY <2>2 DEF IInv, TypeOK
  <1>3. blockingCritical = Cardinality(Decision!Blocking(input))
    <2>1. Decision!Blocking(input) \subseteq DOMAIN decisions
      BY <1>1 DEF Decision!Blocking, Decision!Criticals
    <2>2. \A k \in DOMAIN decisions :
            decisions[k].disposition = "blocking" <=> k \in Decision!Blocking(input)
      BY DEF LoopAgrees, DecisionsAgree, BlocksAt
    <2>3. Decision!Blocking(input)
            = {k \in DOMAIN decisions : decisions[k].disposition = "blocking"}
      BY <2>1, <2>2
    <2> QED  BY <2>3 DEF CriticalAccounting
  <1>4. ASSUME NEW t \in ExemptionTypes
        PROVE  exempted[t]
                 = Cardinality(UNION {Decision!Matched(input, r) :
                                 r \in {u \in Decision!Used(input) : u.type = t}})
    <2> DEFINE U == UNION {Decision!Matched(input, r) :
                             r \in {u \in Decision!Used(input) : u.type = t}}
    <2>1. \A r : Decision!Matched(input, r) \subseteq DOMAIN decisions
      BY <1>1 DEF Decision!Matched, Decision!Criticals
    <2>2. \A k \in DOMAIN decisions :
            decisions[k].disposition = t <=>
              \E r \in Decision!Used(input) : r.type = t /\ k \in Decision!Matched(input, r)
      BY DEF LoopAgrees, DecisionsAgree, ExemptsAt
    <2>3. \A k : k \in U <=>
            \E r \in Decision!Used(input) : r.type = t /\ k \in Decision!Matched(input, r)
      OBVIOUS
    <2> HIDE DEF U
    <2>4. U = {k \in DOMAIN decisions : decisions[k].disposition = t}
      BY <2>1, <2>2, <2>3
    <2>5. exempted[t] = Cardinality(U)
      BY <2>4 DEF LoopAgrees, ExemptedAgree
    <2> QED  BY <2>5 DEF U
  <1>5. exempted = [t \in ExemptionTypes |-> exempted[t]]
    BY DEF IInv, TypeOK
  <1>6. exempted = [t \in ExemptionTypes |->
              Cardinality(UNION {Decision!Matched(input, r) :
                            r \in {u \in Decision!Used(input) : u.type = t}})]
    BY <1>4, <1>5, Zenon
  <1> QED  BY <1>2, <1>3, <1>6

(* Once all records are handled the snapshots attached are those of the    *)
(* approvals used, each once.                                              *)
LEMMA UsedAttached ==
  ASSUME IInv, Ordered, LoopAgrees, ListsAgree, phase = "attach", attached = RecordIds
  PROVE  /\ {exemptions[k] : k \in DOMAIN exemptions} = {r.id : r \in Decision!Used(input)}
         /\ Len(exemptions) = Cardinality(Decision!Used(input))
  <1> DEFINE n == Len(exemptions)
             rec == [k \in 1 .. n |-> RecordOf(exemptions[k])]
  <1>1. /\ exemptions \in Seq(RecordIds)
        /\ input \in Inputs /\ InputValid(input)
    BY DEF IInv, TypeOK, Accepted, Past
  <1>2. /\ n \in Nat /\ DOMAIN exemptions = 1 .. n
        /\ \A k \in 1 .. n : exemptions[k] \in RecordIds
    BY <1>1, LenProperties
  <1>3. \A id \in RecordIds : Occurs(id, exemptions) <=> id \in applied
    BY DEF ListsAgree
  <1>4. \A r \in Decision!Approvals(input) : r.id \in applied <=> r \in Decision!Used(input)
    BY AllMet DEF LoopAgrees
  <1>5. Decision!Used(input) \subseteq Decision!Approvals(input)
    BY DEF Decision!Used, Decision!Alive
  <1>6. \A r \in Decision!Approvals(input) : r.id \in RecordIds /\ RecordOf(r.id) = r
    BY <1>1, ApprovalIsRecord
  <1> HIDE DEF n, rec
  <1>7. ASSUME NEW k \in 1 .. n
        PROVE  RecordOf(exemptions[k]) \in Decision!Used(input)
               /\ RecordOf(exemptions[k]).id = exemptions[k]
    <2>1. PICK r \in Decision!Approvals(input) : r.id = exemptions[k]
      BY <1>2, IdOfApproval
    <2>2. exemptions[k] \in applied
      BY <1>2, <1>3 DEF Occurs
    <2> QED  BY <1>4, <1>6, <2>1, <2>2
  <1>8. ASSUME NEW r \in Decision!Used(input)
        PROVE  \E k \in 1 .. n : exemptions[k] = r.id /\ RecordOf(exemptions[k]) = r
    BY <1>2, <1>3, <1>4, <1>5, <1>6 DEF Occurs
  <1>9. {exemptions[k] : k \in DOMAIN exemptions} = {r.id : r \in Decision!Used(input)}
    <2>1. \A k \in DOMAIN exemptions : \E r \in Decision!Used(input) : exemptions[k] = r.id
      BY <1>2, <1>7
    <2>2. \A r \in Decision!Used(input) : \E k \in DOMAIN exemptions : r.id = exemptions[k]
      BY <1>2, <1>8
    <2> QED  BY <2>1, <2>2
  <1>10. DOMAIN rec = 1 .. n /\ \A k \in 1 .. n : rec[k] = RecordOf(exemptions[k])
    BY DEF rec
  <1>11. {rec[k] : k \in DOMAIN rec} = Decision!Used(input)
    <2>1. \A k \in DOMAIN rec : rec[k] \in Decision!Used(input)
      BY <1>7, <1>10
    <2>2. \A r \in Decision!Used(input) : \E k \in DOMAIN rec : rec[k] = r
      BY <1>8, <1>10
    <2> QED  BY <2>1, <2>2
  <1>12. \A j, k \in 1 .. n : j < k => rec[j] # rec[k]
    <2>1. \A j, k \in 1 .. n : j < k => exemptions[j] < exemptions[k]
      BY <1>2 DEF Ordered, DetailsInIdOrder
    <2>2. \A j \in 1 .. n : exemptions[j] \in Int
      BY <1>1, <1>2, <1>7, <1>5, ApprovalIsRecord, InputAssumption
    <2>3. \A j, k \in 1 .. n : j < k => exemptions[j] # exemptions[k]
      BY <2>1, <2>2
    <2> QED  BY <1>7, <1>10, <2>3
  <1>13. Cardinality(Decision!Used(input)) = n
    BY <1>2, <1>10, <1>11, <1>12, DistinctCount
  <1> QED  BY <1>9, <1>13 DEF n

(* And the warnings are those the policy asks for, each once.              *)
LEMMA WarnedAttached ==
  ASSUME IInv, Ordered, LoopAgrees, ListsAgree, phase = "attach", attached = RecordIds
  PROVE  /\ {warnings[k] : k \in DOMAIN warnings} = Decision!Warned(input)
         /\ Len(warnings) = Cardinality(Decision!Warned(input))
  <1> DEFINE W == [code : WarningNames, exemptionId : RecordIds]
             n == Len(warnings)
  <1>1. /\ warnings \in Seq(W)
        /\ input \in Inputs /\ InputValid(input)
    BY DEF IInv, TypeOK, Accepted, Past
  <1>2. n \in Nat /\ DOMAIN warnings = 1 .. n /\ \A k \in 1 .. n : warnings[k] \in W
    BY <1>1, LenProperties
  <1>3. \A r \in Decision!Approvals(input) : \A c \in WarningNames :
          Occurs([code |-> c, exemptionId |-> r.id], warnings) <=> c \in Decision!Codes(input, r)
    <2>1. \A r \in Decision!Approvals(input) : r.id \in RecordIds
      BY <1>1, ApprovalIsRecord
    <2>2. \A r \in Decision!Approvals(input) : \A c \in WarningNames :
            Occurs([code |-> c, exemptionId |-> r.id], warnings) <=>
              r.id \in attached /\ c \in Decision!Codes(input, r)
      BY Zenon DEF ListsAgree
    <2> QED  BY <2>1, <2>2, Zenon
  <1>4. \A r : Decision!Codes(input, r) \subseteq WarningNames
    BY DEF Decision!Codes, WarningNames
  <1>5. \A w : w \in Decision!Warned(input) <=>
          \E r \in Decision!Approvals(input) : \E c \in Decision!Codes(input, r) :
            w = [code |-> c, exemptionId |-> r.id]
    BY DEF Decision!Warned
  <1>6. ASSUME NEW k \in DOMAIN warnings PROVE warnings[k] \in Decision!Warned(input)
    <2>1. warnings[k] \in W
      BY <1>2
    <2>2. PICK c \in WarningNames, id \in RecordIds :
            warnings[k] = [code |-> c, exemptionId |-> id]
      BY <2>1
    <2>3. PICK r \in Decision!Approvals(input) : r.id = id
      BY IdOfApproval
    <2>4. Occurs([code |-> c, exemptionId |-> r.id], warnings)
      BY <2>2, <2>3 DEF Occurs
    <2> QED  BY <1>3, <1>5, <2>2, <2>3, <2>4
  <1>7. ASSUME NEW w \in Decision!Warned(input) PROVE \E k \in DOMAIN warnings : warnings[k] = w
    <2>1. PICK r \in Decision!Approvals(input) :
            \E c \in Decision!Codes(input, r) : w = [code |-> c, exemptionId |-> r.id]
      BY <1>5
    <2>2. Occurs(w, warnings)
      BY <1>3, <1>4, <2>1
    <2> QED  BY <2>2 DEF Occurs
  <1>8. {warnings[k] : k \in DOMAIN warnings} = Decision!Warned(input)
    BY <1>6, <1>7
  <1>9. \A j, k \in 1 .. n : j < k => warnings[j] # warnings[k]
    BY <1>2 DEF Ordered, DetailsInIdOrder
  <1>10. Cardinality({warnings[k] : k \in DOMAIN warnings}) = n
    BY <1>2, <1>9, DistinctCount
  <1> QED  BY <1>8, <1>10 DEF n

(* Concluding gives the verdict of the policy, or refuses the outcome that *)
(* would be too long.                                                      *)
LEMMA ConcludeDecides ==
  ASSUME IInv, CriticalAccounting, Ordered, LoopAgrees, ListsAgree, ResultOpen, Conclude
  PROVE  Decision!Decide
  <1>1. /\ phase = "attach" /\ attached = RecordIds /\ result = "passed"
        /\ UNCHANGED <<input, counts, exempted, blockingCritical, exemptions, warnings>>
    BY DEF Conclude, ResultOpen
  <1>2. Acceptable(input)
    BY <1>1 DEF IInv, Accepted, Past, Acceptable
  <1>3. verdictMapping = Decision!Pending
    BY <1>1 DEF verdictMapping, Decision!Pending
  <1>4. result' = Decision!Outcome(input)
    <2>1. blockingCritical > 0 <=> Decision!Blocking(input) # {}
      <3>1. Decision!Blocking(input) \subseteq DOMAIN input.report.findings
        BY DEF Decision!Blocking, Decision!Criticals
      <3>2. IsFiniteSet(DOMAIN input.report.findings)
        <4>1. input.report.findings \in Seq(Findings)
          BY InputAssumption DEF IInv
        <4>2. /\ Len(input.report.findings) \in Nat
              /\ DOMAIN input.report.findings = 1 .. Len(input.report.findings)
          BY <4>1, LenProperties
        <4> QED  BY <4>2, FS_Interval
      <3>3. IsFiniteSet(Decision!Blocking(input))
        BY <3>1, <3>2, FS_Subset
      <3>4. Cardinality(Decision!Blocking(input)) = 0 <=> Decision!Blocking(input) = {}
        BY <3>3, FS_EmptySet
      <3>5. blockingCritical = Cardinality(Decision!Blocking(input))
        BY <1>1, CountersDecided
      <3>6. blockingCritical \in Nat
        BY DEF IInv, TypeOK
      <3> QED  BY <3>4, <3>5, <3>6
    <2>2. applied # {} <=> Decision!Used(input) # {}
      <3>1. \A r \in Decision!Approvals(input) : r.id \in applied <=> r \in Decision!Used(input)
        BY <1>1, AllMet DEF LoopAgrees
      <3>2. applied \subseteq RecordIds
        BY DEF IInv, TypeOK
      <3>3. Decision!Used(input) \subseteq Decision!Approvals(input)
        BY DEF Decision!Used, Decision!Alive
      <3>4. \A id \in RecordIds : \E r \in Decision!Approvals(input) : r.id = id
        BY IdOfApproval
      <3> QED  BY <3>1, <3>2, <3>3, <3>4
    <2>3. Decision!Blocking(input) = {} =>
            (Decision!Criticals(input) # {} <=> Decision!Used(input) # {})
      <3>1. \A r : Decision!Matched(input, r) \subseteq Decision!Criticals(input)
        BY DEF Decision!Matched
      <3> QED  BY <3>1 DEF Decision!Blocking, Decision!Used
    <2>4. result' = IF blockingCritical > 0 THEN "failed"
                    ELSE IF applied # {} THEN "passed-with-exemptions" ELSE "passed"
      BY <1>1 DEF Conclude
    <2> QED  BY <2>1, <2>2, <2>3, <2>4 DEF Decision!Outcome
  <1>c. \A S : Decision!Cardinality(S) = Cardinality(S)
    BY DEF Decision!Cardinality, Cardinality
  <1>5. Decision!WithinBound(input) <=>
          Len(decisions) + Len(exemptions) + Len(warnings) <= MaxEvaluationItems
    <2>1. Len(decisions) = Len(input.report.findings)
      BY <1>1 DEF LoopAgrees
    <2>2. /\ Len(exemptions) = Cardinality(Decision!Used(input))
          /\ Len(warnings) = Cardinality(Decision!Warned(input))
      BY <1>1, UsedAttached, WarnedAttached
    <2>3. Decision!WithinBound(input) <=>
            Len(input.report.findings) + Cardinality(Decision!Used(input))
              + Cardinality(Decision!Warned(input)) <= MaxEvaluationItems
      BY <1>c DEF Decision!WithinBound
    <2> QED  BY <2>1, <2>2, <2>3
  <1>6. CASE Decision!WithinBound(input)
    <2>1. phase' = "done"
      BY <1>5, <1>6 DEF Conclude
    <2>2. verdictMapping' =
            [status   |-> "decided",
             result   |-> result',
             counts   |-> counts,
             blocking |-> blockingCritical,
             exempted |-> exempted,
             used     |-> {exemptions[k] : k \in DOMAIN exemptions},
             warned   |-> {warnings[k] : k \in DOMAIN warnings}]
      BY <1>1, <2>1 DEF verdictMapping
    <2>3. verdictMapping' = Decision!Verdict(input)
      BY <1>1, <1>4, <2>2, <1>c, CountersDecided, UsedAttached, WarnedAttached, Zenon
         DEF Decision!Verdict
    <2> QED  BY <1>1, <1>2, <1>3, <1>6, <2>3 DEF Decision!Decide
  <1>7. CASE ~Decision!WithinBound(input)
    <2>1. phase' = "refused"
      BY <1>5, <1>7 DEF Conclude
    <2>2. verdictMapping' = Decision!Refused
      BY <2>1 DEF verdictMapping, Decision!Refused
    <2> QED  BY <1>1, <1>3, <1>7, <2>2 DEF Decision!Decide
  <1> QED  BY <1>6, <1>7

(* An unacceptable input is refused at once; every other step before the   *)
(* end leaves the verdict open.                                            *)
LEMMA StepDecides ==
  IInv /\ CriticalAccounting /\ Ordered /\ LoopAgrees /\ ListsAgree /\ ResultOpen /\ [Next]_vars
    => [Decision!Decide]_<<input, verdictMapping>>
  <1> SUFFICES ASSUME IInv, CriticalAccounting, Ordered, LoopAgrees, ListsAgree, ResultOpen,
                      [Next]_vars
               PROVE  Decision!Decide \/ UNCHANGED <<input, verdictMapping>>
    OBVIOUS
  <1>1. CASE Validate
    <2>1. /\ phase = "validate" /\ input' = input
          /\ phase' = IF Acceptable(input) THEN "evaluate" ELSE "refused"
      BY <1>1 DEF Validate, Acceptable
    <2>2. verdictMapping = Decision!Pending
      BY <2>1 DEF verdictMapping, Decision!Pending
    <2>3. CASE Acceptable(input)
      BY <2>1, <2>2, <2>3 DEF verdictMapping, Decision!Pending
    <2>4. CASE ~Acceptable(input)
      <3>1. verdictMapping' = Decision!Refused
        BY <2>1, <2>4 DEF verdictMapping, Decision!Refused
      <3> QED  BY <2>1, <2>2, <2>4, <3>1 DEF Decision!Decide
    <2> QED  BY <2>3, <2>4
  <1>2. CASE Conclude
    BY <1>2, ConcludeDecides
  <1>3. CASE input' = input /\ {phase, phase'} \subseteq {"evaluate", "attach"}
    BY <1>3 DEF verdictMapping
  <1>4. CASE KeepNonCritical \/ BlockCritical \/ ExemptCritical
    BY <1>3, <1>4 DEF KeepNonCritical, BlockCritical, ExemptCritical, AtFinding, Decide
  <1>5. CASE FindingsDecided \/ AttachRecord
    BY <1>3, <1>5 DEF FindingsDecided, AttachRecord
  <1>6. CASE UNCHANGED vars
    BY <1>6 DEF vars, verdictMapping
  <1> QED  BY <1>1, <1>2, <1>4, <1>5, <1>6 DEF Next

(* Nothing is agreed or decided yet when the evaluation starts.            *)
LEMMA InitDecides ==
  Init => LoopAgrees /\ ListsAgree /\ ResultOpen /\ Ordered /\ RInv
            /\ verdictMapping = Decision!Pending
  <1> SUFFICES ASSUME Init
               PROVE  LoopAgrees /\ ListsAgree /\ ResultOpen /\ Ordered /\ RInv
                        /\ verdictMapping = Decision!Pending
    OBVIOUS
  <1>1. /\ phase = "validate" /\ decisions = <<>> /\ Len(decisions) = 0
        /\ DOMAIN decisions = {} /\ 1 .. 0 = {}
        /\ applied = {} /\ criticalMatch = {} /\ attached = {}
        /\ \A t \in ExemptionTypes : exempted[t] = 0
        /\ DOMAIN exemptions = {} /\ DOMAIN warnings = {}
        /\ result = "passed"
    BY DEF Init
  <1>2. \A t : {k \in DOMAIN decisions : decisions[k].disposition = t} = {}
    BY <1>1
  <1>3. ExemptedAgree
    BY <1>1, <1>2, FS_EmptySet DEF ExemptedAgree
  <1>4. DecisionsAgree /\ MatchesAgree
    BY <1>1 DEF DecisionsAgree, MatchesAgree, Met
  <1>5. ListsAgree
    BY <1>1 DEF ListsAgree, Occurs
  <1>6. Ordered /\ RInv
    BY <1>1 DEF Ordered, RInv, DetailsInIdOrder
  <1>7. verdictMapping = Decision!Pending
    BY <1>1 DEF verdictMapping, Decision!Pending
  <1> QED  BY <1>1, <1>3, <1>4, <1>5, <1>6, <1>7 DEF LoopAgrees, ResultOpen

LEMMA NextResult == ResultOpen /\ [Next]_vars => ResultOpen'
  BY DEF ResultOpen, Next, vars, Validate, KeepNonCritical, BlockCritical, ExemptCritical,
         FindingsDecided, AttachRecord, Conclude, AtFinding, Decide

(* The evaluator implements the policy: whatever the order of the findings *)
(* and the records, a run of its loops decides in one visible step, either *)
(* to refuse or for exactly the verdict that the findings and the          *)
(* approvals determine (evaluateVulnerabilities, evaluateFindings and      *)
(* attachExemptionDetails).                                                *)
THEOREM DecisionIsImplemented == Spec => ImplementsDecision
  <1>1. Init => Decision!Init
    BY InitDecides DEF Decision!Init
  <1> QED  BY <1>1, InitDecides, StepDecides, NextResult, NextLoop, NextLists, NextOrdered,
              NextCarries, Invariance, AccountingHolds, PTL
           DEF Spec, ImplementsDecision, Decision!Spec
=============================================================================
