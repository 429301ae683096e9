--------------------------- MODULE ExemptionPolicy ---------------------------
(***************************************************************************)
(* Validation of reviewed exemption records: the operators of              *)
(* exemption-policy.mts and the package URL rule of policy-values.mts.     *)
(* A record is a TLA+ record with the fields the policy relates to each    *)
(* other; free text, references and URL syntax are left out.  Time is      *)
(* measured in abstract units, so the 30 and 90 day lifetimes are          *)
(* constants.                                                              *)
(***************************************************************************)
EXTENDS Integers, FiniteSets

CONSTANTS
  RiskAcceptedLifetime,   \* longest approval of a risk acceptance (30 days)
  NotAffectedLifetime,    \* longest approval of a not-affected finding (90 days)
  MaxRecords              \* records accepted for one component (128)

ASSUME LifetimeAssumption ==
  /\ RiskAcceptedLifetime \in Nat \ {0}
  /\ NotAffectedLifetime \in Nat \ {0}
  /\ MaxRecords \in Nat

ExemptionTypes == {"not-affected", "risk-accepted"}

(* A package URL is valid for a package only if it names the installed     *)
(* version and no architecture other than the supported ones.              *)
PurlIdentifies(purl, version) ==
  /\ purl.version = version
  /\ purl.supportedArch

(* validateVexStatement: the status the exemption type must declare.       *)
VexStatus(type) == IF type = "not-affected" THEN "not_affected" ELSE "affected"

(* The approval window: created, then approved, then expiring within the   *)
(* lifetime of the exemption type.                                         *)
ApprovalWindowValid(record) ==
  /\ record.createdAt <= record.approval.at
  /\ record.approval.at < record.expiresAt
  /\ record.expiresAt - record.approval.at <=
       (IF record.type = "risk-accepted" THEN RiskAcceptedLifetime
                                         ELSE NotAffectedLifetime)

(* The embedded VEX document repeats the identity, the approver, the       *)
(* approval time, the component and the package of the record around it.   *)
VexAgrees(record) ==
  /\ record.vex.id = record.id
  /\ record.vex.author = record.approval.by
  /\ record.vex.timestamp = record.approval.at
  /\ record.vex.product = record.component
  /\ record.vex.subcomponent = record.package.purl
  /\ record.vex.status = VexStatus(record.type)

ParseExemption(record) ==
  /\ record.type \in ExemptionTypes
  /\ PurlIdentifies(record.package.purl, record.package.version)
  /\ ApprovalWindowValid(record)
  /\ VexAgrees(record)

(* The identity a finding is looked up by: the CVE of the VEX statement    *)
(* and the package URL of the record.                                      *)
Scope(record) == <<record.vex.vulnerability, record.package.purl>>

(* A family of records (the array the code validates, or any function) is  *)
(* accepted only when every record belongs to the component and no two     *)
(* records share an ID or a scope.                                         *)
ParseExemptions(records, component) ==
  /\ Cardinality(DOMAIN records) <= MaxRecords
  /\ \A k \in DOMAIN records :
       /\ ParseExemption(records[k])
       /\ records[k].component = component
  /\ \A j, k \in DOMAIN records :
       j # k => /\ records[j].id # records[k].id
                /\ Scope(records[j]) # Scope(records[k])

(* The digest covers the whole record in canonical order: a used record    *)
(* and a trusted one have the same digest when they are the same record.   *)
SameDigest(record, other) == record = other

(* Mutant: a trusted record of the same ID will do.                        *)
VerifyById(used, trusted, component, now) ==
  /\ ParseExemptions(trusted, component)
  /\ ParseExemptions(used, component)
  /\ \A k \in DOMAIN used :
       /\ \E j \in DOMAIN trusted : trusted[j].id = used[k].id
       /\ used[k].approval.at <= now /\ now < used[k].expiresAt

(* The recheck of used approvals against a separately trusted snapshot and *)
(* the current clock.                                                      *)
VerifyExemptionSnapshot(used, trusted, component, now) ==
  /\ ParseExemptions(trusted, component)
  /\ ParseExemptions(used, component)
  /\ \A k \in DOMAIN used :
       /\ \E j \in DOMAIN trusted :
            trusted[j].id = used[k].id /\ SameDigest(used[k], trusted[j])
       /\ used[k].approval.at <= now /\ now < used[k].expiresAt
=============================================================================
