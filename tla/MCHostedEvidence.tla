---------------------------- MODULE MCHostedEvidence ----------------------------
(* Two CRITICAL findings and two policy revisions: an approval that        *)
(* expires while the run works, then a second approval that main gains.    *)
EXTENDS HostedEvidence

MCCriticals == {"f1", "f2"}
Approval(finding, from, to) == [finding |-> finding, approvedAt |-> from, expiresAt |-> to]
MCPolicies == <<{Approval("f1", 0, 2)}, {Approval("f1", 0, 2), Approval("f2", 1, 3)}>>

(* Members may change until the decision is enforced, or at any time.      *)
UntilGate == StepNames \ {"recheck", "document", "attest", "upload", "diagnose", "done"}
AnyTime == StepNames
=============================================================================
