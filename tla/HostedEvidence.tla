---------------------------- MODULE HostedEvidence ----------------------------
(***************************************************************************)
(* One run attempt of the composite action action.yml (CompositeRun) with  *)
(* evidence version v1alpha3: isolated scans and the v3 writer             *)
(* generateV3Evidence between provenance and attestation, while the        *)
(* policy's main moves and the wall clock runs or is set back.             *)
(***************************************************************************)
EXTENDS CompositeRun

CONSTANTS
  Criticals,        \* identities of CRITICAL findings
  Policies,         \* policy revisions in main order: the approvals of each
  MaxTime,          \* bound on the wall clock
  MaxAdjustments    \* how often the wall clock may be set back

ASSUME EvidenceAssumption ==
  /\ DOMAIN Policies \subseteq Nat
  /\ \A r \in DOMAIN Policies :
       Policies[r] \subseteq [finding : Criticals, approvedAt : Nat, expiresAt : Nat]
  /\ MaxTime \in Nat \ {0}      \* the run starts in second 1
  /\ MaxAdjustments \in Nat

VARIABLES
  wall,         \* the runner's wall clock, in seconds
  adjustments,  \* how often it was set back
  policyMain,   \* the policy revision main points to
  captured,     \* bytes captured by captureEvidenceMembers, by member
  checked,      \* members requireUnchangedMembers has compared
  policy,       \* the acquired snapshot: its revision and when it was complete
  decision      \* the ApprovedDecision

world == <<wall, adjustments, policyMain>>
writer == <<captured, checked, policy, decision>>
vars == <<world, writer, runVars>>

(* Order in which members are captured and compared again.                 *)
Rank == [provenance |-> 1, sbom |-> 2, report |-> 3]

None == [none |-> TRUE]

Report(findings) == [bytes |-> findings, version |-> 1]

(* What a member file may hold: an original or another document; a report  *)
(* is told apart by its CRITICAL findings.                                 *)
Contents ==
  [m \in Members |-> IF m = "report" THEN {Report(f) : f \in SUBSET Criticals}
                                     ELSE {Original, Replaced}]

-----------------------------------------------------------------------------
Init ==
  /\ RunInit
  /\ wall = 1
  /\ adjustments = 0
  /\ policyMain \in DOMAIN Policies
  /\ captured = NoFiles
  /\ checked = {}
  /\ policy = None
  /\ decision = None

-----------------------------------------------------------------------------
(* Environment.                                                            *)
Tick ==
  /\ Running /\ wall < MaxTime
  /\ wall' = wall + 1
  /\ UNCHANGED <<adjustments, policyMain>>

SetClockBack ==
  /\ Running /\ adjustments < MaxAdjustments /\ wall > 0
  /\ wall' = wall - 1
  /\ adjustments' = adjustments + 1
  /\ UNCHANGED policyMain

MergePolicy ==
  /\ Running
  /\ policyMain' \in {r \in DOMAIN Policies : r > policyMain}
  /\ UNCHANGED <<wall, adjustments>>

World == (Tick \/ SetClockBack \/ MergePolicy) /\ UNCHANGED <<writer, runVars>>

-----------------------------------------------------------------------------
(* scanHosted (module HostedScan): two scans, each writing its output      *)
(* exclusively.                                                            *)
Scan(member, next) ==
  \/ /\ files[member] = Absent
     /\ \E content \in Contents[member] \ {Replaced} : Leave(member, content)
     /\ Succeed(next)
  \/ Fail

ScanSbom == step = "scan-sbom" /\ Scan("sbom", "scan-report")
ScanReport == step = "scan-report" /\ Scan("report", "capture")

-----------------------------------------------------------------------------
(* generateV3Evidence.                                                     *)
Refuse == Fail /\ UNCHANGED writer

InOrder(m, done) == \A other \in Members \ done : Rank[m] <= Rank[other]

Capture(m) ==
  /\ files[m] # Absent
  /\ captured' = [n \in DOMAIN captured \cup {m} |->
                    IF n = m THEN files[m] ELSE captured[n]]
  /\ Continue(IF DOMAIN captured \cup {m} = Members THEN "acquire" ELSE "capture")
  /\ UNCHANGED <<checked, policy, decision>>

(* readCandidateContext, then the members one after the other: for each,   *)
(* readDocument (module RuntimeFiles) returns the whole file or fails.     *)
CaptureMember ==
  /\ step = "capture"
  /\ \E m \in Members \ DOMAIN captured : InOrder(m, DOMAIN captured) /\ (Capture(m) \/ Refuse)

(* acquirePolicy: an atomic read of main (module PolicySource), complete   *)
(* some time after it was pinned, or a failure without any fallback.       *)
AcquirePolicy ==
  /\ step = "acquire"
  /\ \/ /\ policy' = [revision |-> policyMain, pinnedAt |-> wall, completeAt |-> wall]
        /\ Continue("acquiring")
        /\ UNCHANGED <<captured, checked, decision>>
     \/ Refuse

CompletePolicy ==
  /\ step = "acquiring"
  /\ \/ /\ policy' = [policy EXCEPT !.completeAt = wall]
        /\ Continue("evaluate")
        /\ UNCHANGED <<captured, checked, decision>>
     \/ Refuse

(* The evaluation of a report's CRITICAL findings at a time (module        *)
(* VulnerabilityPolicy); an approval from the future rejects it.           *)
Approvals == Policies[policy.revision]

Evaluation(report, time) ==
  [revision    |-> policy.revision,
   evaluatedAt |-> time,
   report      |-> captured["report"],
   blocking    |-> report.bytes \ {a.finding : a \in {b \in Approvals : time < b.expiresAt}}]

Decided(report, time, next) ==
  /\ \A a \in Approvals : a.approvedAt <= time
  /\ decision' = Evaluation(report, time)
  /\ Continue(next)
  /\ UNCHANGED <<captured, checked, policy>>

(* Mutant: the clock is sampled before the acquisition.                    *)
EvaluateEarlyClock ==
  step = "evaluate" /\ Decided(captured["report"], policy.pinnedAt, "diagnostic")

(* Mutant: the report is read again for the evaluation.                    *)
EvaluateRereadReport ==
  /\ step = "evaluate" /\ files["report"] # Absent
  /\ Decided(files["report"], wall, "diagnostic")

(* Mutant: the decision is enforced without being written first.           *)
EvaluateThenGate ==
  step = "evaluate" /\ Decided(captured["report"], wall, "gate")

(* The captured report is evaluated, at a time sampled after the           *)
(* acquisition; an unreadable or oversized report fails.                   *)
Evaluate ==
  /\ step = "evaluate"
  /\ Decided(captured["report"], wall, "diagnostic") \/ Refuse

(* The decision is kept, whatever it is, before it is enforced.            *)
WriteDiagnostic ==
  /\ step = "diagnostic"
  /\ (Leave("diagnostic", decision) /\ Succeed("summary")) \/ Fail
  /\ UNCHANGED writer

AppendSummary ==
  /\ step = "summary"
  /\ Continue("gate") \/ Fail
  /\ UNCHANGED writer

RequireNoBlockers ==
  /\ step = "gate"
  /\ \/ decision.blocking = {} /\ Continue("recheck")
     \/ decision.blocking # {} /\ Fail
  /\ UNCHANGED writer

(* Mutant: the members are not compared again.                             *)
RequireNothing ==
  /\ step = "recheck"
  /\ checked' = Members
  /\ Continue("document")
  /\ UNCHANGED <<captured, policy, decision>>

RequireUnchanged ==
  /\ step = "recheck"
  /\ \E m \in Members \ checked :
       /\ InOrder(m, checked)
       /\ \/ /\ files[m] = captured[m]
             /\ checked' = checked \cup {m}
             /\ Continue(IF checked \cup {m} = Members THEN "document" ELSE "recheck")
             /\ UNCHANGED <<captured, policy, decision>>
          \/ Refuse

CandidateDocument ==
  [hashes |-> [captured EXCEPT !["report"] = decision.report],
   decision |-> decision, generatedAt |-> wall]

(* Mutant: a document dated before its decision waits for the clock.       *)
WriteDocumentWhenDue ==
  /\ step = "document"
  /\ wall >= decision.evaluatedAt
  /\ Leave("document", CandidateDocument) /\ Succeed("attest")
  /\ UNCHANGED writer

WriteDocument ==
  /\ step = "document"
  /\ \/ /\ wall >= decision.evaluatedAt
        /\ Leave("document", CandidateDocument) /\ Succeed("attest")
     \/ Fail
  /\ UNCHANGED writer

-----------------------------------------------------------------------------
WriterSteps ==
  \/ CaptureMember \/ AcquirePolicy \/ CompletePolicy \/ Evaluate
  \/ WriteDiagnostic \/ AppendSummary
  \/ RequireNoBlockers \/ RequireUnchanged \/ WriteDocument

Steps ==
  /\ \/ (SharedSteps \/ ScanSbom \/ ScanReport) /\ UNCHANGED writer
     \/ WriterSteps
  /\ UNCHANGED world

Next ==
  \/ World
  \/ (ChangeMember(Contents) \/ Cancel) /\ UNCHANGED <<world, writer>>
  \/ Steps

Spec == Init /\ [][Next]_vars

(* The steps of one job run one after the other on one runner, and each    *)
(* ends: the scans, the acquisition and gh have timeouts of their own.     *)
FairSpec == Spec /\ WF_vars(Steps)

-----------------------------------------------------------------------------
(* Properties.                                                             *)

StepNames ==
  {"context", "verify", "scan-sbom", "scan-report", "capture", "acquire", "acquiring",
   "evaluate", "diagnostic", "summary", "gate", "recheck", "document", "attest",
   "upload", "diagnose", "done"}

(* Types of the run's state (action.yml, generateV3Evidence); the writer's *)
(* results exist from the step that produces them on.                      *)
TypeOK ==
  /\ RunTypeOK(Contents, StepNames)
  /\ wall \in 0 .. MaxTime /\ policyMain \in DOMAIN Policies
  /\ DOMAIN captured \subseteq Members
  /\ \A m \in DOMAIN captured : captured[m] \in Contents[m]
  /\ checked \subseteq DOMAIN captured
  /\ policy # None => DOMAIN captured = Members /\ policy.revision \in DOMAIN Policies
  /\ decision # None => policy # None /\ decision.revision = policy.revision
  /\ files["diagnostic"] \in {Absent, decision}
  /\ files["document"] # Absent => files["diagnostic"] = decision /\ decision # None

(* The recorded decision had an approval in force for each CRITICAL        *)
(* finding of the report, at the recorded time and policy revision.        *)
Approved(artifact) ==
  LET made == artifact["document"].decision IN
  \A f \in artifact["report"].bytes :
    \E a \in Policies[made.revision] :
      a.finding = f /\ a.approvedAt <= made.evaluatedAt /\ made.evaluatedAt < a.expiresAt

(* An uploaded handoff whose document matches its files has no CRITICAL    *)
(* finding without an approval of the recorded policy revision that was in *)
(* force at the recorded decision time, whenever and however often another *)
(* process changed the members.                                            *)
ConsistentHandoffIsApproved == Consistent(admissible) => Approved(admissible)

LawfulHandoff(artifact) == Consistent(artifact) /\ Approved(artifact)

Handed == INSTANCE EvidenceHandoff
            WITH Lawful <- LawfulHandoff, ended <- step = "done"

(* If members only change until the decision is enforced, the run keeps    *)
(* the promise of EvidenceHandoff: a change during the acquisition is      *)
(* noticed, all four files are signed with the bytes the document          *)
(* describes and approved, exactly these are uploaded, rejected            *)
(* diagnostics never accompany them, and a cancelled run publishes nothing *)
(* more (candidate-v3.mts:96, action.yml:111-132).                         *)
ImplementsHandoff == Handed!Spec

(* The run ends, whatever vanished, moved or was set back: no step waits   *)
(* for a member, for the policy or for the clock.                          *)
RunEnds == <>(step = "done")

(* Policy, decision and document are dated in this order; the decision     *)
(* never predates the complete snapshot unless the clock was set back.     *)
TimesOrdered ==
  files["document"] # Absent =>
    /\ decision.evaluatedAt <= files["document"].generatedAt
    /\ adjustments = 0 => policy.completeAt <= decision.evaluatedAt

(* A run the policy rejects has its complete decision on disk, and the     *)
(* condition of the diagnostics upload will hold for it.                   *)
RejectionIsExplained ==
  [][step = "gate" /\ failed' # failed =>
       files["diagnostic"] = decision /\ decision.blocking # {} /\ verified]_vars
=============================================================================
