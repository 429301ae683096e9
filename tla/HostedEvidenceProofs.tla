------------------------ MODULE HostedEvidenceProofs ------------------------
(***************************************************************************)
(* Proofs about HostedEvidence, for any findings, policies, clock and any  *)
(* number of changes to the members at any steps: an uploaded handoff that *)
(* agrees with its document is approved, its times are ordered, and a      *)
(* rejection is explained.                                                 *)
(***************************************************************************)
EXTENDS HostedEvidence, TLAPS

(* Steps of the run, by what has been achieved before them.                *)
Handing == {"attest", "upload", "diagnose", "done"}
Enforced == {"recheck", "document"}
Explained == {"summary", "gate"} \cup Enforced
WithDecision == {"diagnostic"} \cup Explained
WithPolicy == {"acquiring", "evaluate"} \cup WithDecision
BehindProvenance == {"scan-sbom", "scan-report", "capture", "acquire"} \cup WithPolicy

(* The approvals of a decision's revision in force at its time excuse      *)
(* every CRITICAL finding of a report that the decision does not block.    *)
Excused(f, made) ==
  \E a \in Policies[made.revision] :
    a.finding = f /\ a.approvedAt <= made.evaluatedAt /\ made.evaluatedAt < a.expiresAt

SoundDecision(made) == \A f \in made.report.bytes \ made.blocking : Excused(f, made)

SoundDocument(made) == \A f \in made.hashes["report"].bytes : Excused(f, made.decision)

Progress ==
  /\ DOMAIN files = FileNames
  /\ step \in BehindProvenance => verified = TRUE
  /\ step \in WithPolicy \cup {"acquire"} => DOMAIN captured = Members
  /\ step \in WithDecision => SoundDecision(decision)
  /\ step \in Explained => files["diagnostic"] = decision
  /\ step \in Enforced => decision.blocking = {}
  /\ files["document"] # Absent => step \in Handing /\ SoundDocument(files["document"])

Dated ==
  /\ wall \in Int /\ adjustments \in Nat
  /\ step = "acquiring" => "completeAt" \in DOMAIN policy
  /\ step \in WithPolicy => policy.completeAt \in Int
  /\ step \in WithDecision => decision.evaluatedAt \in Int
  /\ adjustments = 0 =>
       /\ step \in {"acquiring", "evaluate"} => policy.completeAt <= wall
       /\ step \in WithDecision => policy.completeAt <= decision.evaluatedAt

IInv == Progress /\ Dated /\ TimesOrdered /\ ConsistentHandoffIsApproved

-----------------------------------------------------------------------------
(* The steps that a document may exist in are none before the handoff.     *)
LEMMA StepSets == /\ Handing \cap BehindProvenance = {}
                  /\ WithPolicy \subseteq BehindProvenance /\ WithDecision \subseteq WithPolicy
                  /\ Explained \subseteq WithDecision /\ Enforced \subseteq Explained
                  /\ "diagnose" \in Handing /\ "done" \in Handing
  BY DEF Handing, Enforced, Explained, WithDecision, WithPolicy, BehindProvenance

(* The document, and every file but the members, is only written by the    *)
(* run: with neither touched and the run in a step that promises nothing   *)
(* new, the invariant stays.                                               *)
LEMMA Retreat ==
  ASSUME IInv, step' \in {"diagnose", "done"},
         UNCHANGED <<world, writer, admissible>>,
         DOMAIN files' = FileNames, files'["document"] = files["document"]
  PROVE  IInv'
  BY DEF IInv, Progress, Dated, TimesOrdered, ConsistentHandoffIsApproved, Consistent,
    Approved, SoundDocument, Excused, Handing, Enforced, Explained, WithDecision,
    WithPolicy, BehindProvenance, world, writer

(* A failing step, of the run or of the writer.                            *)
LEMMA FailPreserves == IInv /\ Fail /\ UNCHANGED <<world, writer>> => IInv'
  BY Retreat DEF Fail, StopRun, products, IInv, Progress

(* The initial states.                                                     *)
LEMMA InitEstablishes == Init => IInv
  BY DEF Init, RunInit, IInv, Progress, Dated, TimesOrdered, ConsistentHandoffIsApproved,
    Consistent, Handoff, NoFiles, FileNames, Diagnostics, Members,
    Handing, Enforced, Explained, WithDecision, WithPolicy, BehindProvenance

(* The clock, the policy's main, another process and a cancellation.       *)
LEMMA WorldPreserves == IInv /\ World => IInv'
  <1> SUFFICES ASSUME IInv, World PROVE IInv'
    OBVIOUS
  <1>1. /\ UNCHANGED <<writer, runVars>>
        /\ wall' \in Int /\ adjustments' \in Nat
        /\ adjustments' = 0 => adjustments = 0 /\ wall <= wall'
    BY DEF World, Tick, SetClockBack, MergePolicy, IInv, Dated
  <1>2. Progress' /\ ConsistentHandoffIsApproved'
    BY <1>1 DEF IInv, Progress, SoundDecision, SoundDocument, Excused, writer, runVars,
      products, ConsistentHandoffIsApproved, Consistent, Approved
  <1>3. TimesOrdered'
    BY <1>1 DEF IInv, TimesOrdered, writer, runVars
  <1>4. Dated'
    BY <1>1 DEF IInv, Dated, writer, runVars, WithPolicy, WithDecision, Explained, Enforced
  <1> QED  BY <1>2, <1>3, <1>4 DEF IInv

(* Another process changes a member, or the run is cancelled.              *)
LEMMA ChangesPreserve ==
  IInv /\ (ChangeMember(Contents) \/ Cancel) /\ UNCHANGED <<world, writer>> => IInv'
  <1> SUFFICES ASSUME IInv, ChangeMember(Contents) \/ Cancel, UNCHANGED <<world, writer>>
               PROVE  IInv'
    OBVIOUS
  <1>1. CASE ChangeMember(Contents)
    <2>1. PICK m \in Members : \E content : files' = [files EXCEPT ![m] = content]
      BY <1>1 DEF ChangeMember, Present
    <2>2. /\ DOMAIN files' = FileNames
          /\ files'["document"] = files["document"]
          /\ files'["diagnostic"] = files["diagnostic"]
      BY <2>1 DEF Members, IInv, Progress, FileNames, Handoff, Diagnostics
    <2>3. UNCHANGED <<step, verified, admissible, captured, policy, decision, wall, adjustments>>
      BY <1>1 DEF ChangeMember, products, writer, world
    <2>4. Progress' /\ Dated' /\ TimesOrdered'
      BY <2>2, <2>3 DEF IInv, Progress, Dated, TimesOrdered, SoundDecision, SoundDocument,
        Excused
    <2>5. ConsistentHandoffIsApproved'
      BY <2>3 DEF IInv, ConsistentHandoffIsApproved, Consistent, Approved
    <2> QED  BY <2>4, <2>5 DEF IInv
  <1>2. CASE Cancel
    BY <1>2, Retreat DEF Cancel, products, IInv, Progress
  <1> QED  BY <1>1, <1>2

(* Steps before the attestation that advance without deciding anything: no *)
(* document exists yet, and what they keep stays true.                     *)
LEMMA BeforeHandoff ==
  IInv /\ step \notin Handing => files["document"] = Absent
  BY DEF IInv, Progress

(* The first steps, the attestation and the uploads.                       *)
LEMMA SharedPreserve == IInv /\ SharedSteps /\ UNCHANGED <<world, writer>> => IInv'
  <1> SUFFICES ASSUME IInv, SharedSteps, UNCHANGED <<world, writer>> PROVE IInv'
    OBVIOUS
  <1>1. CASE Fail
    BY <1>1, FailPreserves
  <1>2. CASE ResolveContext /\ ~Fail
    BY <1>2 DEF ResolveContext, Continue, Succeed, products, IInv, Progress, Dated, TimesOrdered,
      ConsistentHandoffIsApproved, Consistent, Approved, SoundDocument, Excused, world, writer,
      Handing, Enforced, Explained, WithDecision, WithPolicy, BehindProvenance
  <1>3. CASE VerifyProvenance /\ ~Fail
    <2>1. /\ step = "verify"
          /\ files' = [files EXCEPT !["provenance"] = Original]
          /\ step' = "diagnose" \/ (step' = "scan-sbom" /\ verified' = TRUE)
          /\ UNCHANGED <<signed, admissible, rejected>>
      BY <1>3 DEF VerifyProvenance, Succeed, StopRun, products
    <2>2. /\ DOMAIN files' = FileNames
          /\ files'["document"] = files["document"]
      BY <2>1 DEF IInv, Progress, FileNames, Handoff, Members
    <2> QED  BY <2>1, <2>2, BeforeHandoff DEF IInv, Progress, Dated, TimesOrdered,
      ConsistentHandoffIsApproved, Consistent, Approved, world, writer,
      Handing, Enforced, Explained, WithDecision, WithPolicy, BehindProvenance
  <1>4. CASE AttestHandoff /\ ~Fail
    BY <1>4 DEF AttestHandoff, Succeed, IInv, Progress, Dated, TimesOrdered,
      ConsistentHandoffIsApproved, Consistent, Approved, SoundDocument, Excused, world, writer,
      Handing, Enforced, Explained, WithDecision, WithPolicy, BehindProvenance
  <1>5. CASE UploadAdmissible /\ ~Fail
    <2>1. /\ step = "upload" /\ step' = "diagnose" /\ admissible' = FilesOf(Handoff)
          /\ UNCHANGED <<verified, files>>
      BY <1>5 DEF UploadAdmissible, Succeed
    <2>2. ConsistentHandoffIsApproved'
      <3> SUFFICES ASSUME Consistent(FilesOf(Handoff)) PROVE Approved(FilesOf(Handoff))
        BY <2>1 DEF ConsistentHandoffIsApproved, Consistent, Approved
      <3> DEFINE artifact == FilesOf(Handoff)
      <3>1. artifact["report"] = files["report"] /\ artifact["document"] = files["document"]
        BY DEF FilesOf, Consistent, Handoff, Members
      <3>2. "document" \in Present(Handoff)
        BY DEF FilesOf, Consistent, Handoff
      <3>3. SoundDocument(files["document"])
        BY <3>2 DEF Present, IInv, Progress
      <3>4. files["report"] = files["document"].hashes["report"]
        BY <3>1 DEF Consistent, Members
      <3> HIDE DEF artifact
      <3> QED  BY <3>1, <3>3, <3>4 DEF Approved, SoundDocument, Excused, artifact
    <2> QED  BY <2>1, <2>2 DEF IInv, Progress, Dated, TimesOrdered, SoundDocument, Excused,
      world, writer, Handing, Enforced, Explained, WithDecision, WithPolicy, BehindProvenance
  <1>6. CASE UploadRejected
    BY <1>6, Retreat DEF UploadRejected, Succeed, IInv, Progress
  <1> QED  BY <1>1, <1>2, <1>3, <1>4, <1>5, <1>6 DEF SharedSteps

(* A scan leaves its member and nothing else.                              *)
LEMMA ScansPreserve == IInv /\ (ScanSbom \/ ScanReport) /\ UNCHANGED <<world, writer>> => IInv'
  <1> SUFFICES ASSUME IInv, ScanSbom \/ ScanReport, UNCHANGED <<world, writer>> PROVE IInv'
    OBVIOUS
  <1>1. CASE Fail
    BY <1>1, FailPreserves
  <1>2. CASE ~Fail
    <2>1. /\ step \in {"scan-sbom", "scan-report"} /\ step' \in {"scan-report", "capture"}
          /\ \E m \in Members, content \in UNION {Contents["sbom"], Contents["report"]} :
                files' = [files EXCEPT ![m] = content]
          /\ UNCHANGED <<verified, admissible>>
      BY <1>2 DEF ScanSbom, ScanReport, Scan, Leave, Succeed, products, Members
    <2>2. /\ DOMAIN files' = FileNames
          /\ files'["document"] = files["document"]
      BY <2>1 DEF IInv, Progress, FileNames, Handoff, Members
    <2> QED  BY <2>1, <2>2, BeforeHandoff DEF IInv, Progress, Dated, TimesOrdered,
      ConsistentHandoffIsApproved, Consistent, Approved, world, writer,
      Handing, Enforced, Explained, WithDecision, WithPolicy, BehindProvenance
  <1> QED  BY <1>1, <1>2

-----------------------------------------------------------------------------
(* The writer.                                                             *)

(* Capture and acquisition: nothing is decided yet.                        *)
LEMMA CapturePreserves ==
  IInv /\ (CaptureMember \/ AcquirePolicy \/ CompletePolicy) /\ UNCHANGED world => IInv'
  <1> SUFFICES ASSUME IInv, CaptureMember \/ AcquirePolicy \/ CompletePolicy, UNCHANGED world
               PROVE  IInv'
    OBVIOUS
  <1>1. CASE Refuse
    BY <1>1, FailPreserves DEF Refuse
  <1>2. CASE ~Refuse
    <2>1. /\ step \in {"capture", "acquire", "acquiring"}
          /\ UNCHANGED <<verified, files, admissible, decision, wall, adjustments>>
          /\ \/ /\ step = "capture" /\ step' \in {"capture", "acquire"} /\ UNCHANGED policy
                /\ step' = "acquire" => DOMAIN captured' = Members
             \/ /\ step = "acquire" /\ step' = "acquiring" /\ UNCHANGED captured
                /\ policy' = [revision |-> policyMain, pinnedAt |-> wall, completeAt |-> wall]
             \/ /\ step = "acquiring" /\ step' = "evaluate" /\ UNCHANGED captured
                /\ policy' = [policy EXCEPT !.completeAt = wall]
      <3>1. CASE CaptureMember
        BY <1>2, <3>1 DEF CaptureMember, Capture, Continue, Succeed, products, world
      <3>2. CASE AcquirePolicy
        BY <1>2, <3>2 DEF AcquirePolicy, Continue, Succeed, products, world
      <3>3. CASE CompletePolicy
        BY <1>2, <3>3 DEF CompletePolicy, Continue, Succeed, products, world
      <3> QED  BY <3>1, <3>2, <3>3
    <2>2. files["document"] = Absent
      BY <2>1, BeforeHandoff DEF Handing
    <2>3. Progress' /\ TimesOrdered' /\ ConsistentHandoffIsApproved'
      BY <2>1, <2>2 DEF IInv, Progress, TimesOrdered, ConsistentHandoffIsApproved, Consistent,
        Approved, Handing, Enforced, Explained, WithDecision, WithPolicy, BehindProvenance
    <2>4. Dated'
      <3>1. step \in {"acquire", "acquiring"} => policy'.completeAt = wall
        BY <2>1 DEF IInv, Dated
      <3> QED  BY <2>1, <3>1 DEF IInv, Dated, WithDecision, WithPolicy, Explained, Enforced
    <2> QED  BY <2>3, <2>4 DEF IInv
  <1> QED  BY <1>1, <1>2

(* The decision blocks what no approval in force excuses, at a time after  *)
(* the acquisition.                                                        *)
LEMMA EvaluatePreserves == IInv /\ Evaluate /\ UNCHANGED world => IInv'
  <1> SUFFICES ASSUME IInv, Evaluate, UNCHANGED world PROVE IInv'
    OBVIOUS
  <1>1. CASE Refuse
    BY <1>1, FailPreserves DEF Refuse
  <1>2. CASE ~Refuse
    <2>1. /\ step = "evaluate" /\ step' = "diagnostic"
          /\ \A a \in Approvals : a.approvedAt <= wall
          /\ decision' = Evaluation(captured["report"], wall)
          /\ UNCHANGED <<verified, files, admissible, captured, policy, wall, adjustments>>
      BY <1>2 DEF Evaluate, Decided, Continue, Succeed, products, world
    <2>2. /\ decision'.revision = policy.revision /\ decision'.evaluatedAt = wall
          /\ decision'.report = captured["report"]
          /\ decision'.blocking = captured["report"].bytes
               \ {a.finding : a \in {b \in Approvals : wall < b.expiresAt}}
      BY <2>1 DEF Evaluation
    <2>3. SoundDecision(decision')
      BY <2>1, <2>2 DEF SoundDecision, Excused, Approvals
    <2>4. files["document"] = Absent
      BY <2>1, BeforeHandoff DEF Handing
    <2>5. Progress' /\ TimesOrdered' /\ ConsistentHandoffIsApproved'
      BY <2>1, <2>3, <2>4 DEF IInv, Progress, TimesOrdered, ConsistentHandoffIsApproved,
        Consistent, Approved, Handing, Enforced, Explained, WithDecision, WithPolicy,
        BehindProvenance, SoundDecision
    <2>6. Dated'
      BY <2>1, <2>2 DEF IInv, Dated, WithDecision, WithPolicy, Explained, Enforced
    <2> QED  BY <2>5, <2>6 DEF IInv
  <1> QED  BY <1>1, <1>2

(* The decision is written, summarised, enforced, and the members are      *)
(* compared again.                                                         *)
LEMMA EnforcementPreserves ==
  IInv /\ (WriteDiagnostic \/ AppendSummary \/ RequireNoBlockers \/ RequireUnchanged)
       /\ UNCHANGED world => IInv'
  <1> SUFFICES ASSUME IInv, UNCHANGED world,
                      WriteDiagnostic \/ AppendSummary \/ RequireNoBlockers \/ RequireUnchanged
               PROVE  IInv'
    OBVIOUS
  <1>1. CASE Fail
    BY <1>1, FailPreserves DEF WriteDiagnostic, AppendSummary, RequireNoBlockers,
      RequireUnchanged, Refuse, Fail, StopRun, Continue, Succeed, writer
  <1>2. CASE ~Fail
    <2>1. /\ UNCHANGED <<verified, admissible, captured, policy, decision, wall, adjustments>>
          /\ \/ /\ step = "diagnostic" /\ step' = "summary"
                /\ files' = [files EXCEPT !["diagnostic"] = decision]
             \/ step = "summary" /\ step' = "gate" /\ UNCHANGED files
             \/ /\ step = "gate" /\ step' = "recheck" /\ UNCHANGED files
                /\ decision.blocking = {}
             \/ step = "recheck" /\ step' \in {"recheck", "document"} /\ UNCHANGED files
      BY <1>2 DEF WriteDiagnostic, AppendSummary, RequireNoBlockers, RequireUnchanged, Refuse,
        Leave, Continue, Succeed, products, writer, world
    <2>2. files["document"] = Absent
      BY <2>1, BeforeHandoff DEF Handing
    <2>3. /\ DOMAIN files' = FileNames /\ files'["document"] = Absent
          /\ step' \in Explained => files'["diagnostic"] = decision
      BY <2>1, <2>2 DEF IInv, Progress, FileNames, Handoff, Members, Explained, Enforced
    <2>4. Progress' /\ TimesOrdered' /\ ConsistentHandoffIsApproved'
      BY <2>1, <2>3 DEF IInv, Progress, TimesOrdered, ConsistentHandoffIsApproved,
        Consistent, Approved, Handing, Enforced, Explained, WithDecision, WithPolicy,
        BehindProvenance, SoundDecision, Excused
    <2>5. Dated'
      BY <2>1 DEF IInv, Dated, WithDecision, WithPolicy, Explained, Enforced
    <2> QED  BY <2>4, <2>5 DEF IInv
  <1> QED  BY <1>1, <1>2

(* The document hashes the evaluated report, and nothing of it blocks.     *)
LEMMA DocumentPreserves == IInv /\ WriteDocument /\ UNCHANGED world => IInv'
  <1> SUFFICES ASSUME IInv, WriteDocument, UNCHANGED world PROVE IInv'
    OBVIOUS
  <1>1. CASE Fail
    BY <1>1, FailPreserves DEF WriteDocument
  <1>2. CASE ~Fail
    <2>1. /\ step = "document" /\ step' = "attest" /\ wall >= decision.evaluatedAt
          /\ files' = [files EXCEPT !["document"] = CandidateDocument]
          /\ UNCHANGED <<verified, admissible, captured, policy, decision, wall, adjustments>>
      BY <1>2 DEF WriteDocument, Leave, Succeed, products, writer, world
    <2>2. /\ DOMAIN files' = FileNames /\ files'["document"] = CandidateDocument
      BY <2>1 DEF IInv, Progress, FileNames, Handoff
    <2>3. /\ SoundDecision(decision) /\ decision.blocking = {} /\ DOMAIN captured = Members
      BY <2>1 DEF IInv, Progress, WithDecision, WithPolicy, Explained, Enforced
    <2>4. /\ CandidateDocument.hashes["report"] = decision.report
          /\ CandidateDocument.decision = decision
          /\ CandidateDocument.generatedAt = wall
      BY <2>3 DEF CandidateDocument, Members
    <2>5. SoundDocument(CandidateDocument)
      BY <2>3, <2>4 DEF SoundDocument, SoundDecision
    <2>6. Progress' /\ ConsistentHandoffIsApproved'
      BY <2>1, <2>2, <2>5 DEF IInv, Progress, ConsistentHandoffIsApproved, Consistent,
        Approved, Handing, Enforced, Explained, WithDecision, WithPolicy, BehindProvenance,
        SoundDocument, Excused
    <2>7. Dated' /\ TimesOrdered'
      BY <2>1, <2>2, <2>4 DEF IInv, Dated, TimesOrdered, Handing, WithDecision, WithPolicy,
        Explained, Enforced
    <2> QED  BY <2>6, <2>7 DEF IInv
  <1> QED  BY <1>1, <1>2

-----------------------------------------------------------------------------
(* The strengthened invariant of one run of the action.                    *)
THEOREM Invariance == Spec => []IInv
  <1>1. IInv /\ [Next]_vars => IInv'
    <2>1. IInv /\ UNCHANGED vars => IInv'
      BY DEF vars, world, writer, runVars, products, IInv, Progress, Dated, TimesOrdered,
        ConsistentHandoffIsApproved, Consistent, Approved, SoundDecision, SoundDocument,
        Excused
    <2>2. IInv /\ Next => IInv'
      BY WorldPreserves, ChangesPreserve, SharedPreserve, ScansPreserve, CapturePreserves,
        EvaluatePreserves, EnforcementPreserves, DocumentPreserves
      DEF Next, Steps, WriterSteps
    <2> QED  BY <2>1, <2>2
  <1> QED  BY <1>1, InitEstablishes, PTL DEF Spec

(* Whatever another process does to the members, at whatever step and      *)
(* however often, and whatever the policy and the clock do: an uploaded    *)
(* handoff whose document matches its files has no CRITICAL finding        *)
(* without an approval of the recorded revision in force at the recorded   *)
(* decision time (candidate-v3.mts:45-58).                                 *)
THEOREM UploadedIsApproved == Spec => []ConsistentHandoffIsApproved
  <1>1. IInv => ConsistentHandoffIsApproved
    BY DEF IInv
  <1> QED  BY <1>1, Invariance, PTL

(* The document is never dated before its decision, nor the decision       *)
(* before the complete snapshot of the policy unless the clock was set     *)
(* back (candidate-v3.mts:53, approved-evaluation.mts:31).                 *)
THEOREM TimesAreOrdered == Spec => []TimesOrdered
  <1>1. IInv => TimesOrdered
    BY DEF IInv
  <1> QED  BY <1>1, Invariance, PTL

(* Every run the decision rejects has that decision on disk, behind        *)
(* verified provenance (candidate-v3.mts:40-49).                           *)
THEOREM RejectionsExplained == Spec => RejectionIsExplained
  <1> DEFINE Explains == step = "gate" /\ failed' # failed =>
        files["diagnostic"] = decision /\ decision.blocking # {} /\ verified
  <1>1. IInv /\ [Next]_vars => [Explains]_vars
    <2> SUFFICES ASSUME IInv, Next, step = "gate", failed' # failed
                 PROVE  files["diagnostic"] = decision /\ decision.blocking # {} /\ verified
      BY DEF vars
    <2>1. /\ files["diagnostic"] = decision /\ verified
      BY DEF IInv, Progress, Explained, BehindProvenance, WithPolicy, WithDecision
    <2>2. RequireNoBlockers
      BY DEF Next, World, Steps, SharedSteps, WriterSteps, runVars, ChangeMember, Cancel,
        ResolveContext, VerifyProvenance, AttestHandoff, UploadAdmissible, UploadRejected,
        ScanSbom, ScanReport, CaptureMember, AcquirePolicy, CompletePolicy, Evaluate,
        WriteDiagnostic, AppendSummary, RequireUnchanged, WriteDocument
    <2>3. decision.blocking # {}
      BY <2>2 DEF RequireNoBlockers, Continue, Succeed
    <2> QED  BY <2>1, <2>3
  <1> QED  BY <1>1, Invariance, PTL DEF Spec, RejectionIsExplained
-----------------------------------------------------------------------------
(* The refinement: if no member changes between its second comparison and  *)
(* the upload, a run keeps the promise of EvidenceHandoff.                 *)
Undisturbed == UnstableSteps \cap {"recheck", "document", "attest", "upload"} = {}

Ending == {"diagnose", "done"}

(* What the writer knows of the members: the captured bytes exist, the     *)
(* decision is about the captured report, and the members compared again   *)
(* still hold what was captured.                                           *)
Compared ==
  /\ \A m \in DOMAIN captured : captured[m] # Absent
  /\ step \in WithDecision => decision.report = captured["report"]
  /\ checked \subseteq Members
  /\ step \notin Handing \cup Enforced => checked = {}
  /\ step = "recheck" => \A m \in checked : files[m] = captured[m]
  /\ step = "document" => \A m \in Members : files[m] = captured[m]

(* The files on disk are a lawful handoff.                                 *)
Offered ==
  /\ \A n \in Handoff : files[n] # Absent
  /\ \A m \in Members : files[m] = files["document"].hashes[m]

(* What left the run, by its step.                                         *)
Published ==
  /\ step \notin {"upload"} \cup Ending => signed = NoFiles
  /\ step = "upload" => signed = FilesOf(Handoff) /\ DOMAIN signed = Handoff
  /\ step \notin Ending => admissible = NoFiles /\ failed = FALSE
  /\ failed # FALSE => admissible = NoFiles
  /\ step # "done" => rejected = NoFiles

Handling ==
  /\ Compared
  /\ step \in {"attest", "upload"} => Offered
  /\ Published

(* What the run may still publish: only behind a verified provenance, and  *)
(* nothing after a cancellation.                                           *)
Standing ==
  /\ step \notin Ending => ~cancelled
  /\ step \in {"attest", "upload"} => verified

(* The names the abstract and the detailed specification give to no files  *)
(* are the same function.                                                  *)
LEMMA NothingIsNoFiles == Handed!Nothing = NoFiles
  BY DEF Handed!Nothing, NoFiles

(* A run starts with nothing handed on, captured or written.               *)
LEMMA InitHandles == Init => Handling
  BY DEF Init, RunInit, Handling, Compared, Offered, Published, NoFiles, Ending, Handing,
    Enforced, Explained, WithDecision, Members

(* The files of a lawful handoff, taken together, are one.                 *)
LEMMA OfferIsLawful ==
  ASSUME Offered, Progress
  PROVE  /\ DOMAIN FilesOf(Handoff) = Handoff
         /\ FilesOf(Handoff) # NoFiles
         /\ LawfulHandoff(FilesOf(Handoff))
  <1> DEFINE artifact == FilesOf(Handoff)
  <1>1. Present(Handoff) = Handoff
    BY DEF Present, Offered
  <1>2. artifact = [n \in Handoff |-> files[n]]
    BY <1>1 DEF FilesOf
  <1> HIDE DEF artifact
  <1>3. DOMAIN artifact = Handoff /\ \A n \in Handoff : artifact[n] = files[n]
    BY <1>2
  <1>4. artifact # NoFiles
    BY <1>3 DEF NoFiles, Handoff
  <1>5. Consistent(artifact)
    BY <1>3 DEF Consistent, Offered, Handoff
  <1>6. SoundDocument(files["document"])
    BY DEF Offered, Progress, Handoff
  <1>7. Approved(artifact)
    BY <1>3, <1>6 DEF Approved, SoundDocument, Excused, Offered, Handoff, Members
  <1> QED  BY <1>3, <1>4, <1>5, <1>7 DEF LawfulHandoff, artifact

(* Nothing but the three steps that publish touches what was published;    *)
(* a step that fails ends the run.                                         *)
LEMMA FailHandles ==
  ASSUME Handling, step \notin Ending, Fail, UNCHANGED <<world, writer>>
  PROVE  Handling' /\ UNCHANGED products
  <1>1. step' = "diagnose" /\ UNCHANGED <<files, products, captured, checked, decision>>
    BY DEF Fail, StopRun, writer
  <1>2. Compared'
    BY <1>1 DEF Handling, Compared, Handing, WithDecision, Explained, Enforced
  <1>3. Published'
    BY <1>1 DEF Handling, Published, products, Ending
  <1> QED  BY <1>1, <1>2, <1>3 DEF Handling

(* The world, another process and a cancellation.                          *)
LEMMA WorldHandles ==
  ASSUME Handling, World
  PROVE  Handling' /\ UNCHANGED <<products, step>>
  BY DEF World, writer, runVars, products, Handling, Compared, Offered, Published, FilesOf,
    Present

(* A change by another job step leaves the handed-on files alone.          *)
LEMMA ChangesHandle ==
  ASSUME Undisturbed, IInv, Handling, ChangeMember(Contents), UNCHANGED <<world, writer>>
  PROVE  Handling' /\ UNCHANGED <<products, step>>
  <1>1. /\ step \notin {"recheck", "document", "attest", "upload"}
        /\ UNCHANGED <<step, failed, products, captured, checked, decision>>
    BY DEF Undisturbed, ChangeMember, writer
  <1>2. Compared'
    BY <1>1 DEF Handling, Compared
  <1>3. Published'
    BY <1>1 DEF Handling, Published, products
  <1> QED  BY <1>1, <1>2, <1>3 DEF Handling

(* A cancelled run hands on nothing more and forgets nothing.              *)
LEMMA CancelHandles ==
  ASSUME Handling, Cancel, UNCHANGED <<world, writer>>
  PROVE  Handling' /\ UNCHANGED products /\ step # "done"
  <1>1. /\ step # "done" /\ step' \in Ending
        /\ step' = "done" => step = "diagnose"
        /\ UNCHANGED <<failed, files, products, captured, checked, decision>>
    BY DEF Cancel, Running, writer, Ending
  <1>2. Compared'
    BY <1>1 DEF Handling, Compared, Handing, WithDecision, Explained, Enforced, Ending
  <1>3. Published'
    BY <1>1 DEF Handling, Published, products, Ending
  <1> QED  BY <1>1, <1>2, <1>3 DEF Handling, Ending

(* The steps before the handoff publish nothing and stay before it.        *)
LEMMA EarlyStepsHandle ==
  ASSUME Handling, UNCHANGED <<world, writer>>,
         ResolveContext \/ VerifyProvenance \/ ScanSbom \/ ScanReport
  PROVE  Handling' /\ UNCHANGED products /\ step # "done" /\ step' # "done"
  <1>1. /\ step \in {"context", "verify", "scan-sbom", "scan-report"}
        /\ \/ /\ step' \in {"verify", "scan-sbom", "scan-report", "capture"}
              /\ UNCHANGED failed
           \/ step' = "diagnose"
        /\ UNCHANGED <<products, captured, checked, decision>>
    BY DEF ResolveContext, VerifyProvenance, ScanSbom, ScanReport, Scan, Continue, Succeed, Fail,
      StopRun, Leave, products, writer
  <1>2. Compared'
    BY <1>1 DEF Handling, Compared, Handing, WithDecision, Explained, Enforced
  <1>3. Published'
    BY <1>1 DEF Handling, Published, products, Ending
  <1> QED  BY <1>1, <1>2, <1>3 DEF Handling

(* Capturing a member or the policy is no step of the handoff.             *)
LEMMA CaptureHandles ==
  ASSUME IInv, Handling, UNCHANGED world, CaptureMember \/ AcquirePolicy \/ CompletePolicy
  PROVE  Handling' /\ UNCHANGED products /\ step # "done" /\ step' # "done"
  <1>1. CASE Refuse
    BY <1>1, FailHandles DEF Refuse, Fail, StopRun, CaptureMember, AcquirePolicy,
      CompletePolicy, Ending
  <1>2. CASE ~Refuse
    <2>1. /\ step \in {"capture", "acquire", "acquiring"}
          /\ step' \in {"capture", "acquire", "acquiring", "evaluate"}
          /\ UNCHANGED <<failed, files, products, checked, decision>>
      BY <1>2 DEF CaptureMember, AcquirePolicy, CompletePolicy, Capture, Continue, Succeed
    <2>2. \A m \in DOMAIN captured' : captured'[m] # Absent
      <3>1. CASE CaptureMember
        <4>1. PICK m \in Members : Capture(m)
          BY <1>2, <3>1 DEF CaptureMember
        <4> QED  BY <4>1 DEF Capture, Handling, Compared
      <3>2. CASE AcquirePolicy \/ CompletePolicy
        BY <1>2, <3>2 DEF AcquirePolicy, CompletePolicy, Handling, Compared
      <3> QED  BY <3>1, <3>2
    <2>3. Compared'
      BY <2>1, <2>2 DEF Handling, Compared, Handing, WithDecision, Explained, Enforced
    <2>4. Published'
      BY <2>1 DEF Handling, Published, products, Ending
    <2> QED  BY <2>1, <2>3, <2>4 DEF Handling
  <1> QED  BY <1>1, <1>2

(* From the evaluation to the gate.                                        *)
LEMMA DecisionHandles ==
  ASSUME IInv, Handling, UNCHANGED world,
         Evaluate \/ WriteDiagnostic \/ AppendSummary \/ RequireNoBlockers
  PROVE  Handling' /\ UNCHANGED products /\ step # "done" /\ step' # "done"
  <1>1. CASE Fail
    <2>1. UNCHANGED writer /\ step \notin Ending
      BY <1>1 DEF Evaluate, Decided, WriteDiagnostic, AppendSummary, RequireNoBlockers, Refuse,
        Fail, StopRun, Continue, Succeed, Ending
    <2> QED  BY <1>1, <2>1, FailHandles DEF Fail, StopRun, Ending
  <1>2. CASE ~Fail
    <2>1. /\ step \in {"evaluate", "diagnostic", "summary", "gate"}
          /\ step' \in {"diagnostic", "summary", "gate", "recheck"}
          /\ UNCHANGED <<failed, products, captured, checked>>
      BY <1>2 DEF Evaluate, Decided, WriteDiagnostic, AppendSummary, RequireNoBlockers, Refuse,
        Leave, Continue, Succeed, writer, products
    <2>2. decision'.report = captured'["report"]
      <3>1. CASE Evaluate
        BY <1>2, <3>1 DEF Evaluate, Decided, Evaluation, Refuse
      <3>2. CASE ~Evaluate
        BY <3>2 DEF WriteDiagnostic, AppendSummary, RequireNoBlockers, writer, Handling,
          Compared, WithDecision, Explained, Enforced
      <3> QED  BY <3>1, <3>2
    <2>3. Compared'
      BY <2>1, <2>2 DEF Handling, Compared, Handing, WithDecision, Explained, Enforced
    <2>4. Published'
      BY <2>1 DEF Handling, Published, products, Ending
    <2> QED  BY <2>1, <2>3, <2>4 DEF Handling
  <1> QED  BY <1>1, <1>2

(* The second comparison leaves every member as captured.                  *)
LEMMA RecheckHandles ==
  ASSUME Handling, UNCHANGED world, RequireUnchanged
  PROVE  Handling' /\ UNCHANGED products /\ step # "done" /\ step' # "done"
  <1>1. CASE Refuse
    BY <1>1, FailHandles DEF Refuse, Fail, StopRun, RequireUnchanged, Ending
  <1>2. CASE ~Refuse
    <2>1. PICK m \in Members \ checked :
            /\ files[m] = captured[m] /\ checked' = checked \cup {m}
            /\ step' = IF checked \cup {m} = Members THEN "document" ELSE "recheck"
      BY <1>2 DEF RequireUnchanged, Continue, Succeed
    <2>2. step = "recheck" /\ UNCHANGED <<failed, files, products, captured, decision>>
      BY <1>2 DEF RequireUnchanged, Continue, Succeed
    <2>3. \A n \in checked' : files'[n] = captured'[n]
      BY <2>1, <2>2 DEF Handling, Compared
    <2>4. checked' \subseteq Members
      BY <2>1 DEF Handling, Compared
    <2>5. step' = "document" => checked' = Members
      BY <2>1
    <2>6. Compared'
      BY <2>1, <2>2, <2>3, <2>4, <2>5 DEF Handling, Compared, Handing, WithDecision, Explained,
        Enforced
    <2>7. Published'
      BY <2>1, <2>2 DEF Handling, Published, products, Ending
    <2> QED  BY <2>1, <2>2, <2>6, <2>7 DEF Handling
  <1> QED  BY <1>1, <1>2

(* The document makes the files on disk an offer.                          *)
LEMMA DocumentHandles ==
  ASSUME IInv, Handling, UNCHANGED world, WriteDocument
  PROVE  Handling' /\ UNCHANGED products /\ step # "done" /\ step' # "done"
  <1>1. CASE Fail
    BY <1>1, FailHandles DEF WriteDocument, Fail, StopRun, Ending
  <1>2. CASE ~Fail
    <2>1. /\ step = "document" /\ step' = "attest"
          /\ files' = [files EXCEPT !["document"] = CandidateDocument]
          /\ UNCHANGED <<failed, products, captured, checked, decision>>
      BY <1>2 DEF WriteDocument, Leave, Succeed, products, writer
    <2>2. DOMAIN captured = Members /\ DOMAIN files = FileNames
      BY <2>1 DEF IInv, Progress, WithPolicy, WithDecision, Explained, Enforced
    <2>3. /\ \A m \in Members : files'[m] = captured[m]
          /\ files'["document"] = CandidateDocument
      BY <2>1, <2>2 DEF Handling, Compared, Members, FileNames, Handoff
    <2>4. decision.report = captured["report"]
      BY <2>1 DEF Handling, Compared, WithDecision, Explained, Enforced
    <2>5. \A m \in Members : CandidateDocument.hashes[m] = captured[m]
      BY <2>2, <2>4 DEF CandidateDocument, Members
    <2>6. CandidateDocument # Absent
      BY DEF CandidateDocument, Absent
    <2>7. \A m \in Members : captured[m] # Absent
      BY <2>2 DEF Handling, Compared
    <2>8. Offered'
      BY <2>3, <2>5, <2>6, <2>7 DEF Offered, Handoff
    <2>9. Compared'
      BY <2>1 DEF Handling, Compared, Handing, WithDecision, Explained, Enforced
    <2>10. Published'
      BY <2>1 DEF Handling, Published, products, Ending
    <2> QED  BY <2>1, <2>8, <2>9, <2>10 DEF Handling
  <1> QED  BY <1>1, <1>2

(* The abstract steps: an offer is signed, what was signed is admitted,    *)
(* and the run ends, with diagnostics only if nothing was admitted.        *)
LEMMA AttestHandles ==
  ASSUME IInv, Handling, Standing, AttestHandoff, UNCHANGED <<world, writer>>
  PROVE  Handling' /\ (Handed!Sign \/ (UNCHANGED products /\ step # "done" /\ step' # "done"))
  <1>1. CASE Fail
    BY <1>1, FailHandles DEF AttestHandoff, Fail, StopRun, Ending
  <1>2. CASE ~Fail
    <2>1. /\ step = "attest" /\ step' = "upload" /\ signed' = FilesOf(Handoff)
          /\ UNCHANGED <<verified, cancelled, failed, files, admissible, rejected,
                         captured, checked, decision>>
      BY <1>2 DEF AttestHandoff, Succeed, writer
    <2>2. /\ Offered /\ signed = NoFiles /\ admissible = NoFiles /\ rejected = NoFiles
          /\ failed = FALSE
      BY <2>1 DEF Handling, Published, Ending
    <2>3. /\ DOMAIN FilesOf(Handoff) = Handoff
          /\ FilesOf(Handoff) # NoFiles
          /\ LawfulHandoff(FilesOf(Handoff))
      BY <2>2, OfferIsLawful DEF IInv
    <2>4. Offered' /\ FilesOf(Handoff)' = FilesOf(Handoff)
      BY <2>1, <2>2 DEF Offered, FilesOf, Present
    <2>5. Published'
      BY <2>1, <2>2, <2>3, <2>4 DEF Published, Ending
    <2>6. Compared'
      BY <2>1 DEF Handling, Compared, Handing, WithDecision, Explained, Enforced
    <2>7. Handed!Sign
      BY <2>1, <2>2, <2>3, NothingIsNoFiles DEF Handed!Sign, Handed!Open, Standing, Ending
    <2> QED  BY <2>1, <2>4, <2>5, <2>6, <2>7 DEF Handling
  <1> QED  BY <1>1, <1>2

(* The upload hands on the files compared, whole, and only once.           *)
LEMMA UploadHandles ==
  ASSUME IInv, Handling, Standing, UploadAdmissible, UNCHANGED <<world, writer>>
  PROVE  Handling' /\ (Handed!Admit \/ (UNCHANGED products /\ step # "done" /\ step' # "done"))
  <1>1. CASE Fail
    BY <1>1, FailHandles DEF UploadAdmissible, Fail, StopRun, Ending
  <1>2. CASE ~Fail
    <2>1. /\ step = "upload" /\ step' = "diagnose" /\ admissible' = FilesOf(Handoff)
          /\ UNCHANGED <<verified, cancelled, failed, files, signed, rejected,
                         captured, checked, decision>>
      BY <1>2 DEF UploadAdmissible, Succeed, writer
    <2>2. /\ signed = FilesOf(Handoff) /\ DOMAIN signed = Handoff
          /\ admissible = NoFiles /\ failed = FALSE /\ rejected = NoFiles
      BY <2>1 DEF Handling, Published, Ending
    <2>3. signed # NoFiles
      BY <2>2 DEF NoFiles, Handoff
    <2>4. Published'
      BY <2>1, <2>2 DEF Published, Ending
    <2>5. Compared'
      BY <2>1 DEF Handling, Compared, Handing, WithDecision, Explained, Enforced
    <2>6. Handed!Admit
      BY <2>1, <2>2, <2>3, NothingIsNoFiles DEF Handed!Admit, Handed!Open, Standing, Ending
    <2> QED  BY <2>1, <2>4, <2>5, <2>6 DEF Handling
  <1> QED  BY <1>1, <1>2

(* Keeping the rejected files apart is no step of the handoff.             *)
LEMMA EndHandles ==
  ASSUME Handling, UploadRejected, UNCHANGED <<world, writer>>
  PROVE  Handling' /\ Handed!End
  <1>1. /\ step = "diagnose" /\ step' = "done"
        /\ UNCHANGED <<verified, cancelled, failed, files, signed, admissible,
                       captured, checked, decision>>
        /\ \/ rejected' = NoFiles
           \/ /\ failed # FALSE /\ ~cancelled /\ verified
              /\ rejected' = FilesOf(Diagnostics)
    BY DEF UploadRejected, Succeed, writer
  <1>2. rejected = NoFiles /\ (failed # FALSE => admissible = NoFiles)
    BY <1>1 DEF Handling, Published
  <1>3. DOMAIN FilesOf(Diagnostics) \subseteq Diagnostics
    BY DEF FilesOf, Present
  <1>4. Handed!End
    BY <1>1, <1>2, <1>3, NothingIsNoFiles DEF Handed!End
  <1>5. Published'
    BY <1>1, <1>2 DEF Published, Ending
  <1>6. Compared'
    BY <1>1 DEF Handling, Compared, Handing, WithDecision, Explained, Enforced
  <1> QED  BY <1>1, <1>4, <1>5, <1>6 DEF Handling

(* Only the verification and a cancellation touch what the run may still   *)
(* publish; the handoff is reached behind a verified provenance only.      *)
LEMMA StepsStand ==
  ASSUME IInv, Standing, Steps
  PROVE  /\ Standing' /\ cancelled' = cancelled
         /\ verified' = verified \/ (step = "verify" /\ step' = "scan-sbom" /\ verified' = TRUE)
  <1>1. /\ cancelled' = cancelled /\ step # "done"
        /\ verified' = verified \/ (step = "verify" /\ step' = "scan-sbom" /\ verified' = TRUE)
        /\ step = "diagnose" => step' = "done"
        /\ step' = "attest" => step = "document"
        /\ step' = "upload" => step = "attest"
    <2>1. CASE SharedSteps \/ ScanSbom \/ ScanReport
      BY <2>1 DEF SharedSteps, ResolveContext, VerifyProvenance, AttestHandoff, UploadAdmissible,
        UploadRejected, ScanSbom, ScanReport, Scan, Leave, Continue, Succeed, Fail, StopRun
    <2>2. CASE WriterSteps
      BY <2>2 DEF WriterSteps, CaptureMember, Capture, AcquirePolicy, CompletePolicy, Evaluate,
        Decided, WriteDiagnostic, AppendSummary, RequireNoBlockers, RequireUnchanged,
        WriteDocument, Refuse, Leave, Continue, Succeed, Fail, StopRun
    <2> QED  BY <2>1, <2>2 DEF Steps
  <1>2. step = "document" => verified
    BY DEF IInv, Progress, BehindProvenance, WithPolicy, WithDecision, Explained, Enforced
  <1> QED  BY <1>1, <1>2 DEF Standing, Ending

(* A step that publishes nothing is a stutter of the handoff, unless it is *)
(* the verification.                                                       *)
LEMMA QuietSteps ==
  ASSUME IInv, Standing, Steps, UNCHANGED products, step # "done", step' # "done"
  PROVE  [Handed!Next]_(Handed!vars)
  <1>1. /\ cancelled' = cancelled
        /\ verified' = verified \/ (step = "verify" /\ step' = "scan-sbom" /\ verified' = TRUE)
    BY StepsStand
  <1>2. CASE verified' = verified
    BY <1>1, <1>2 DEF Handed!vars, Handed!products, products
  <1>3. CASE step = "verify" /\ verified' = TRUE
    <2>1. Handed!Verify
      BY <1>1, <1>3 DEF Handed!Verify, Handed!Open, Handed!products, products, Standing, Ending
    <2> QED  BY <2>1 DEF Handed!Next
  <1> QED  BY <1>1, <1>2, <1>3

(* If no member changes after its second comparison, what the run signs is *)
(* a complete, consistent and approved handoff, exactly that is admitted,  *)
(* rejected diagnostics never accompany it, and nothing is published after *)
(* a cancellation: the run implements EvidenceHandoff                      *)
(* (candidate-v3.mts:45-58, action.yml:111-132).                           *)
THEOREM HandoffIsKept ==
  ASSUME Undisturbed
  PROVE  Spec => ImplementsHandoff
  <1>1. Init => Handed!Init
    BY NothingIsNoFiles DEF Init, RunInit, Handed!Init
  <1>2. IInv /\ Handling /\ Standing /\ [Next]_vars =>
          Handling' /\ Standing' /\ [Handed!Next]_(Handed!vars)
    <2> SUFFICES ASSUME IInv, Handling, Standing, [Next]_vars
                 PROVE  Handling' /\ Standing' /\ [Handed!Next]_(Handed!vars)
      OBVIOUS
    <2>1. CASE UNCHANGED vars
      BY <2>1 DEF vars, world, writer, runVars, products, Handling, Compared, Offered, Published,
        FilesOf, Present, Standing, Handed!vars, Handed!products
    <2>2. CASE World
      <3>1. UNCHANGED <<verified, cancelled, products, step>>
        BY <2>2 DEF World, runVars
      <3> QED  BY <2>2, <3>1, WorldHandles DEF products, Standing, Handed!vars, Handed!products
    <2>3. CASE ChangeMember(Contents) /\ UNCHANGED <<world, writer>>
      <3>1. UNCHANGED <<verified, cancelled, products, step>>
        BY <2>3 DEF ChangeMember
      <3> QED  BY <2>3, <3>1, ChangesHandle DEF products, Standing, Handed!vars, Handed!products
    <2>4. CASE Cancel /\ UNCHANGED <<world, writer>>
      <3>1. Handling' /\ UNCHANGED products /\ step # "done"
        BY <2>4, CancelHandles
      <3>2. ~cancelled /\ cancelled' = TRUE /\ UNCHANGED verified /\ step' \in Ending
        BY <2>4 DEF Cancel, Ending
      <3>3. Handed!Cancel
        BY <3>1, <3>2 DEF Handed!Cancel, Handed!Open, Handed!products, products
      <3> QED  BY <3>1, <3>2, <3>3 DEF Handed!Next, Standing, Ending
    <2>5. CASE Steps
      <3>1. Standing'
        BY <2>5, StepsStand
      <3>2. CASE AttestHandoff /\ UNCHANGED <<world, writer>>
        BY <2>5, <3>1, <3>2, AttestHandles, QuietSteps DEF Handed!Next
      <3>3. CASE UploadAdmissible /\ UNCHANGED <<world, writer>>
        BY <2>5, <3>1, <3>3, UploadHandles, QuietSteps DEF Handed!Next
      <3>4. CASE UploadRejected /\ UNCHANGED <<world, writer>>
        BY <3>1, <3>4, EndHandles DEF Handed!Next
      <3>5. CASE /\ ResolveContext \/ VerifyProvenance \/ ScanSbom \/ ScanReport
                 /\ UNCHANGED <<world, writer>>
        BY <2>5, <3>1, <3>5, EarlyStepsHandle, QuietSteps
      <3>6. CASE WriterSteps /\ UNCHANGED world
        BY <2>5, <3>1, <3>6, CaptureHandles, DecisionHandles, RecheckHandles, DocumentHandles,
          QuietSteps DEF WriterSteps
      <3> QED  BY <2>5, <3>2, <3>3, <3>4, <3>5, <3>6 DEF Steps, SharedSteps
    <2> QED  BY <2>1, <2>2, <2>3, <2>4, <2>5 DEF Next
  <1>3. Init => Standing
    BY DEF Init, RunInit, Standing
  <1> QED  BY <1>1, <1>2, <1>3, InitHandles, Invariance, PTL
    DEF Spec, ImplementsHandoff, Handed!Spec
-----------------------------------------------------------------------------
(* The types, whatever changes and when.                                   *)
Snapshots == [revision : DOMAIN Policies, pinnedAt : Int, completeAt : Int]
Acquired == {"acquiring", "evaluate"}
Undecided == {"context", "verify", "scan-sbom", "scan-report", "capture", "acquire"} \cup Acquired

RunTypes ==
  /\ changes \in 0 .. MaxChanges /\ step \in StepNames
  /\ failed \in BOOLEAN /\ cancelled \in BOOLEAN /\ verified \in BOOLEAN
ClockTypes == wall \in 0 .. MaxTime /\ policyMain \in DOMAIN Policies
FilesTypes ==
  /\ DOMAIN files = FileNames
  /\ \A m \in Members : files[m] \in Contents[m] \cup {Absent}
ProductTypes ==
  /\ DOMAIN signed \subseteq Handoff /\ DOMAIN admissible \subseteq Handoff
  /\ DOMAIN rejected \subseteq Diagnostics
CaptureTypes ==
  /\ DOMAIN captured \subseteq Members
  /\ \A m \in DOMAIN captured : captured[m] \in Contents[m]
  /\ checked \subseteq DOMAIN captured
WriterTypes ==
  /\ policy \in {None} \cup Snapshots
  /\ policy # None => DOMAIN captured = Members
  /\ decision # None => policy # None /\ decision.revision = policy.revision
WrittenTypes ==
  /\ files["diagnostic"] \in {Absent, decision}
  /\ files["document"] # Absent => files["diagnostic"] = decision /\ decision # None

(* What each step finds of the steps before it.                            *)
Sequenced ==
  /\ step \in Undecided =>
       decision = None /\ files["diagnostic"] = Absent /\ files["document"] = Absent
  /\ step = "acquire" => DOMAIN captured = Members
  /\ step \in Acquired => policy # None
  /\ step \in WithDecision => decision # None
  /\ step \in Explained => files["diagnostic"] = decision

TInv ==
  /\ RunTypes /\ ClockTypes /\ FilesTypes /\ ProductTypes
  /\ CaptureTypes /\ WriterTypes /\ WrittenTypes /\ Sequenced

(* The parts make up TypeOK.                                               *)
LEMMA TypeParts == TInv => TypeOK
  <1> SUFFICES ASSUME TInv PROVE TypeOK
    OBVIOUS
  <1>1. RunTypeOK(Contents, StepNames)
    BY DEF TInv, RunTypes, FilesTypes, ProductTypes, RunTypeOK
  <1>2. policy # None => policy.revision \in DOMAIN Policies
    BY DEF TInv, WriterTypes, Snapshots
  <1> QED  BY <1>1, <1>2 DEF TInv, ClockTypes, CaptureTypes, WriterTypes, WrittenTypes, TypeOK

(* The initial states are typed.                                           *)
LEMMA InitTypes == Init => TInv
  <1> SUFFICES ASSUME Init PROVE TInv
    OBVIOUS
  <1> USE DEF Init, RunInit
  <1>1. RunTypes
    <2>1. changes \in 0 .. MaxChanges
      BY ChangesAssumption
    <2>2. step \in StepNames
      BY DEF StepNames
    <2>3. failed \in BOOLEAN /\ cancelled \in BOOLEAN /\ verified \in BOOLEAN
      BY Zenon
    <2> QED  BY <2>1, <2>2, <2>3 DEF RunTypes
  <1>2. ClockTypes
    BY EvidenceAssumption DEF ClockTypes
  <1>3. FilesTypes /\ WrittenTypes
    BY DEF FilesTypes, WrittenTypes, FileNames, Handoff, Members
  <1>4. ProductTypes /\ CaptureTypes
    BY DEF ProductTypes, CaptureTypes, NoFiles
  <1>5. WriterTypes
    BY DEF WriterTypes
  <1>6. Sequenced
    BY DEF Sequenced, Acquired, WithDecision, Explained, Enforced, FileNames, Handoff
  <1> QED  BY <1>1, <1>2, <1>3, <1>4, <1>5, <1>6 DEF TInv

(* The files that exist among some names are named so.                     *)
LEMMA PresentFiles ==
  ASSUME NEW names
  PROVE  DOMAIN FilesOf(names) \subseteq names
  BY DEF FilesOf, Present

(* A member may be written with any content it may have.                   *)
LEMMA WrittenMember ==
  ASSUME FilesTypes, NEW m \in Members, NEW content \in Contents[m] \cup {Absent},
         files' = [files EXCEPT ![m] = content]
  PROVE  /\ FilesTypes'
         /\ files'["document"] = files["document"] /\ files'["diagnostic"] = files["diagnostic"]
  BY DEF FilesTypes, FileNames, Handoff, Members

(* A step that ends the run, or retreats to its last step.                 *)
LEMMA RetreatTypes ==
  ASSUME TInv, step' \in Ending,
         UNCHANGED <<changes, verified, files, signed, admissible, world, writer>>,
         failed' \in BOOLEAN, cancelled' \in BOOLEAN, DOMAIN rejected' \subseteq Diagnostics
  PROVE  TInv'
  <1>1. RunTypes' /\ FilesTypes' /\ ProductTypes'
    BY DEF TInv, RunTypes, FilesTypes, ProductTypes, Ending, StepNames
  <1>2. ClockTypes' /\ CaptureTypes' /\ WriterTypes' /\ WrittenTypes'
    BY DEF TInv, ClockTypes, CaptureTypes, WriterTypes, WrittenTypes, world, writer
  <1>3. Sequenced'
    BY DEF Sequenced, Ending, Undecided, Acquired, WithDecision, Explained, Enforced
  <1> QED  BY <1>1, <1>2, <1>3 DEF TInv

(* A step that fails.                                                      *)
LEMMA FailTypes ==
  ASSUME TInv, Fail, UNCHANGED <<world, writer>>
  PROVE  TInv'
  BY RetreatTypes DEF Fail, StopRun, products, Ending, TInv, RunTypes, ProductTypes

(* The clock and the policy's main.                                        *)
LEMMA WorldTypes ==
  ASSUME TInv, World
  PROVE  TInv'
  <1>1. UNCHANGED <<writer, runVars>>
    BY DEF World
  <1>2. ClockTypes'
    BY EvidenceAssumption DEF World, Tick, SetClockBack, MergePolicy, TInv, ClockTypes
  <1>3. RunTypes' /\ FilesTypes' /\ ProductTypes'
    BY <1>1 DEF TInv, RunTypes, FilesTypes, ProductTypes, runVars, products
  <1>4. CaptureTypes' /\ WriterTypes' /\ WrittenTypes' /\ Sequenced'
    BY <1>1 DEF TInv, CaptureTypes, WriterTypes, WrittenTypes, Sequenced, writer, runVars
  <1> QED  BY <1>2, <1>3, <1>4 DEF TInv

(* Another process and a cancellation.                                     *)
LEMMA ChangesTypes ==
  ASSUME TInv, ChangeMember(Contents) \/ Cancel, UNCHANGED <<world, writer>>
  PROVE  TInv'
  <1>1. CASE Cancel
    BY <1>1, RetreatTypes DEF Cancel, products, Ending, TInv, RunTypes, ProductTypes
  <1>2. CASE ChangeMember(Contents)
    <2>1. /\ changes < MaxChanges /\ changes' = changes + 1
          /\ UNCHANGED <<step, failed, cancelled, verified, products>>
      BY <1>2 DEF ChangeMember
    <2>2. /\ FilesTypes'
          /\ files'["document"] = files["document"] /\ files'["diagnostic"] = files["diagnostic"]
      BY <1>2, WrittenMember DEF ChangeMember, Present, TInv
    <2>3. RunTypes' /\ ProductTypes'
      BY <2>1, ChangesAssumption DEF TInv, RunTypes, ProductTypes, products
    <2>4. ClockTypes' /\ CaptureTypes' /\ WriterTypes'
      BY DEF TInv, ClockTypes, CaptureTypes, WriterTypes, world, writer
    <2>5. WrittenTypes' /\ Sequenced'
      BY <2>1, <2>2 DEF TInv, WrittenTypes, Sequenced, writer
    <2> QED  BY <2>2, <2>3, <2>4, <2>5 DEF TInv
  <1> QED  BY <1>1, <1>2

(* The first steps and the scans.                                          *)
LEMMA EarlyTypes ==
  ASSUME TInv, ResolveContext \/ VerifyProvenance \/ ScanSbom \/ ScanReport,
         UNCHANGED <<world, writer>>
  PROVE  TInv'
  <1>1. /\ UNCHANGED <<changes, cancelled, products>>
        /\ \/ /\ step \in {"context", "verify", "scan-sbom", "scan-report"}
              /\ step' \in {"verify", "scan-sbom", "scan-report", "capture"}
              /\ UNCHANGED failed
           \/ step' = "diagnose" /\ failed' = TRUE
        /\ verified' \in {verified, TRUE}
    BY DEF ResolveContext, VerifyProvenance, ScanSbom, ScanReport, Scan, Continue, Succeed, Fail,
      StopRun, Leave, products
  <1>2. /\ FilesTypes'
        /\ files'["document"] = files["document"] /\ files'["diagnostic"] = files["diagnostic"]
    <2>1. UNCHANGED files \/ \E m \in Members : \E content \in Contents[m] :
                               files' = [files EXCEPT ![m] = content]
      BY DEF ResolveContext, VerifyProvenance, ScanSbom, ScanReport, Scan, Continue, Succeed, Fail,
        StopRun, Leave, Members, Contents
    <2> QED  BY <2>1, WrittenMember DEF TInv, FilesTypes
  <1>3. RunTypes'
    BY <1>1 DEF TInv, RunTypes, StepNames
  <1>4. ProductTypes' /\ ClockTypes' /\ CaptureTypes' /\ WriterTypes'
    BY <1>1 DEF TInv, ProductTypes, products, ClockTypes, CaptureTypes, WriterTypes, world, writer
  <1>5. WrittenTypes' /\ Sequenced'
    BY <1>1, <1>2 DEF TInv, WrittenTypes, Sequenced, writer, Undecided, Acquired, WithDecision,
      Explained, Enforced
  <1> QED  BY <1>2, <1>3, <1>4, <1>5 DEF TInv

(* The attestation and the uploads.                                        *)
LEMMA PublishingTypes ==
  ASSUME TInv, AttestHandoff \/ UploadAdmissible \/ UploadRejected, UNCHANGED <<world, writer>>
  PROVE  TInv'
  <1>1. CASE Fail
    BY <1>1, FailTypes
  <1>2. CASE ~Fail
    <2>1. /\ UNCHANGED <<changes, failed, cancelled, verified, files>>
          /\ step' \in {"upload"} \cup Ending
          /\ signed' \in {signed, FilesOf(Handoff)}
          /\ admissible' \in {admissible, FilesOf(Handoff)}
          /\ rejected' \in {rejected, FilesOf(Diagnostics), NoFiles}
      BY <1>2 DEF AttestHandoff, UploadAdmissible, UploadRejected, Succeed, Ending
    <2>2. RunTypes' /\ FilesTypes'
      BY <2>1 DEF TInv, RunTypes, FilesTypes, StepNames, Ending
    <2>3. DOMAIN NoFiles \subseteq Diagnostics
      BY DEF NoFiles
    <2>4. ProductTypes'
      BY <2>1, <2>3, PresentFiles DEF TInv, ProductTypes
    <2>5. ClockTypes' /\ CaptureTypes' /\ WriterTypes' /\ WrittenTypes'
      BY <2>1 DEF TInv, ClockTypes, CaptureTypes, WriterTypes, WrittenTypes, world, writer
    <2>6. Sequenced'
      BY <2>1 DEF Sequenced, Ending, Undecided, Acquired, WithDecision, Explained, Enforced
    <2> QED  BY <2>2, <2>4, <2>5, <2>6 DEF TInv
  <1> QED  BY <1>1, <1>2

(* A step of the writer leaves the flags and the products alone.           *)
LEMMA WriterLeavesRun ==
  ASSUME TInv, UNCHANGED <<changes, failed, cancelled, verified, products, world>>,
         step' \in StepNames
  PROVE  RunTypes' /\ ProductTypes' /\ ClockTypes'
  BY DEF TInv, RunTypes, ProductTypes, ClockTypes, products, world

(* Capture and acquisition.                                                *)
LEMMA CaptureTypesStep ==
  ASSUME TInv, UNCHANGED world, CaptureMember \/ AcquirePolicy \/ CompletePolicy
  PROVE  TInv'
  <1>1. CASE Refuse
    BY <1>1, FailTypes DEF Refuse
  <1>2. CASE ~Refuse
    <2>1. UNCHANGED <<changes, failed, cancelled, verified, files, products, checked, decision>>
      BY <1>2 DEF CaptureMember, AcquirePolicy, CompletePolicy, Capture, Continue, Succeed
    <2>2. /\ step \in {"capture", "acquire", "acquiring"}
          /\ step' \in {"capture", "acquire", "acquiring", "evaluate"}
      BY <1>2 DEF CaptureMember, AcquirePolicy, CompletePolicy, Capture, Continue, Succeed
    <2>3. RunTypes' /\ ProductTypes' /\ ClockTypes' /\ FilesTypes'
      BY <2>1, <2>2, WriterLeavesRun DEF StepNames, TInv, FilesTypes
    <2>4. decision = None /\ files["diagnostic"] = Absent /\ files["document"] = Absent
      BY <2>2 DEF TInv, Sequenced, Undecided, Acquired
    <2>5. /\ CaptureTypes' /\ WriterTypes'
          /\ step' = "acquire" => DOMAIN captured' = Members
          /\ step' \in Acquired => policy' # None
      <3>1. CASE CaptureMember
        <4>1. PICK m \in Members \ DOMAIN captured : Capture(m)
          BY <1>2, <3>1 DEF CaptureMember
        <4>2. /\ files[m] \in Contents[m]
              /\ DOMAIN captured' = DOMAIN captured \cup {m}
              /\ \A n \in DOMAIN captured : n # m => captured'[n] = captured[n]
              /\ captured'[m] = files[m]
              /\ step' = IF DOMAIN captured' = Members THEN "acquire" ELSE "capture"
              /\ UNCHANGED policy
          BY <4>1 DEF Capture, Continue, Succeed, TInv, FilesTypes
        <4>3. policy = None
          BY <4>1 DEF TInv, WriterTypes
        <4> QED  BY <2>1, <2>4, <4>1, <4>2, <4>3 DEF TInv, CaptureTypes, WriterTypes, Acquired
      <3>2. CASE AcquirePolicy
        <4>1. /\ step = "acquire" /\ step' = "acquiring" /\ UNCHANGED captured
              /\ policy' = [revision |-> policyMain, pinnedAt |-> wall, completeAt |-> wall]
          BY <1>2, <3>2 DEF AcquirePolicy, Continue, Succeed
        <4>2. policy' \in Snapshots
          BY <4>1 DEF Snapshots, TInv, ClockTypes
        <4>3. policy' # None
          BY <4>1 DEF None
        <4> QED  BY <2>1, <2>4, <4>1, <4>2, <4>3 DEF TInv, CaptureTypes, WriterTypes, Sequenced
      <3>3. CASE CompletePolicy
        <4>1. /\ step = "acquiring" /\ step' = "evaluate" /\ UNCHANGED captured
              /\ policy' = [policy EXCEPT !.completeAt = wall]
          BY <1>2, <3>3 DEF CompletePolicy, Continue, Succeed
        <4>2. policy \in Snapshots /\ DOMAIN captured = Members
          BY <4>1 DEF TInv, WriterTypes, Sequenced, Acquired
        <4>3. policy' \in Snapshots
          BY <4>1, <4>2 DEF Snapshots, TInv, ClockTypes
        <4>4. policy' # None
          BY <4>3 DEF None, Snapshots
        <4> QED  BY <2>1, <2>4, <4>1, <4>2, <4>3, <4>4 DEF TInv, CaptureTypes, WriterTypes
      <3> QED  BY <3>1, <3>2, <3>3
    <2>6. WrittenTypes'
      BY <2>1, <2>4 DEF WrittenTypes
    <2>7. Sequenced'
      BY <2>1, <2>2, <2>4, <2>5 DEF Sequenced, WithDecision, Explained, Enforced
    <2> QED  BY <2>3, <2>5, <2>6, <2>7 DEF TInv
  <1> QED  BY <1>1, <1>2

(* The decision and what is written of it.                                 *)
LEMMA DecisionTypes ==
  ASSUME TInv, UNCHANGED world,
         Evaluate \/ WriteDiagnostic \/ AppendSummary \/ RequireNoBlockers
  PROVE  TInv'
  <1>1. CASE Fail
    <2>1. UNCHANGED writer
      BY <1>1 DEF Evaluate, Decided, WriteDiagnostic, AppendSummary, RequireNoBlockers, Refuse,
        Fail, StopRun, Continue, Succeed
    <2> QED  BY <1>1, <2>1, FailTypes
  <1>2. CASE ~Fail
    <2>1. UNCHANGED <<changes, failed, cancelled, verified, products, captured, checked, policy>>
      BY <1>2 DEF Evaluate, Decided, WriteDiagnostic, AppendSummary, RequireNoBlockers, Refuse,
        Leave, Continue, Succeed, writer
    <2>2. \/ /\ step = "evaluate" /\ step' = "diagnostic" /\ UNCHANGED files
             /\ decision' = Evaluation(captured["report"], wall)
          \/ /\ step = "diagnostic" /\ step' = "summary" /\ UNCHANGED decision
             /\ files' = [files EXCEPT !["diagnostic"] = decision]
          \/ /\ step \in {"summary", "gate"} /\ step' \in {"gate", "recheck"}
             /\ UNCHANGED <<files, decision>>
      BY <1>2 DEF Evaluate, Decided, WriteDiagnostic, AppendSummary, RequireNoBlockers, Refuse,
        Leave, Continue, Succeed, writer
    <2>3. RunTypes' /\ ProductTypes' /\ ClockTypes'
      BY <2>1, <2>2, WriterLeavesRun DEF StepNames
    <2>4. FilesTypes'
      BY <2>2 DEF TInv, FilesTypes, FileNames, Handoff, Members
    <2>5. CaptureTypes'
      BY <2>1 DEF TInv, CaptureTypes
    <2>6. step = "evaluate" => decision' # None /\ decision'.revision = policy.revision
      BY <2>2 DEF Evaluation, None
    <2>7. WriterTypes'
      BY <2>1, <2>2, <2>6 DEF TInv, WriterTypes, Sequenced, Acquired
    <2>8. step = "evaluate" => files["diagnostic"] = Absent /\ files["document"] = Absent
      BY DEF TInv, Sequenced, Undecided, Acquired
    <2>9. step = "diagnostic" =>
            files'["diagnostic"] = decision /\ files'["document"] = files["document"]
      BY <2>2 DEF TInv, FilesTypes, FileNames, Handoff
    <2>10. WrittenTypes'
      BY <2>2, <2>8, <2>9 DEF TInv, WrittenTypes
    <2>11. Sequenced'
      BY <2>2, <2>6, <2>9 DEF TInv, Sequenced, Undecided, Acquired, WithDecision, Explained,
        Enforced
    <2> QED  BY <2>3, <2>4, <2>5, <2>7, <2>10, <2>11 DEF TInv
  <1> QED  BY <1>1, <1>2

(* The second comparison and the document.                                 *)
LEMMA DocumentTypes ==
  ASSUME TInv, UNCHANGED world, RequireUnchanged \/ WriteDocument
  PROVE  TInv'
  <1>1. CASE Fail
    <2>1. UNCHANGED writer
      BY <1>1 DEF RequireUnchanged, WriteDocument, Refuse, Fail, StopRun, Continue, Succeed
    <2> QED  BY <1>1, <2>1, FailTypes
  <1>2. CASE ~Fail
    <2>1. /\ UNCHANGED <<changes, failed, cancelled, verified, products, captured, policy, decision>>
          /\ \/ /\ step = "recheck" /\ step' \in {"recheck", "document"} /\ UNCHANGED files
                /\ \E m \in Members : checked' = checked \cup {m}
             \/ /\ step = "document" /\ step' = "attest" /\ UNCHANGED checked
                /\ files' = [files EXCEPT !["document"] = CandidateDocument]
      BY <1>2 DEF RequireUnchanged, WriteDocument, Refuse, Leave, Continue, Succeed, writer
    <2>2. decision # None /\ files["diagnostic"] = decision /\ DOMAIN captured = Members
      BY <2>1 DEF TInv, Sequenced, WriterTypes, WithDecision, Explained, Enforced
    <2>3. RunTypes' /\ ProductTypes' /\ ClockTypes'
      BY <2>1, WriterLeavesRun DEF StepNames
    <2>4. FilesTypes' /\ files'["diagnostic"] = files["diagnostic"]
      BY <2>1 DEF TInv, FilesTypes, FileNames, Handoff, Members
    <2>5. CaptureTypes'
      BY <2>1, <2>2 DEF TInv, CaptureTypes
    <2>6. WriterTypes' /\ WrittenTypes'
      BY <2>1, <2>2, <2>4 DEF TInv, WriterTypes, WrittenTypes
    <2>7. Sequenced'
      BY <2>1, <2>2, <2>4 DEF Sequenced, Undecided, Acquired, WithDecision, Explained, Enforced
    <2> QED  BY <2>3, <2>4, <2>5, <2>6, <2>7 DEF TInv
  <1> QED  BY <1>1, <1>2

(* TypeOK of HostedEvidence, for any number of changes at any step: in     *)
(* particular the policy is acquired for all captured members, the         *)
(* decision is made under that policy, and no document exists without the  *)
(* decision on disk (candidate-v3.mts:24-58).                              *)
THEOREM TypeCorrect == Spec => []TypeOK
  <1>1. TInv /\ [Next]_vars => TInv'
    <2> SUFFICES ASSUME TInv, [Next]_vars PROVE TInv'
      OBVIOUS
    <2>1. CASE UNCHANGED vars
      BY <2>1 DEF vars, world, writer, runVars, products, TInv, RunTypes, ClockTypes, FilesTypes,
        ProductTypes, CaptureTypes, WriterTypes, WrittenTypes, Sequenced
    <2>2. CASE Next
      BY <2>2, WorldTypes, ChangesTypes, EarlyTypes, PublishingTypes, CaptureTypesStep,
        DecisionTypes, DocumentTypes
      DEF Next, Steps, SharedSteps, WriterSteps
    <2> QED  BY <2>1, <2>2
  <1> QED  BY <1>1, InitTypes, TypeParts, PTL DEF Spec
=============================================================================
