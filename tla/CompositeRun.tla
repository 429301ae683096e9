---------------------------- MODULE CompositeRun ----------------------------
(***************************************************************************)
(* What a run of the composite action action.yml does under either         *)
(* contract version: the order and the conditions of its steps, the        *)
(* provenance, the attestation of the four-file handoff and the uploads,   *)
(* while another process touches the evidence members and the run may be   *)
(* cancelled.  HostedEvidence (v1alpha3) and LegacyEvidence (v1alpha2) add *)
(* the steps between provenance and attestation.                           *)
(***************************************************************************)
EXTENDS Integers

CONSTANTS
  MaxChanges,      \* how often another process may change a member
  UnstableSteps    \* steps during which it may

ASSUME ChangesAssumption == MaxChanges \in Nat

VARIABLES
  changes,      \* how often a member was changed by another process
  step,         \* the step of the composite action, or of its writer
  failed,       \* failure()
  cancelled,    \* cancelled()
  verified,     \* steps.verify-provenance.outcome == 'success'
  files,        \* content of security-evidence, by file
  signed,       \* subjects of the handoff attestation, by file
  admissible,   \* content of the admissible artifact, by file
  rejected      \* content of the rejected diagnostics artifact, by file

products == <<signed, admissible, rejected>>
runVars == <<changes, step, failed, cancelled, verified, files, products>>

Members == {"provenance", "sbom", "report"}
Handoff == Members \cup {"document"}
Diagnostics == {"sbom", "report", "diagnostic"}
FileNames == Handoff \cup {"diagnostic"}

Absent == [absent |-> TRUE]
NoFiles == [name \in {} |-> Absent]

Original == [bytes |-> {}, version |-> 1]
Replaced == [bytes |-> {}, version |-> 2]

Present(names) == {n \in names : files[n] # Absent}
FilesOf(names) == [n \in Present(names) |-> files[n]]

RunInit ==
  /\ changes = 0
  /\ step = "context"
  /\ failed = FALSE
  /\ cancelled = FALSE
  /\ verified = FALSE
  /\ files = [n \in FileNames |-> Absent]
  /\ signed = NoFiles
  /\ admissible = NoFiles
  /\ rejected = NoFiles

-----------------------------------------------------------------------------
(* Environment.                                                            *)
Running == step # "done"

(* Another process of the job rewrites or removes an evidence member.      *)
ChangeMember(contents) ==
  /\ step \in UnstableSteps /\ changes < MaxChanges
  /\ \E m \in Present(Members) :
       \E content \in (contents[m] \cup {Absent}) \ {files[m]} :
         files' = [files EXCEPT ![m] = content]
  /\ changes' = changes + 1
  /\ UNCHANGED <<step, failed, cancelled, verified, products>>

(* The run is cancelled: only the condition of the last step is evaluated. *)
Cancel ==
  /\ Running /\ ~cancelled
  /\ cancelled' = TRUE
  /\ step' = IF step = "diagnose" THEN "done" ELSE "diagnose"
  /\ UNCHANGED <<changes, failed, verified, files, products>>

-----------------------------------------------------------------------------
(* Composite steps.  A failed step skips every later one except the upload *)
(* of rejected diagnostics.                                                *)
Succeed(next) ==
  /\ step' = next
  /\ UNCHANGED <<changes, failed, cancelled>>

(* A step that succeeds without touching any file.                         *)
Continue(next) == Succeed(next) /\ UNCHANGED <<verified, files, products>>

(* A step that leaves a file behind.                                       *)
Leave(name, content) ==
  /\ files' = [files EXCEPT ![name] = content]
  /\ UNCHANGED <<verified, products>>

StopRun ==
  /\ step' = "diagnose"
  /\ failed' = TRUE
  /\ UNCHANGED <<changes, cancelled>>

Fail == StopRun /\ UNCHANGED <<verified, files, products>>

(* context.mjs and the provenance attestation leave no evidence file.      *)
ResolveContext ==
  /\ step = "context"
  /\ Continue("verify") \/ Fail

(* verify.mjs unlinks its copy of the bundle unless gh verified it; then   *)
(* the copy stays, even when the outputs cannot be appended.               *)
VerifyProvenance ==
  /\ step = "verify"
  /\ \/ /\ files' = [files EXCEPT !["provenance"] = Original]
        /\ \/ verified' = TRUE /\ Succeed("scan-sbom")
           \/ StopRun /\ UNCHANGED verified
        /\ UNCHANGED products
     \/ Fail

(* The external attestation and upload actions take the listed files that  *)
(* exist; they fail when there is none, or on their own.                   *)
AttestHandoff ==
  /\ step = "attest"
  /\ \/ /\ Present(Handoff) # {}
        /\ signed' = FilesOf(Handoff)
        /\ Succeed("upload")
        /\ UNCHANGED <<verified, files, admissible, rejected>>
     \/ Fail

UploadAdmissible ==
  /\ step = "upload"
  /\ \/ /\ Present(Handoff) # {}
        /\ admissible' = FilesOf(Handoff)
        /\ Succeed("diagnose")
        /\ UNCHANGED <<verified, files, signed, rejected>>
     \/ Fail

(* Mutant: every verified run without an admissible artifact keeps its     *)
(* diagnostics, as with `if: always()`, a cancelled one too.               *)
UploadUnlessAdmitted ==
  /\ step = "diagnose"
  /\ rejected' \in IF admissible = NoFiles /\ verified
                   THEN {FilesOf(Diagnostics), NoFiles} ELSE {NoFiles}
  /\ Succeed("done")
  /\ UNCHANGED <<verified, files, signed, admissible>>

(* if: failure() && !cancelled() && verify-provenance succeeded.           *)
UploadRejected ==
  /\ step = "diagnose"
  /\ rejected' \in IF failed /\ ~cancelled /\ verified
                   THEN {FilesOf(Diagnostics), NoFiles} ELSE {NoFiles}
  /\ Succeed("done")
  /\ UNCHANGED <<verified, files, signed, admissible>>

(* The steps both contract versions share.                                 *)
SharedSteps ==
  \/ ResolveContext \/ VerifyProvenance
  \/ AttestHandoff \/ UploadAdmissible \/ UploadRejected

-----------------------------------------------------------------------------
(* Types of the run's state, for members that hold one of contents and a   *)
(* run with the given steps.                                               *)
RunTypeOK(contents, stepNames) ==
  /\ changes \in 0 .. MaxChanges
  /\ step \in stepNames
  /\ {failed, cancelled, verified} \subseteq BOOLEAN
  /\ DOMAIN files = FileNames
  /\ \A m \in Members : files[m] \in contents[m] \cup {Absent}
  /\ DOMAIN signed \subseteq Handoff /\ DOMAIN admissible \subseteq Handoff
  /\ DOMAIN rejected \subseteq Diagnostics

(* A handoff is consistent when it is complete and its document describes  *)
(* the bytes of its members.                                               *)
Consistent(artifact) ==
  /\ DOMAIN artifact = Handoff
  /\ \A m \in Members : artifact[m] = artifact["document"].hashes[m]
=============================================================================
