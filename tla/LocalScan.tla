------------------------------- MODULE LocalScan -------------------------------
(***************************************************************************)
(* One run of the local scan helper: scan.mts, the callbacks of            *)
(* trivy-runner.mts around the docker client, and the shared evaluator     *)
(* run as a subprocess, while the image tag may be moved, the scanner may  *)
(* hang, fail or be interrupted, and the helper itself may be killed.      *)
(***************************************************************************)
EXTENDS Integers, Sequences

CONSTANTS
  Images,        \* image identities the tag may name
  Lengths,       \* lengths of complete scanner reports
  ReportLimit    \* retained report bytes (reportLimit)

ASSUME ScanAssumption == Lengths \subseteq Nat \ {0} /\ ReportLimit \in Nat \ {0}

VARIABLES
  tag,         \* the image the requested tag names now
  version,     \* ScanOptions.version
  pc,          \* where main is
  expectedId,  \* the image identity inspected before the scan
  child,       \* the docker client
  code,        \* its exit status; 1 stands for any other than 0
  container,   \* the scanner container at the daemon
  timer,       \* registerCancellation's timeout
  report,      \* what the scanner writes
  size,        \* report bytes retained
  failure,     \* the reason collectOutput will report
  announced,   \* the operator was told to remove the container
  files,       \* names in the run directory
  evaluator,   \* the evaluator subprocess
  written,     \* how many of its products it has written
  status,      \* its exit status
  outcome,     \* PolicyOutcome.status
  exitCode     \* process.exitCode

vars == <<tag, version, pc, expectedId, child, code, container, timer, report, size,
          failure, announced, files, evaluator, written, status, outcome, exitCode>>
scan == <<child, code, container, timer, report, size, failure, announced>>
evaluation == <<evaluator, written, status, outcome>>

None == "none"
Findings == {"no CRITICAL", "approved CRITICAL", "blocking CRITICAL", "unreadable"}
Reports == [image : Images, length : Lengths, findings : Findings]
NoReport == [none |-> TRUE]
FileNames == {"partial", "vulnerabilities", "summary", "diagnostic", "policy-error", "temporary"}
Failures == {"cannot start", "interrupted", "timeout", "oversized", "scanner"}

Ended == pc \in {"exited", "dead"}
Whole == report # NoReport /\ size = report.length

(* The exit status the evaluator's policy gives a report: without governed *)
(* approvals (v1alpha2) every CRITICAL finding blocks.                     *)
Verdict ==
  IF \/ report.findings = "blocking CRITICAL"
     \/ report.findings = "approved CRITICAL" /\ version = "v1alpha2"
  THEN 1 ELSE 0

-----------------------------------------------------------------------------
Init ==
  /\ tag \in Images
  /\ version \in {"v1alpha2", "v1alpha3"}
  /\ pc = "inspect"
  /\ expectedId = None
  /\ child = None
  /\ code = 0
  /\ container = "absent"
  /\ timer = "off"
  /\ report = NoReport
  /\ size = 0
  /\ failure = None
  /\ announced = FALSE
  /\ files = {}
  /\ evaluator = None
  /\ written = 0
  /\ status = 0
  /\ outcome = 0
  /\ exitCode = 0

-----------------------------------------------------------------------------
(* Environment: a build moves the tag; the helper is killed, by SIGKILL or *)
(* by any signal while no handler is registered.                           *)
Retag ==
  /\ ~Ended
  /\ tag' \in Images \ {tag}
  /\ UNCHANGED <<version, pc, expectedId, scan, files, evaluation, exitCode>>

Die ==
  /\ ~Ended
  /\ pc' = "dead"
  /\ UNCHANGED <<tag, version, expectedId, scan, files, evaluation, exitCode>>

(* Every error ends main with status 2.                                    *)
ExitTwo ==
  /\ pc' = "exited"
  /\ exitCode' = 2

InspectImage ==
  /\ pc = "inspect"
  /\ \/ /\ expectedId' = tag
        /\ pc' = "start"
        /\ UNCHANGED exitCode
     \/ ExitTwo /\ UNCHANGED expectedId
  /\ UNCHANGED <<tag, version, scan, files, evaluation>>

(* The run directory is made, the client spawned and its listeners, timer  *)
(* and signal handlers registered in one turn.  A failed spawn is reported *)
(* by 'error' before anything else, then by 'close'.                       *)
RunTrivy ==
  /\ pc = "start"
  /\ \/ /\ pc' = "scanning"
        /\ timer' = "armed"
        /\ \/ child' = "running" /\ UNCHANGED <<code, failure>>
           \/ child' = "ended" /\ code' = 1 /\ failure' = "cannot start"
        /\ UNCHANGED exitCode
     \/ ExitTwo /\ UNCHANGED <<child, code, failure, timer>>
  /\ UNCHANGED <<tag, version, expectedId, container, report, size, announced, files, evaluation>>

-----------------------------------------------------------------------------
(* The docker client, the daemon and Trivy (external).                     *)

(* A creation still under way when the client ends may come late.          *)
ContainerStarts ==
  /\ ~Ended /\ container = "absent" /\ failure # "cannot start"
  /\ \/ child = "running" /\ container' = "running"
     \/ child = "ended" /\ container' = "late"
  /\ UNCHANGED <<tag, version, pc, expectedId, child, code, timer, report, size,
                 failure, announced, files, evaluation, exitCode>>

(* Trivy resolves the tag by itself.                                       *)
ScannerReports ==
  /\ child = "running" /\ container = "running" /\ report = NoReport /\ ~Ended
  /\ report' \in {r \in Reports : r.image = tag}
  /\ UNCHANGED <<tag, version, pc, expectedId, child, code, container, timer, size,
                 failure, announced, files, evaluation, exitCode>>

(* docker run --rm returns 0 after the container exited and was removed.   *)
ChildEnds ==
  /\ child = "running" /\ ~Ended
  /\ child' = "ended"
  /\ \/ /\ code' = 0
        /\ container = "running" /\ report # NoReport
        /\ container' = "removed"
     \/ code' = 1 /\ UNCHANGED container
  /\ UNCHANGED <<tag, version, pc, expectedId, timer, report, size, failure,
                 announced, files, evaluation, exitCode>>

-----------------------------------------------------------------------------
(* collectOutput.                                                          *)
Collecting == pc = "scanning"

(* Mutant: the client is not killed.                                       *)
StopWithoutKill(message) ==
  /\ failure' = IF failure = None THEN message ELSE failure
  /\ UNCHANGED <<child, code>>

(* Mutant: the last reason wins.                                           *)
StopLastReason(message) ==
  /\ failure' = message
  /\ child' = "ended"
  /\ code' = IF child = "running" THEN 1 ELSE code

(* stop: SIGKILL has no effect on a client that already ended.             *)
Stop(message) ==
  /\ failure' = IF failure = None THEN message ELSE failure
  /\ child' = "ended"
  /\ code' = IF child = "running" THEN 1 ELSE code

(* Mutant: the part of a chunk beyond the limit is retained too.           *)
OnDataUnbounded ==
  /\ Collecting /\ report # NoReport
  /\ \E chunk \in 1 .. report.length - size :
       /\ size' = size + chunk
       /\ IF size + chunk > ReportLimit THEN Stop("oversized")
                                        ELSE UNCHANGED <<child, code, failure>>
  /\ UNCHANGED <<tag, version, pc, expectedId, container, timer, report, announced,
                 files, evaluation, exitCode>>

OnData ==
  /\ Collecting /\ report # NoReport
  /\ \E chunk \in 1 .. report.length - size :
       \/ /\ size + chunk <= ReportLimit
          /\ size' = size + chunk
          /\ UNCHANGED <<child, code, failure>>
       \/ /\ size + chunk > ReportLimit
          /\ size' = ReportLimit
          /\ Stop("oversized")
  /\ UNCHANGED <<tag, version, pc, expectedId, container, timer, report, announced,
                 files, evaluation, exitCode>>

OnInterrupt ==
  /\ Collecting
  /\ Stop("interrupted")
  /\ UNCHANGED <<tag, version, pc, expectedId, container, timer, report, size,
                 announced, files, evaluation, exitCode>>

OnTimeout ==
  /\ Collecting /\ timer = "armed"
  /\ timer' = "off"
  /\ Stop("timeout")
  /\ UNCHANGED <<tag, version, pc, expectedId, container, report, size, announced,
                 files, evaluation, exitCode>>

(* Mutant: the container of a failed scan is left to the daemon.           *)
OnCloseLeaving ==
  /\ Collecting /\ child = "ended"
  /\ timer' = "off"
  /\ failure' = IF code # 0 /\ failure = None THEN "scanner" ELSE failure
  /\ pc' = "save"
  /\ UNCHANGED <<tag, version, expectedId, child, code, container, report, size,
                 announced, files, evaluation, exitCode>>

(* 'close' follows the end of the client and of its pipes; the listeners   *)
(* and the timer are gone afterwards.                                      *)
OnClose ==
  /\ Collecting /\ child = "ended"
  /\ timer' = "off"
  /\ failure' = IF code # 0 /\ failure = None THEN "scanner" ELSE failure
  /\ pc' = IF failure' = None THEN "save" ELSE "cleanup"
  /\ UNCHANGED <<tag, version, expectedId, child, code, container, report, size,
                 announced, files, evaluation, exitCode>>

(* removeScannerContainer: when the bounded docker rm does not succeed,    *)
(* the operator is told; the daemon may have removed the container anyway. *)
RemoveScannerContainer ==
  /\ pc = "cleanup"
  /\ pc' = "save"
  /\ LET gone == IF container = "absent" THEN "absent" ELSE "removed" IN
     \/ container' = gone /\ UNCHANGED announced
     \/ container' \in {container, gone} /\ announced' = TRUE
  /\ UNCHANGED <<tag, version, expectedId, child, code, timer, report, size, failure,
                 files, evaluation, exitCode>>

-----------------------------------------------------------------------------
(* main, from the collected report on.                                     *)
Keep(names) == files' = files \cup names

(* Mutant: the reason collectOutput reported is forgotten.                 *)
SaveIgnoringFailure ==
  /\ pc = "save"
  /\ Keep({"partial"})
  /\ pc' = "validate"
  /\ UNCHANGED <<tag, version, expectedId, scan, evaluation, exitCode>>

(* The bytes are saved before a failed scan ends the run.                  *)
SavePartial ==
  /\ pc = "save"
  /\ \/ failure = None /\ Keep({"partial"}) /\ pc' = "validate" /\ UNCHANGED exitCode
     \/ failure # None /\ Keep({"partial"}) /\ ExitTwo
     \/ files' \in {files, files \cup {"partial"}} /\ ExitTwo
  /\ UNCHANGED <<tag, version, expectedId, scan, evaluation>>

(* Mutant: the scanned image is not compared.                              *)
ValidateUnmatched ==
  /\ pc = "validate"
  /\ \/ Whole /\ pc' = "evaluate" /\ UNCHANGED exitCode
     \/ ~Whole /\ ExitTwo
  /\ UNCHANGED <<tag, version, expectedId, scan, files, evaluation>>

(* A cut report is no JSON.                                                *)
ValidateReportImage ==
  /\ pc = "validate"
  /\ \/ Whole /\ report.image = expectedId /\ pc' = "evaluate" /\ UNCHANGED exitCode
     \/ ~(Whole /\ report.image = expectedId) /\ ExitTwo
  /\ UNCHANGED <<tag, version, expectedId, scan, files, evaluation>>

(* The evaluator's products in the order it writes them.                   *)
Products ==
  IF version = "v1alpha3" THEN <<"diagnostic", "summary", "output">>
                          ELSE <<"output", "summary">>
Written(product) == \E i \in 1 .. written : Products[i] = product

StartEvaluator ==
  /\ pc = "evaluate" /\ evaluator = None
  /\ \/ /\ evaluator' = "running"
        /\ Keep({"temporary"})
        /\ UNCHANGED <<pc, exitCode>>
     \/ ExitTwo /\ UNCHANGED <<evaluator, files>>
  /\ UNCHANGED <<tag, version, expectedId, scan, written, status, outcome>>

EvaluatorWrites ==
  /\ evaluator = "running" /\ ~Ended
  /\ report.findings # "unreadable"
  /\ written < Len(Products)
  /\ written' = written + 1
  /\ Keep({"diagnostic"} \cap {Products[written + 1]})
  /\ UNCHANGED <<tag, version, pc, expectedId, scan, evaluator, status, outcome, exitCode>>

EvaluatorDecides ==
  /\ evaluator = "running" /\ ~Ended
  /\ written = Len(Products)
  /\ evaluator' = "ended"
  /\ status' = Verdict
  /\ UNCHANGED <<tag, version, pc, expectedId, scan, files, written, outcome, exitCode>>

(* A refused report or policy, or a failed write: v1alpha3 leaves an error *)
(* file and exits 2, v1alpha2 exits 1 like a rejection.  A summary cut by  *)
(* a failed write has content.                                             *)
EvaluatorFails ==
  /\ evaluator = "running" /\ ~Ended
  /\ written < Len(Products)
  /\ evaluator' = "ended"
  /\ status' = IF version = "v1alpha3" THEN 2 ELSE 1
  /\ written' \in {written} \cup
       (IF Products[written + 1] = "summary" /\ report.findings # "unreadable"
        THEN {written + 1} ELSE {})
  /\ files' \in {files} \cup
       (IF version = "v1alpha3" THEN {files \cup {"policy-error"}} ELSE {})
  /\ UNCHANGED <<tag, version, pc, expectedId, scan, outcome, exitCode>>

(* spawnSync's timeout.                                                    *)
EvaluatorTimesOut ==
  /\ evaluator = "running" /\ ~Ended
  /\ evaluator' = "killed"
  /\ UNCHANGED <<tag, version, pc, expectedId, scan, files, written, status, outcome, exitCode>>

(* evaluateReport accepts an evaluator that ended by itself, whose output  *)
(* is complete and agrees with its exit status and, for v1alpha3, with its *)
(* diagnostic.                                                             *)
AcceptEvaluation ==
  /\ pc = "evaluate" /\ evaluator = "ended"
  /\ Written("output") /\ Written("summary")
  /\ status = Verdict
  /\ version = "v1alpha3" => Written("diagnostic")
  /\ outcome' = status
  /\ files' = files \ {"temporary"}
  /\ pc' = "rename"
  /\ UNCHANGED <<tag, version, expectedId, scan, evaluator, written, status, exitCode>>

RefuseEvaluation ==
  /\ pc = "evaluate" /\ evaluator \in {"ended", "killed"}
  /\ files' \in {files, files \ {"temporary"}}
  /\ ExitTwo
  /\ UNCHANGED <<tag, version, expectedId, scan, evaluation>>

NameComplete ==
  /\ pc = "rename"
  /\ \/ /\ files' = (files \ {"partial"}) \cup {"vulnerabilities"}
        /\ pc' = "summary"
        /\ UNCHANGED exitCode
     \/ ExitTwo /\ UNCHANGED files
  /\ UNCHANGED <<tag, version, expectedId, scan, evaluation>>

WriteSummary ==
  /\ pc = "summary"
  /\ \/ Keep({"summary"}) /\ exitCode' = outcome /\ pc' = "exited"
     \/ files' \in {files, files \cup {"summary"}} /\ ExitTwo
  /\ UNCHANGED <<tag, version, expectedId, scan, evaluation>>

-----------------------------------------------------------------------------
Helper ==
  \/ InspectImage \/ RunTrivy \/ RemoveScannerContainer
  \/ SavePartial \/ ValidateReportImage \/ StartEvaluator
  \/ AcceptEvaluation \/ RefuseEvaluation \/ NameComplete \/ WriteSummary

Next ==
  \/ Retag \/ Die
  \/ ContainerStarts \/ ScannerReports \/ ChildEnds
  \/ OnData \/ OnInterrupt \/ OnTimeout \/ OnClose
  \/ EvaluatorWrites \/ EvaluatorDecides \/ EvaluatorFails \/ EvaluatorTimesOut
  \/ Helper

Spec == Init /\ [][Next]_vars

(* The helper runs, its timers fire, and the end of the client is          *)
(* reported; nothing is assumed of Docker, Trivy or the evaluator.         *)
FairSpec ==
  /\ Spec
  /\ WF_vars(Helper) /\ WF_vars(OnTimeout) /\ WF_vars(OnClose)
  /\ WF_vars(EvaluatorTimesOut)

-----------------------------------------------------------------------------
(* Properties.                                                             *)

(* Types of the helper's state; in particular the retained report never    *)
(* exceeds its limit, and no timer survives the collection.                *)
TypeOK ==
  /\ tag \in Images /\ expectedId \in Images \cup {None}
  /\ version \in {"v1alpha2", "v1alpha3"}
  /\ pc \in {"inspect", "start", "scanning", "cleanup", "save", "validate",
             "evaluate", "rename", "summary", "exited", "dead"}
  /\ child \in {None, "running", "ended"} /\ code \in {0, 1}
  /\ container \in {"absent", "running", "late", "removed"}
  /\ timer \in {"off", "armed"} /\ (timer = "armed" => pc \in {"scanning", "dead"})
  /\ report \in Reports \cup {NoReport}
  /\ size \in 0 .. ReportLimit
  /\ failure \in Failures \cup {None} /\ announced \in BOOLEAN
  /\ files \subseteq FileNames
  /\ evaluator \in {None, "running", "ended", "killed"}
  /\ written \in 0 .. 3 /\ {status, outcome, exitCode} \subseteq 0 .. 2

(* An exit status of 0 or 1 is a policy result: the scan did not fail and  *)
(* the whole report of the image inspected first was evaluated, is kept    *)
(* under its complete name beside the summary, and decides the status.     *)
PolicyExitIsBacked ==
  pc = "exited" /\ exitCode # 2 =>
    /\ failure = None /\ Whole /\ report.image = expectedId
    /\ report.findings # "unreadable" /\ exitCode = Verdict
    /\ {"vulnerabilities", "summary"} \subseteq files
    /\ files \cap {"partial", "temporary"} = {}
    /\ version = "v1alpha3" => "diagnostic" \in files

(* The name vulnerabilities.json is only ever given to the whole report of *)
(* the inspected image, also when the helper is killed at any point or the *)
(* tag is moved between the inspection and the scan.                       *)
CompleteNameIsComplete ==
  "vulnerabilities" \in files =>
    Whole /\ report.image = expectedId /\ failure = None /\ "partial" \notin files

(* A scanner container that ran when the docker client ended is not left   *)
(* behind silently: it is removed or the operator is told to remove it.    *)
LeftoverAnnounced == pc = "exited" /\ container = "running" => announced

(* The first reason for which a scan fails is the one reported: a timeout, *)
(* an interruption or an oversized report is not replaced by a later one,  *)
(* nor by the failed exit of the client that was killed for it.            *)
FirstReasonKept == [][failure # None => failure' = failure]_vars

(* The run ends although Docker, Trivy or the evaluator may hang.          *)
ScanEnds == <>Ended

(* docs/local-container-vulnerability-scanning.md:210: a run that exits 2  *)
(* after scanner output was captured retains it as report.partial.json.    *)
FailureKeepsPartial ==
  pc = "exited" /\ exitCode = 2 => "vulnerabilities" \notin files
=============================================================================
