---------------------------- MODULE LocalScanProofs ----------------------------
(***************************************************************************)
(* Proofs about LocalScan, for any images, report lengths and limit: what  *)
(* an exit status of 0 or 1 and the name vulnerabilities.json stand for,   *)
(* however the tag moves and wherever the helper is killed.                *)
(***************************************************************************)
EXTENDS LocalScan, TLAPS

Judging == {"evaluate", "rename", "summary"}
Collected == {"cleanup", "save", "validate"} \cup Judging

(* The client has ended when its output is collected; without a failure it *)
(* ended with status 0, and then the daemon had removed the container.     *)
Client ==
  /\ pc \in {"inspect", "start"} => child = None /\ failure = None /\ container = "absent"
  /\ pc = "scanning" => child # None
  /\ pc \in Collected => child = "ended"
  /\ pc \in {"scanning", "save"} /\ child = "ended" /\ failure = None => code # 0 \/ container = "removed"
  /\ pc = "save" /\ failure = None => code = 0
  /\ pc = "cleanup" => failure # None
  /\ pc \in {"save", "validate", "exited"} \cup Judging /\ container = "running" =>
       announced = TRUE

(* A report is only judged when the scan did not fail and it is the whole  *)
(* report of the inspected image.                                          *)
Judged ==
  /\ pc \in {"validate"} \cup Judging => failure = None
  /\ pc \in Judging => Whole /\ report.image = expectedId

(* The evaluator runs while its report is judged, and writes its           *)
(* diagnostic first.                                                       *)
Evaluated ==
  /\ evaluator # None => pc \in Judging \cup {"exited", "dead"}
  /\ evaluator = "running" => pc \in {"evaluate", "exited", "dead"}
  /\ written > 0 => evaluator # None /\ report.findings # "unreadable"
  /\ written > 0 /\ version = "v1alpha3" => "diagnostic" \in files

(* Past the evaluation its result is the exit status to come.              *)
Accepted ==
  /\ pc \in {"rename", "summary"} =>
       /\ outcome = Verdict /\ report.findings # "unreadable"
       /\ version = "v1alpha3" => "diagnostic" \in files
       /\ "temporary" \notin files
  /\ pc = "summary" => "vulnerabilities" \in files
  /\ "vulnerabilities" \in files => pc \in {"summary", "exited", "dead"}

(* TypeOK in parts: main, the scanner, the evaluator and what they produce.*)
MainTypes ==
  /\ tag \in Images /\ expectedId \in Images \cup {None}
  /\ version \in {"v1alpha2", "v1alpha3"}
  /\ pc \in {"inspect", "start", "scanning", "cleanup", "save", "validate",
             "evaluate", "rename", "summary", "exited", "dead"}
ScannerTypes ==
  /\ child \in {None, "running", "ended"} /\ code \in {0, 1}
  /\ container \in {"absent", "running", "late", "removed"}
  /\ timer \in {"off", "armed"} /\ (timer = "armed" => pc \in {"scanning", "dead"})
  /\ report \in Reports \cup {NoReport}
  /\ size \in 0 .. ReportLimit
  /\ failure \in Failures \cup {None} /\ announced \in BOOLEAN
FileTypes ==
  /\ files \subseteq FileNames
  /\ evaluator \in {None, "running", "ended", "killed"}
ResultTypes ==
  /\ written \in 0 .. 3
  /\ status \in 0 .. 2 /\ outcome \in 0 .. 2 /\ exitCode \in 0 .. 2

IInv ==
  /\ MainTypes /\ ScannerTypes /\ FileTypes /\ ResultTypes
  /\ Client /\ Judged /\ Evaluated /\ Accepted
  /\ PolicyExitIsBacked /\ CompleteNameIsComplete

-----------------------------------------------------------------------------
(* The evaluator of v1alpha3 writes its diagnostic first; both evaluators  *)
(* write at most three products.                                           *)
LEMMA ProductOrder ==
  /\ Len(Products) \in 2 .. 3
  /\ version = "v1alpha3" => Products[1] = "diagnostic"
  BY DEF Products

(* The parts make up TypeOK.                                               *)
LEMMA TypeParts == TypeOK <=> MainTypes /\ ScannerTypes /\ FileTypes /\ ResultTypes
  BY DEF TypeOK, MainTypes, ScannerTypes, FileTypes, ResultTypes

(* The initial state satisfies the invariant.                              *)
LEMMA InitInv == Init => IInv
  <1> SUFFICES ASSUME Init PROVE IInv
    OBVIOUS
  <1> USE DEF Init
  <1>1. TypeOK
    <2>1. size \in 0 .. ReportLimit
      BY ScanAssumption
    <2>2. report \in Reports \cup {NoReport}
      OBVIOUS
    <2>3. written \in 0 .. 3 /\ {status, outcome, exitCode} \subseteq 0 .. 2
      OBVIOUS
    <2>4. files \subseteq FileNames
      OBVIOUS
    <2> QED BY <2>1, <2>2, <2>3, <2>4 DEF TypeOK
  <1>2. Client /\ Judged
    BY DEF Client, Judged, Collected, Judging
  <1>3. Evaluated
    BY DEF Evaluated, None
  <1>4. Accepted
    BY DEF Accepted
  <1>5. PolicyExitIsBacked
    BY DEF PolicyExitIsBacked
  <1>6. CompleteNameIsComplete
    BY DEF CompleteNameIsComplete
  <1> QED BY <1>1, <1>2, <1>3, <1>4, <1>5, <1>6, TypeParts DEF IInv

(* Until the report is judged nothing was evaluated and no complete name   *)
(* given; a run that ends there exits 2.                                   *)
LEMMA EarlyStep ==
  ASSUME IInv, pc \notin Judging \cup {"exited", "dead"},
         UNCHANGED <<evaluator, written>>, files' \in {files, files \cup {"partial"}},
         pc' \notin {"rename", "summary"}, pc' = "exited" => exitCode' = 2
  PROVE  Evaluated' /\ Accepted' /\ PolicyExitIsBacked' /\ CompleteNameIsComplete'
  <1>1. evaluator = None /\ ~(written > 0) /\ "vulnerabilities" \notin files
    BY DEF IInv, Evaluated, Accepted, Judging
  <1>2. "vulnerabilities" \notin files'
    BY <1>1
  <1>3. Evaluated'
    BY <1>1 DEF Evaluated, None
  <1>4. Accepted'
    BY <1>2 DEF Accepted
  <1>5. PolicyExitIsBacked' /\ CompleteNameIsComplete'
    BY <1>2 DEF PolicyExitIsBacked, CompleteNameIsComplete
  <1> QED BY <1>3, <1>4, <1>5

(* The tag moves or the helper is killed.                                  *)
LEMMA OutsideSteps ==
  ASSUME IInv, Retag \/ Die
  PROVE  IInv'
  <1> USE DEF scan, evaluation, Collected, Judging
  <1>0. /\ MainTypes /\ ScannerTypes /\ FileTypes /\ ResultTypes /\ Client /\ Judged
        /\ Evaluated /\ Accepted /\ PolicyExitIsBacked /\ CompleteNameIsComplete
    BY DEF IInv
  <1> USE <1>0
  <1>1. CASE Retag
    <2> USE <1>1 DEF Retag, Ended
    <2>1. MainTypes'
      BY DEF MainTypes
    <2>2. ScannerTypes'
      BY DEF ScannerTypes, Failures
    <2>3. FileTypes'
      BY DEF FileTypes, FileNames
    <2>4. ResultTypes'
      BY DEF ResultTypes
    <2>5. Client'
      BY DEF Client, None
    <2>6. Judged'
      BY DEF Judged, Whole
    <2>7. Evaluated'
      BY DEF Evaluated, None
    <2>8. Accepted'
      BY DEF Accepted, Verdict
    <2>9. PolicyExitIsBacked'
      BY DEF PolicyExitIsBacked, Whole, Verdict
    <2>10. CompleteNameIsComplete'
      BY DEF CompleteNameIsComplete, Whole
    <2> QED BY <2>1, <2>2, <2>3, <2>4, <2>5, <2>6, <2>7, <2>8, <2>9, <2>10 DEF IInv
  <1>2. CASE Die
    <2> USE <1>2 DEF Die
    <2>1. MainTypes'
      BY DEF MainTypes
    <2>2. ScannerTypes'
      BY DEF ScannerTypes, Failures
    <2>3. FileTypes'
      BY DEF FileTypes, FileNames
    <2>4. ResultTypes'
      BY DEF ResultTypes
    <2>5. Client'
      BY DEF Client, None
    <2>6. Judged'
      BY DEF Judged, Whole
    <2>7. Evaluated'
      BY DEF Evaluated, None
    <2>8. Accepted'
      BY DEF Accepted, Verdict
    <2>9. PolicyExitIsBacked'
      BY DEF PolicyExitIsBacked, Whole, Verdict
    <2>10. CompleteNameIsComplete'
      BY DEF CompleteNameIsComplete, Whole
    <2> QED BY <2>1, <2>2, <2>3, <2>4, <2>5, <2>6, <2>7, <2>8, <2>9, <2>10 DEF IInv
  <1> QED BY <1>1, <1>2

(* The docker client, the daemon and Trivy.                                *)
LEMMA DockerSteps ==
  ASSUME IInv, ContainerStarts \/ ScannerReports \/ ChildEnds
  PROVE  IInv'
  <1> USE DEF scan, evaluation, Collected, Judging
  <1>0. /\ MainTypes /\ ScannerTypes /\ FileTypes /\ ResultTypes /\ Client /\ Judged
        /\ Evaluated /\ Accepted /\ PolicyExitIsBacked /\ CompleteNameIsComplete
    BY DEF IInv
  <1> USE <1>0
  <1>1. CASE ContainerStarts
    <2> USE <1>1 DEF ContainerStarts, Ended
    <2>1. MainTypes'
      BY DEF MainTypes
    <2>2. ScannerTypes'
      BY DEF ScannerTypes, Failures
    <2>3. FileTypes'
      BY DEF FileTypes, FileNames
    <2>4. ResultTypes'
      BY DEF ResultTypes
    <2>5. Client'
      BY DEF Client, None
    <2>6. Judged'
      BY DEF Judged, Whole
    <2>7. Evaluated'
      BY DEF Evaluated, None
    <2>8. Accepted'
      BY DEF Accepted, Verdict
    <2>9. PolicyExitIsBacked'
      BY DEF PolicyExitIsBacked, Whole, Verdict
    <2>10. CompleteNameIsComplete'
      BY DEF CompleteNameIsComplete, Whole
    <2> QED BY <2>1, <2>2, <2>3, <2>4, <2>5, <2>6, <2>7, <2>8, <2>9, <2>10 DEF IInv
  <1>2. CASE ScannerReports
    <2> USE <1>2 DEF ScannerReports
    <2>1. pc = "scanning" /\ child = "running"
      BY DEF MainTypes, Client, Ended, None
    <2>2. MainTypes'
      BY <2>1 DEF MainTypes
    <2>3. ScannerTypes'
      BY <2>1 DEF ScannerTypes, Failures
    <2>4. FileTypes'
      BY <2>1 DEF FileTypes, FileNames
    <2>5. ResultTypes'
      BY <2>1 DEF ResultTypes
    <2>6. Client'
      BY <2>1 DEF Client, None
    <2>7. Judged'
      BY <2>1 DEF Judged, Whole
    <2>8. Evaluated' /\ Accepted' /\ PolicyExitIsBacked' /\ CompleteNameIsComplete'
      BY <2>1, EarlyStep
    <2> QED BY <2>2, <2>3, <2>4, <2>5, <2>6, <2>7, <2>8 DEF IInv
  <1>3. CASE ChildEnds
    <2> USE <1>3 DEF ChildEnds
    <2>1. pc = "scanning" /\ child = "running"
      BY DEF MainTypes, Client, Ended, None
    <2>2. MainTypes'
      BY <2>1 DEF MainTypes
    <2>3. ScannerTypes'
      BY <2>1 DEF ScannerTypes, Failures
    <2>4. FileTypes'
      BY <2>1 DEF FileTypes, FileNames
    <2>5. ResultTypes'
      BY <2>1 DEF ResultTypes
    <2>6. Client'
      BY <2>1 DEF Client, None
    <2>7. Judged'
      BY <2>1 DEF Judged, Whole
    <2>8. Evaluated' /\ Accepted' /\ PolicyExitIsBacked' /\ CompleteNameIsComplete'
      BY <2>1, EarlyStep
    <2> QED BY <2>2, <2>3, <2>4, <2>5, <2>6, <2>7, <2>8 DEF IInv
  <1> QED BY <1>1, <1>2, <1>3

(* Inspection and the start of the scan.                                   *)
LEMMA StartSteps ==
  ASSUME IInv, InspectImage \/ RunTrivy
  PROVE  IInv'
  <1> USE DEF scan, evaluation, Collected, Judging
  <1>0. /\ MainTypes /\ ScannerTypes /\ FileTypes /\ ResultTypes /\ Client /\ Judged
        /\ Evaluated /\ Accepted /\ PolicyExitIsBacked /\ CompleteNameIsComplete
    BY DEF IInv
  <1> USE <1>0
  <1>1. CASE InspectImage
    <2> USE <1>1 DEF InspectImage, ExitTwo
    <2>1. MainTypes'
      BY DEF MainTypes
    <2>2. ScannerTypes'
      BY DEF ScannerTypes, Failures
    <2>3. FileTypes'
      BY DEF FileTypes, FileNames
    <2>4. ResultTypes'
      BY DEF ResultTypes
    <2>5. Client'
      BY DEF Client, None
    <2>6. Judged'
      BY DEF Judged, Whole
    <2>7. Evaluated' /\ Accepted' /\ PolicyExitIsBacked' /\ CompleteNameIsComplete'
      BY EarlyStep DEF Judging
    <2> QED BY <2>1, <2>2, <2>3, <2>4, <2>5, <2>6, <2>7 DEF IInv
  <1>2. CASE RunTrivy
    <2> USE <1>2 DEF RunTrivy, ExitTwo
    <2>1. MainTypes'
      BY DEF MainTypes
    <2>2. ScannerTypes'
      BY DEF ScannerTypes, Failures
    <2>3. FileTypes'
      BY DEF FileTypes, FileNames
    <2>4. ResultTypes'
      <3>1. exitCode' = exitCode \/ exitCode' = 2
        BY Zenon
      <3>2. UNCHANGED <<tag, version, expectedId, container, report, size, announced, files, evaluation>>
        BY Zenon
      <3> HIDE DEF RunTrivy
      <3>3. UNCHANGED <<written, status, outcome>>
        BY <3>2
      <3> QED BY <3>1, <3>3 DEF ResultTypes
    <2>5. Client'
      BY DEF Client, None
    <2>6. Judged'
      BY DEF Judged, Whole
    <2>7. Evaluated' /\ Accepted' /\ PolicyExitIsBacked' /\ CompleteNameIsComplete'
      BY EarlyStep DEF Judging
    <2> QED BY <2>1, <2>2, <2>3, <2>4, <2>5, <2>6, <2>7 DEF IInv
  <1> QED BY <1>1, <1>2

(* The callbacks that collect the report.                                  *)
LEMMA CollectSteps ==
  ASSUME IInv, OnData \/ OnInterrupt \/ OnTimeout \/ OnClose
  PROVE  IInv'
  <1> USE DEF scan, evaluation, Collected, Judging
  <1>0. /\ MainTypes /\ ScannerTypes /\ FileTypes /\ ResultTypes /\ Client /\ Judged
        /\ Evaluated /\ Accepted /\ PolicyExitIsBacked /\ CompleteNameIsComplete
    BY DEF IInv
  <1> USE <1>0
  <1>1. CASE OnData
    <2> USE <1>1 DEF OnData, Collecting, Stop
    <2>1. MainTypes'
      BY DEF MainTypes
    <2>2. ScannerTypes'
      <3>1. report.length \in Nat
        BY ScanAssumption DEF ScannerTypes, Reports
      <3>2. size \in Nat /\ ReportLimit \in Nat
        BY ScanAssumption DEF ScannerTypes
      <3>3. size' \in 0 .. ReportLimit
        BY <3>1, <3>2
      <3>4. /\ child' \in {None, "running", "ended"} /\ code' \in {0, 1}
            /\ failure' \in Failures \cup {None}
        BY DEF ScannerTypes, Failures
      <3> HIDE DEF OnData
      <3>5. UNCHANGED <<pc, container, timer, report, announced>>
        BY DEF OnData
      <3> QED BY <3>3, <3>4, <3>5 DEF ScannerTypes
    <2>3. FileTypes'
      BY DEF FileTypes, FileNames
    <2>4. ResultTypes'
      BY DEF ResultTypes
    <2>5. Client'
      BY DEF Client, None
    <2>6. Judged'
      BY DEF Judged, Whole
    <2>7. Evaluated' /\ Accepted' /\ PolicyExitIsBacked' /\ CompleteNameIsComplete'
      BY EarlyStep
    <2> QED BY <2>1, <2>2, <2>3, <2>4, <2>5, <2>6, <2>7 DEF IInv
  <1>2. CASE OnInterrupt
    <2> USE <1>2 DEF OnInterrupt, Collecting, Stop
    <2>1. MainTypes'
      BY DEF MainTypes
    <2>2. ScannerTypes'
      BY DEF ScannerTypes, Failures
    <2>3. FileTypes'
      BY DEF FileTypes, FileNames
    <2>4. ResultTypes'
      BY DEF ResultTypes
    <2>5. Client'
      BY DEF Client, None
    <2>6. Judged'
      BY DEF Judged, Whole
    <2>7. Evaluated' /\ Accepted' /\ PolicyExitIsBacked' /\ CompleteNameIsComplete'
      BY EarlyStep
    <2> QED BY <2>1, <2>2, <2>3, <2>4, <2>5, <2>6, <2>7 DEF IInv
  <1>3. CASE OnTimeout
    <2> USE <1>3 DEF OnTimeout, Collecting, Stop
    <2>1. MainTypes'
      BY DEF MainTypes
    <2>2. ScannerTypes'
      BY DEF ScannerTypes, Failures
    <2>3. FileTypes'
      BY DEF FileTypes, FileNames
    <2>4. ResultTypes'
      BY DEF ResultTypes
    <2>5. Client'
      BY DEF Client, None
    <2>6. Judged'
      BY DEF Judged, Whole
    <2>7. Evaluated' /\ Accepted' /\ PolicyExitIsBacked' /\ CompleteNameIsComplete'
      BY EarlyStep
    <2> QED BY <2>1, <2>2, <2>3, <2>4, <2>5, <2>6, <2>7 DEF IInv
  <1>4. CASE OnClose
    <2> USE <1>4 DEF OnClose, Collecting
    <2>1. MainTypes'
      BY DEF MainTypes
    <2>2. ScannerTypes'
      BY DEF ScannerTypes, Failures
    <2>3. FileTypes'
      BY DEF FileTypes, FileNames
    <2>4. ResultTypes'
      BY DEF ResultTypes
    <2>5. Client'
      BY DEF Client, None
    <2>6. Judged'
      BY DEF Judged, Whole
    <2>7. Evaluated' /\ Accepted' /\ PolicyExitIsBacked' /\ CompleteNameIsComplete'
      BY EarlyStep
    <2> QED BY <2>1, <2>2, <2>3, <2>4, <2>5, <2>6, <2>7 DEF IInv
  <1> QED BY <1>1, <1>2, <1>3, <1>4

(* Cleanup, saving and validation.                                         *)
LEMMA SaveSteps ==
  ASSUME IInv, RemoveScannerContainer \/ SavePartial \/ ValidateReportImage
  PROVE  IInv'
  <1> USE DEF scan, evaluation, Collected, Judging
  <1>0. /\ MainTypes /\ ScannerTypes /\ FileTypes /\ ResultTypes /\ Client /\ Judged
        /\ Evaluated /\ Accepted /\ PolicyExitIsBacked /\ CompleteNameIsComplete
    BY DEF IInv
  <1> USE <1>0
  <1>1. CASE RemoveScannerContainer
    <2> USE <1>1 DEF RemoveScannerContainer
    <2>1. MainTypes'
      BY DEF MainTypes
    <2>2. ScannerTypes'
      BY DEF ScannerTypes, Failures
    <2>3. FileTypes'
      BY DEF FileTypes, FileNames
    <2>4. ResultTypes'
      BY DEF ResultTypes
    <2>5. Client'
      BY DEF Client, None
    <2>6. Judged'
      BY DEF Judged, Whole
    <2>7. Evaluated' /\ Accepted' /\ PolicyExitIsBacked' /\ CompleteNameIsComplete'
      BY EarlyStep
    <2> QED BY <2>1, <2>2, <2>3, <2>4, <2>5, <2>6, <2>7 DEF IInv
  <1>2. CASE SavePartial
    <2> USE <1>2 DEF SavePartial, Keep, ExitTwo
    <2>1. MainTypes'
      BY DEF MainTypes
    <2>2. ScannerTypes'
      BY DEF ScannerTypes, Failures
    <2>3. FileTypes'
      BY DEF FileTypes, FileNames
    <2>4. ResultTypes'
      BY DEF ResultTypes
    <2>5. Client'
      BY DEF Client, None
    <2>6. Judged'
      BY DEF Judged, Whole
    <2>7. Evaluated' /\ Accepted' /\ PolicyExitIsBacked' /\ CompleteNameIsComplete'
      BY EarlyStep
    <2> QED BY <2>1, <2>2, <2>3, <2>4, <2>5, <2>6, <2>7 DEF IInv
  <1>3. CASE ValidateReportImage
    <2> USE <1>3 DEF ValidateReportImage, ExitTwo
    <2>1. MainTypes'
      BY DEF MainTypes
    <2>2. ScannerTypes'
      BY DEF ScannerTypes, Failures
    <2>3. FileTypes'
      BY DEF FileTypes, FileNames
    <2>4. ResultTypes'
      BY DEF ResultTypes
    <2>5. Client'
      BY DEF Client, None
    <2>6. Judged'
      BY DEF Judged, Whole
    <2>7. Evaluated' /\ Accepted' /\ PolicyExitIsBacked' /\ CompleteNameIsComplete'
      BY EarlyStep
    <2> QED BY <2>1, <2>2, <2>3, <2>4, <2>5, <2>6, <2>7 DEF IInv
  <1> QED BY <1>1, <1>2, <1>3

(* The evaluator.                                                          *)
LEMMA EvaluatorSteps ==
  ASSUME IInv, StartEvaluator \/ EvaluatorWrites \/ EvaluatorDecides \/ EvaluatorFails \/ EvaluatorTimesOut
  PROVE  IInv'
  <1> USE DEF scan, evaluation, Collected, Judging
  <1>0. /\ MainTypes /\ ScannerTypes /\ FileTypes /\ ResultTypes /\ Client /\ Judged
        /\ Evaluated /\ Accepted /\ PolicyExitIsBacked /\ CompleteNameIsComplete
    BY DEF IInv
  <1> USE <1>0
  <1>1. CASE StartEvaluator
    <2> USE <1>1 DEF StartEvaluator, Keep, ExitTwo
    <2>1. MainTypes'
      BY DEF MainTypes
    <2>2. ScannerTypes'
      BY DEF ScannerTypes, Failures
    <2>3. FileTypes'
      BY DEF FileTypes, FileNames
    <2>4. ResultTypes'
      BY DEF ResultTypes
    <2>5. Client'
      BY DEF Client, None
    <2>6. Judged'
      BY DEF Judged, Whole
    <2>7. Evaluated'
      BY DEF Evaluated, None
    <2>8. Accepted'
      BY DEF Accepted, Verdict
    <2>9. PolicyExitIsBacked'
      BY DEF PolicyExitIsBacked, Whole, Verdict
    <2>10. CompleteNameIsComplete'
      BY DEF CompleteNameIsComplete, Whole
    <2> QED BY <2>1, <2>2, <2>3, <2>4, <2>5, <2>6, <2>7, <2>8, <2>9, <2>10 DEF IInv
  <1>2. CASE EvaluatorWrites
    <2> USE <1>2 DEF EvaluatorWrites, Keep, Ended
    <2>1. pc = "evaluate"
      BY DEF Evaluated, Ended, None
    <2>2. MainTypes'
      BY <2>1 DEF MainTypes
    <2>3. ScannerTypes'
      BY <2>1 DEF ScannerTypes, Failures
    <2>4. FileTypes'
      BY <2>1 DEF FileTypes, FileNames
    <2>5. ResultTypes'
      <3>1. written' = written + 1 /\ written < 3 /\ UNCHANGED <<status, outcome, exitCode>>
        BY ProductOrder DEF ResultTypes
      <3> QED BY <3>1 DEF ResultTypes
    <2>6. Client'
      BY <2>1 DEF Client, None
    <2>7. Judged'
      BY <2>1 DEF Judged, Whole
    <2>8. Evaluated'
      <3>1. ASSUME version = "v1alpha3", written = 0
            PROVE  "diagnostic" \in files'
        <4>1. files' = files \cup ({"diagnostic"} \cap {Products[1]})
          BY <3>1
        <4>2. Products[1] = "diagnostic"
          BY <3>1, ProductOrder
        <4> QED BY <4>1, <4>2
      <3>2. written = 0 \/ written > 0
        BY DEF ResultTypes
      <3> QED BY <2>1, <3>1, <3>2 DEF Evaluated, None
    <2>9. Accepted'
      BY <2>1 DEF Accepted, Verdict
    <2>10. PolicyExitIsBacked'
      BY <2>1 DEF PolicyExitIsBacked, Whole, Verdict
    <2>11. CompleteNameIsComplete'
      BY <2>1 DEF CompleteNameIsComplete, Whole
    <2> QED BY <2>2, <2>3, <2>4, <2>5, <2>6, <2>7, <2>8, <2>9, <2>10, <2>11 DEF IInv
  <1>3. CASE EvaluatorDecides
    <2> USE <1>3 DEF EvaluatorDecides, Ended
    <2>1. pc = "evaluate"
      BY DEF Evaluated, Ended, None
    <2>2. MainTypes'
      BY <2>1 DEF MainTypes
    <2>3. ScannerTypes'
      BY <2>1 DEF ScannerTypes, Failures
    <2>4. FileTypes'
      BY <2>1 DEF FileTypes, FileNames
    <2>5. ResultTypes'
      <3>1. status' \in {0, 1}
        BY DEF Verdict
      <3> QED BY <3>1 DEF ResultTypes
    <2>6. Client'
      BY <2>1 DEF Client, None
    <2>7. Judged'
      BY <2>1 DEF Judged, Whole
    <2>8. Evaluated'
      BY <2>1 DEF Evaluated, None
    <2>9. Accepted'
      BY <2>1 DEF Accepted, Verdict
    <2>10. PolicyExitIsBacked'
      BY <2>1 DEF PolicyExitIsBacked, Whole, Verdict
    <2>11. CompleteNameIsComplete'
      BY <2>1 DEF CompleteNameIsComplete, Whole
    <2> QED BY <2>2, <2>3, <2>4, <2>5, <2>6, <2>7, <2>8, <2>9, <2>10, <2>11 DEF IInv
  <1>4. CASE EvaluatorFails
    <2> USE <1>4 DEF EvaluatorFails, Ended
    <2>1. pc = "evaluate"
      BY DEF Evaluated, Ended, None
    <2>2. MainTypes'
      BY <2>1 DEF MainTypes
    <2>3. ScannerTypes'
      BY <2>1 DEF ScannerTypes, Failures
    <2>4. FileTypes'
      BY <2>1 DEF FileTypes, FileNames
    <2>5. ResultTypes'
      <3>1. status' \in {1, 2} /\ UNCHANGED <<outcome, exitCode>>
        OBVIOUS
      <3>2. written < 3
        BY ProductOrder DEF ResultTypes
      <3>3. written' = written \/ written' = written + 1
        OBVIOUS
      <3> QED BY <3>1, <3>2, <3>3 DEF ResultTypes
    <2>6. Client'
      BY <2>1 DEF Client, None
    <2>7. Judged'
      BY <2>1 DEF Judged, Whole
    <2>8. Evaluated'
      <3>1. files \subseteq files' /\ UNCHANGED <<version, report>>
        OBVIOUS
      <3>2. written' > 0 => report.findings # "unreadable"
        BY DEF Evaluated
      <3>3. version = "v1alpha3" /\ written' > 0 => written > 0
        <4>1. written # 0 => written > 0
          BY DEF ResultTypes
        <4>2. version = "v1alpha3" => Products[0 + 1] # "summary"
          BY ProductOrder
        <4> QED BY <4>1, <4>2
      <3> QED BY <2>1, <3>1, <3>2, <3>3 DEF Evaluated, None
    <2>9. Accepted'
      <3>1. "vulnerabilities" \notin files /\ (files' = files \/ files' = files \cup {"policy-error"})
        BY <2>1 DEF Accepted
      <3> QED BY <2>1, <3>1 DEF Accepted
    <2>10. PolicyExitIsBacked'
      BY <2>1 DEF PolicyExitIsBacked, Whole, Verdict
    <2>11. CompleteNameIsComplete'
      BY <2>1 DEF CompleteNameIsComplete, Whole
    <2> QED BY <2>2, <2>3, <2>4, <2>5, <2>6, <2>7, <2>8, <2>9, <2>10, <2>11 DEF IInv
  <1>5. CASE EvaluatorTimesOut
    <2> USE <1>5 DEF EvaluatorTimesOut, Ended
    <2>1. pc = "evaluate"
      BY DEF Evaluated, Ended, None
    <2>2. MainTypes'
      BY <2>1 DEF MainTypes
    <2>3. ScannerTypes'
      BY <2>1 DEF ScannerTypes, Failures
    <2>4. FileTypes'
      BY <2>1 DEF FileTypes, FileNames
    <2>5. ResultTypes'
      BY <2>1 DEF ResultTypes
    <2>6. Client'
      BY <2>1 DEF Client, None
    <2>7. Judged'
      BY <2>1 DEF Judged, Whole
    <2>8. Evaluated'
      BY <2>1 DEF Evaluated, None
    <2>9. Accepted'
      BY <2>1 DEF Accepted, Verdict
    <2>10. PolicyExitIsBacked'
      BY <2>1 DEF PolicyExitIsBacked, Whole, Verdict
    <2>11. CompleteNameIsComplete'
      BY <2>1 DEF CompleteNameIsComplete, Whole
    <2> QED BY <2>2, <2>3, <2>4, <2>5, <2>6, <2>7, <2>8, <2>9, <2>10, <2>11 DEF IInv
  <1> QED BY <1>1, <1>2, <1>3, <1>4, <1>5

(* The helper takes the evaluator's result.                                *)
LEMMA VerdictSteps ==
  ASSUME IInv, AcceptEvaluation \/ RefuseEvaluation \/ NameComplete \/ WriteSummary
  PROVE  IInv'
  <1> USE DEF scan, evaluation, Collected, Judging
  <1>0. /\ MainTypes /\ ScannerTypes /\ FileTypes /\ ResultTypes /\ Client /\ Judged
        /\ Evaluated /\ Accepted /\ PolicyExitIsBacked /\ CompleteNameIsComplete
    BY DEF IInv
  <1> USE <1>0
  <1>1. CASE AcceptEvaluation
    <2> USE <1>1 DEF AcceptEvaluation
    <2>1. MainTypes'
      BY DEF MainTypes
    <2>2. ScannerTypes'
      BY DEF ScannerTypes, Failures
    <2>3. FileTypes'
      BY DEF FileTypes, FileNames
    <2>4. ResultTypes'
      BY DEF ResultTypes
    <2>5. Client'
      BY DEF Client, None
    <2>6. Judged'
      BY DEF Judged, Whole
    <2>7. Evaluated'
      BY DEF Evaluated, None
    <2>8. Accepted'
      <3>1. written > 0
        BY DEF Written, ResultTypes
      <3>2. report.findings # "unreadable" /\ (version = "v1alpha3" => "diagnostic" \in files)
        BY <3>1 DEF Evaluated
      <3>3. "vulnerabilities" \notin files
        BY DEF Accepted
      <3>4. outcome' = Verdict'
        BY DEF Verdict
      <3> QED BY <3>2, <3>3, <3>4 DEF Accepted
    <2>9. PolicyExitIsBacked'
      BY DEF PolicyExitIsBacked, Whole, Verdict
    <2>10. CompleteNameIsComplete'
      BY DEF CompleteNameIsComplete, Whole
    <2> QED BY <2>1, <2>2, <2>3, <2>4, <2>5, <2>6, <2>7, <2>8, <2>9, <2>10 DEF IInv
  <1>2. CASE RefuseEvaluation
    <2> USE <1>2 DEF RefuseEvaluation, ExitTwo
    <2>1. MainTypes'
      BY DEF MainTypes
    <2>2. ScannerTypes'
      BY DEF ScannerTypes, Failures
    <2>3. FileTypes'
      BY DEF FileTypes, FileNames
    <2>4. ResultTypes'
      BY DEF ResultTypes
    <2>5. Client'
      BY DEF Client, None
    <2>6. Judged'
      BY DEF Judged, Whole
    <2>7. Evaluated'
      BY DEF Evaluated, None
    <2>8. Accepted'
      BY DEF Accepted, Verdict
    <2>9. PolicyExitIsBacked'
      BY DEF PolicyExitIsBacked, Whole, Verdict
    <2>10. CompleteNameIsComplete'
      BY DEF CompleteNameIsComplete, Whole
    <2> QED BY <2>1, <2>2, <2>3, <2>4, <2>5, <2>6, <2>7, <2>8, <2>9, <2>10 DEF IInv
  <1>3. CASE NameComplete
    <2> USE <1>3 DEF NameComplete, ExitTwo
    <2>1. MainTypes'
      BY DEF MainTypes
    <2>2. ScannerTypes'
      BY DEF ScannerTypes, Failures
    <2>3. FileTypes'
      BY DEF FileTypes, FileNames
    <2>4. ResultTypes'
      BY DEF ResultTypes
    <2>5. Client'
      BY DEF Client, None
    <2>6. Judged'
      BY DEF Judged, Whole
    <2>7. Evaluated'
      BY DEF Evaluated, None
    <2>8. Accepted'
      BY DEF Accepted, Verdict
    <2>9. PolicyExitIsBacked'
      BY DEF PolicyExitIsBacked, Whole, Verdict
    <2>10. CompleteNameIsComplete'
      <3>1. Whole' /\ report'.image = expectedId' /\ failure' = None
        BY DEF Judged, Whole
      <3>2. "vulnerabilities" \in files' => "partial" \notin files'
        BY DEF Accepted
      <3> QED BY <3>1, <3>2 DEF CompleteNameIsComplete
    <2> QED BY <2>1, <2>2, <2>3, <2>4, <2>5, <2>6, <2>7, <2>8, <2>9, <2>10 DEF IInv
  <1>4. CASE WriteSummary
    <2> USE <1>4 DEF WriteSummary, Keep, ExitTwo
    <2>1. MainTypes'
      BY DEF MainTypes
    <2>2. ScannerTypes'
      BY DEF ScannerTypes, Failures
    <2>3. FileTypes'
      BY DEF FileTypes, FileNames
    <2>4. ResultTypes'
      BY DEF ResultTypes
    <2>5. Client'
      BY DEF Client, None
    <2>6. Judged'
      BY DEF Judged, Whole
    <2>7. Evaluated'
      BY DEF Evaluated, None
    <2>8. Accepted'
      BY DEF Accepted, Verdict
    <2>9. PolicyExitIsBacked'
      <3>1. SUFFICES ASSUME exitCode' # 2
                    PROVE  /\ failure = None /\ Whole /\ report.image = expectedId
                           /\ report.findings # "unreadable" /\ exitCode' = Verdict
                           /\ {"vulnerabilities", "summary"} \subseteq files'
                           /\ files' \cap {"partial", "temporary"} = {}
                           /\ version = "v1alpha3" => "diagnostic" \in files'
        BY DEF PolicyExitIsBacked, Whole, Verdict
      <3>2. files' = files \cup {"summary"} /\ exitCode' = outcome
        BY <3>1
      <3>3. "vulnerabilities" \in files /\ "partial" \notin files /\ "temporary" \notin files
        BY DEF Accepted, CompleteNameIsComplete
      <3>4. files' \cap {"partial", "temporary"} = {}
        BY <3>2, <3>3
      <3> QED BY <3>2, <3>3, <3>4 DEF Accepted, Judged
    <2>10. CompleteNameIsComplete'
      BY DEF CompleteNameIsComplete, Whole
    <2> QED BY <2>1, <2>2, <2>3, <2>4, <2>5, <2>6, <2>7, <2>8, <2>9, <2>10 DEF IInv
  <1> QED BY <1>1, <1>2, <1>3, <1>4

(* Every step keeps the invariant.                                         *)
LEMMA StepInv == IInv /\ [Next]_vars => IInv'
  <1> SUFFICES ASSUME IInv, [Next]_vars PROVE IInv'
    OBVIOUS
  <1>1. CASE Retag \/ Die \/ ContainerStarts \/ ScannerReports \/ ChildEnds
    BY <1>1, OutsideSteps, DockerSteps
  <1>2. CASE OnData \/ OnInterrupt \/ OnTimeout \/ OnClose
    BY <1>2, CollectSteps
  <1>3. CASE EvaluatorWrites \/ EvaluatorDecides \/ EvaluatorFails \/ EvaluatorTimesOut
    BY <1>3, EvaluatorSteps
  <1>4. CASE Helper
    BY <1>4, StartSteps, SaveSteps, EvaluatorSteps, VerdictSteps DEF Helper
  <1>5. CASE UNCHANGED vars
    <2> USE <1>5 DEF vars, scan, evaluation, IInv
    <2>1. MainTypes' /\ ScannerTypes' /\ FileTypes' /\ ResultTypes'
      BY DEF MainTypes, ScannerTypes, FileTypes, ResultTypes
    <2>2. Client' /\ Judged'
      BY DEF Client, Judged, Whole
    <2>3. Evaluated'
      BY DEF Evaluated
    <2>4. Accepted'
      BY DEF Accepted, Verdict
    <2>5. PolicyExitIsBacked' /\ CompleteNameIsComplete'
      BY DEF PolicyExitIsBacked, CompleteNameIsComplete, Whole, Verdict
    <2> QED BY <2>1, <2>2, <2>3, <2>4, <2>5
  <1> QED BY <1>1, <1>2, <1>3, <1>4, <1>5 DEF Next

(* The strengthened invariant holds in every behaviour.                    *)
THEOREM Invariance == Spec => []IInv
  BY InitInv, StepInv, PTL DEF Spec

(* The helper's state keeps its types, the retained report its limit, and  *)
(* no timer survives the collection (collectOutput of trivy-runner.mts).   *)
THEOREM TypeCorrect == Spec => []TypeOK
  <1>1. IInv => TypeOK
    BY TypeParts DEF IInv
  <1> QED BY <1>1, Invariance, PTL

(* An exit status of 0 or 1 is a complete policy result of the image that  *)
(* main inspected, whatever the tag, Docker and the evaluator did.         *)
THEOREM PolicyExits == Spec => []PolicyExitIsBacked
  <1>1. IInv => PolicyExitIsBacked
    BY DEF IInv
  <1> QED BY <1>1, Invariance, PTL

(* The name vulnerabilities.json only ever stands for the whole report of  *)
(* the inspected image, also when the helper is killed.                    *)
THEOREM CompleteNames == Spec => []CompleteNameIsComplete
  <1>1. IInv => CompleteNameIsComplete
    BY DEF IInv
  <1> QED BY <1>1, Invariance, PTL

(* A container that ran when its client ended is removed or announced      *)
(* (removeScannerContainer).                                               *)
THEOREM LeftoversAnnounced == Spec => []LeftoverAnnounced
  <1>1. IInv => LeftoverAnnounced
    BY DEF IInv, Client, LeftoverAnnounced
  <1> QED BY <1>1, Invariance, PTL

(* The first reason for which a scan fails stays the one reported (stop of *)
(* trivy-runner.mts).                                                      *)
THEOREM FirstReasonStays == Spec => FirstReasonKept
  <1>1. IInv /\ [Next]_vars => [failure # None => failure' = failure]_vars
    <2> SUFFICES ASSUME IInv, Next, failure # None PROVE failure' = failure
      OBVIOUS
    <2> USE DEF scan, evaluation
    <2>1. CASE Retag \/ Die \/ ContainerStarts \/ ScannerReports \/ ChildEnds
      BY <2>1 DEF Retag, Die, ContainerStarts, ScannerReports, ChildEnds
    <2>2. CASE OnData \/ OnInterrupt \/ OnTimeout \/ OnClose
      BY <2>2 DEF OnData, OnInterrupt, OnTimeout, OnClose, Stop
    <2>3. CASE EvaluatorWrites \/ EvaluatorDecides \/ EvaluatorFails \/ EvaluatorTimesOut
      BY <2>3 DEF EvaluatorWrites, EvaluatorDecides, EvaluatorFails, EvaluatorTimesOut
    <2>4. CASE RunTrivy
      BY <2>4 DEF RunTrivy, IInv, Client
    <2>5. CASE InspectImage \/ RemoveScannerContainer \/ SavePartial \/ ValidateReportImage
      BY <2>5 DEF InspectImage, RemoveScannerContainer, SavePartial, ValidateReportImage
    <2>6. CASE StartEvaluator \/ AcceptEvaluation \/ RefuseEvaluation \/ NameComplete \/ WriteSummary
      BY <2>6 DEF StartEvaluator, AcceptEvaluation, RefuseEvaluation, NameComplete, WriteSummary
    <2> QED BY <2>1, <2>2, <2>3, <2>4, <2>5, <2>6 DEF Next, Helper
  <1> QED BY <1>1, Invariance, PTL DEF Spec, FirstReasonKept
=============================================================================
