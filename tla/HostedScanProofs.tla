-------------------------- MODULE HostedScanProofs --------------------------
(***************************************************************************)
(* Proofs about HostedScan, for any sequence of scans: its types and that  *)
(* a script that was not killed leaves nothing behind in silence.          *)
(***************************************************************************)
EXTENDS HostedScan, TLAPS

Held == {"requested", "running"}

(* The inductive invariant: earlier scans are over in every respect; the   *)
(* container of the current scan is at most where its step puts it, and is *)
(* let go only by an unsuccessful removal.                                 *)
IInv ==
  /\ TypeOK
  /\ pc = "done" <=> exit # "pending"
  /\ pc = "context" => credentials = "none"
  /\ pc \notin {"context", "done"} => credentials # "none"
  /\ pc \in {"context", "config"} => message = "none"
  /\ \A n \in Number : n < scan => outputs[n] = "whole" /\ container[n] = "gone"
  /\ pc \in {"context", "config", "start"} => container[scan] = "none"
  /\ pc = "scanning" /\ client \in {"report", "empty"} => container[scan] = "gone"
  /\ pc = "write" => container[scan] = "gone"
  /\ pc = "removing" /\ client = "removed" => container[scan] = "gone"
  /\ pc \in {"remove", "removing"} => message # "none"
  /\ pc = "cleanup" /\ message = "none" =>
       scan = Len(Scans) /\ outputs[scan] = "whole" /\ container[scan] = "gone"
  /\ exit = "0" =>
       scan = Len(Scans) /\ outputs[scan] = "whole" /\ container[scan] = "gone"
  /\ exit \in {"0", "1"} /\ credentials # "none" => exit = "1" /\ message = "generic"
  /\ (pc = "cleanup" \/ exit \in {"0", "1"}) /\ container[scan] \in Held =>
       removal[scan] \in {"failed", "missed"}

-----------------------------------------------------------------------------
(* There is at least one scan, and scans are numbered from 1.              *)
LEMMA Numbers == Number = 1 .. Len(Scans) /\ Len(Scans) \in Nat \ {0}
  BY ScansAssumption DEF Number

(* The invariant holds before the first step.                              *)
LEMMA InitEstablishes == Init => IInv
  BY Numbers, SMTT(30) DEF Init, IInv, TypeOK, Held

(* No step of the script, its clients, the daemon or the runner breaks it. *)
LEMMA StepPreserves == IInv /\ [Next]_vars => IInv'
  <1> SUFFICES ASSUME IInv, [Next]_vars PROVE IInv'
    OBVIOUS
  <1> HIDE DEF Number
  <1>1. CASE CheckContext
    BY <1>1, Numbers, SMTT(60) DEF IInv, TypeOK, Held, CheckContext, RefuseRun, docker
  <1>2. CASE WriteConfig
    <2>1. /\ pc = "config" /\ message = "none"
          /\ UNCHANGED <<scan, client, container, removal, outputs, exit>>
      BY <1>2 DEF WriteConfig, docker, IInv
    <2>2. CASE pc' = "start" /\ credentials' = "config" /\ message' = message
      BY <2>1, <2>2, Numbers, SMTT(60) DEF IInv, TypeOK, Held
    <2>3. CASE pc' = "cleanup" /\ message' = "generic"
               /\ credentials' \in {"directory", "config"}
      BY <2>1, <2>3, Numbers, SMTT(60) DEF IInv, TypeOK, Held
    <2> QED  BY <1>2, <2>1, <2>2, <2>3 DEF WriteConfig
  <1>3. CASE StartScan
    BY <1>3, Numbers, SMTT(60) DEF IInv, TypeOK, Held, StartScan, FailScan, docker
  <1>4. CASE TakeReport
    BY <1>4, Numbers, SMTT(60) DEF IInv, TypeOK, Held, TakeReport, FailScan, docker
  <1>5. CASE WriteReport
    BY <1>5, Numbers, SMTT(60) DEF IInv, TypeOK, Held, WriteReport, FailScan, docker
  <1>6. CASE RemoveContainer
    BY <1>6, Numbers, SMTT(60) DEF IInv, TypeOK, Held, RemoveContainer
  <1>7. CASE AfterRemoval
    BY <1>7, Numbers, SMTT(60) DEF IInv, TypeOK, Held, AfterRemoval, RemovalOutcome, docker
  <1>8. CASE RemoveCredentials
    BY <1>8, Numbers, SMTT(60) DEF IInv, TypeOK, Held, RemoveCredentials, docker
  <1>9. CASE KillClient
    BY <1>9, Numbers, SMTT(60) DEF IInv, TypeOK, Held, KillClient, Scanning, Removing
  <1>10. CASE CreateRequested
    BY <1>10, Numbers, SMTT(60) DEF IInv, TypeOK, Held, CreateRequested, Scanning
  <1>11. CASE ScanClientEnds
    BY <1>11, Numbers, SMTT(60) DEF IInv, TypeOK, Held, ScanClientEnds, Scanning
  <1>12. CASE DaemonRemoves
    BY <1>12, Numbers, SMTT(60) DEF IInv, TypeOK, Held, DaemonRemoves, Removing
  <1>13. CASE RemovalFails
    BY <1>13, Numbers, SMTT(60) DEF IInv, TypeOK, Held, RemovalFails, Removing
  <1>14. ASSUME NEW n \in Number, ContainerStarts(n) PROVE IInv'
    BY <1>14, Numbers, SMTT(60) DEF IInv, TypeOK, Held, ContainerStarts
  <1>15. ASSUME NEW n \in Number, ContainerEnds(n) PROVE IInv'
    BY <1>15, Numbers, SMTT(60) DEF IInv, TypeOK, Held, ContainerEnds
  <1>16. CASE Kill
    BY <1>16, Numbers, SMTT(60) DEF IInv, TypeOK, Held, Kill, docker
  <1>17. CASE UNCHANGED vars
    BY <1>17, Numbers, SMTT(60) DEF vars, IInv, TypeOK, Held
  <1> QED  BY <1>1, <1>2, <1>3, <1>4, <1>5, <1>6, <1>7, <1>8, <1>9, <1>10, <1>11, <1>12, <1>13, <1>14, <1>15, <1>16, <1>17 DEF Next, ScanHosted, Daemon

(* The strengthened invariant of scan-v3.mts.                              *)
THEOREM Invariance == Spec => []IInv
  BY InitEstablishes, StepPreserves, PTL DEF Spec

(* The variables of scanHosted keep their types for any list of scans, and *)
(* the daemon only knows containers of scans that were begun.              *)
THEOREM TypeCorrect == Spec => []TypeOK
  <1>1. IInv => TypeOK
    BY DEF IInv
  <1> QED  BY <1>1, Invariance, PTL

(* However many scans there are and however the daemon behaves, an exit of *)
(* scan-v3.mts that was not forced leaves credentials only with that       *)
(* failure displayed, and a container only after a removal that failed or  *)
(* came before its creation; exit 0 leaves whole reports and neither.      *)
THEOREM NothingLeftInSilence == Spec => []LeftoversExplained
  <1>1. IInv => LeftoversExplained
    BY Numbers, SMTT(30) DEF IInv, TypeOK, Held, LeftoversExplained
  <1> QED  BY <1>1, Invariance, PTL

(* Whatever the cleanup meets, the cause of a failed scan stays the one    *)
(* displayed unless credentials remain.                                    *)
THEOREM CauseIsKept == Spec => CauseKept
  <1> DEFINE Kept == (message = "scan" \/ message = "limit") /\ message' # message =>
                       pc = "cleanup" /\ credentials' # "none"
  <1>1. IInv /\ [Next]_vars => [Kept]_vars
    <2> SUFFICES ASSUME IInv, Next PROVE Kept
      BY DEF vars
    <2>1. CASE CheckContext
      BY <2>1 DEF IInv, CheckContext
    <2>2. CASE WriteConfig
      BY <2>2 DEF IInv, WriteConfig
    <2>3. CASE StartScan
      BY <2>3 DEF IInv, TypeOK, StartScan
    <2>4. CASE TakeReport
      BY <2>4 DEF IInv, TypeOK, TakeReport
    <2>5. CASE WriteReport
      BY <2>5 DEF IInv, TypeOK, WriteReport
    <2>6. CASE RemoveCredentials
      BY <2>6 DEF IInv, TypeOK, RemoveCredentials
    <2>7. CASE RemoveContainer \/ AfterRemoval \/ KillClient \/ Kill
      BY <2>7 DEF RemoveContainer, AfterRemoval, KillClient, Kill
    <2>8. CASE Daemon
      BY <2>8 DEF Daemon, CreateRequested, ContainerStarts, ContainerEnds,
        ScanClientEnds, DaemonRemoves, RemovalFails
    <2> QED  BY <2>1, <2>2, <2>3, <2>4, <2>5, <2>6, <2>7, <2>8 DEF Next, ScanHosted
  <1> QED  BY <1>1, Invariance, PTL DEF Spec, CauseKept
=============================================================================
