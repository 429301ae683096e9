----------------------------- MODULE HostedScan -----------------------------
(***************************************************************************)
(* scan-v3.mts: the two bounded scans of the published image, each in a    *)
(* named container of the Docker daemon that reads the registry            *)
(* credentials from a private directory.  The docker client may hang,      *)
(* fail or be killed at its limits, the daemon works on without it, the    *)
(* cleanup may fail in turn, and the runner may kill the script anywhere.  *)
(***************************************************************************)
EXTENDS Integers, Sequences

CONSTANT Scans   \* the scans in their order, by the file they produce

ASSUME ScansAssumption == Scans \in Seq(STRING) /\ Scans # <<>>

VARIABLES
  pc,           \* where scanHosted is
  scan,         \* which scan it is at
  credentials,  \* registryConfigDirectory: none, directory or config
  client,       \* the docker client of the running runCommand
  container,    \* the named container of each scan, at the daemon
  removal,      \* how the removal of each scan's container went
  outputs,      \* security-evidence, by scan
  message,      \* the failure to be displayed
  exit          \* exit status, or that the script was killed

vars == <<pc, scan, credentials, client, container, removal, outputs, message, exit>>
docker == <<client, container>>

Number == DOMAIN Scans

Init ==
  /\ pc = "context"
  /\ scan = 1
  /\ credentials = "none"
  /\ client = "none"
  /\ container = [n \in Number |-> "none"]
  /\ removal = [n \in Number |-> "none"]
  /\ outputs \in [Number -> {"absent", "other"}]
  /\ message = "none"
  /\ exit = "pending"

-----------------------------------------------------------------------------
(* The Docker daemon.  It finishes what a client asked for, even when that *)
(* client is gone.                                                         *)
Scanning == pc = "scanning" /\ client = "running"
Removing == pc = "removing" /\ client = "running"

CreateRequested ==
  /\ Scanning /\ container[scan] = "none"
  /\ container' = [container EXCEPT ![scan] = "requested"]
  /\ UNCHANGED <<client, pc, scan, credentials, removal, outputs, message, exit>>

ContainerStarts(n) ==
  /\ container[n] = "requested"
  /\ container' = [container EXCEPT ![n] = "running"]
  /\ UNCHANGED <<client, pc, scan, credentials, removal, outputs, message, exit>>

(* Trivy ends on its own (--timeout 5m); --rm removes its container.       *)
ContainerEnds(n) ==
  /\ container[n] = "running"
  /\ container' = [container EXCEPT ![n] = "gone"]
  /\ UNCHANGED <<client, pc, scan, credentials, removal, outputs, message, exit>>

(* The client succeeds only after its container ended, with a report or    *)
(* without one; it may fail at any time.                                   *)
ScanClientEnds ==
  /\ Scanning
  /\ client' \in {"failed"} \cup IF container[scan] = "gone" THEN {"report", "empty"} ELSE {}
  /\ UNCHANGED <<container, pc, scan, credentials, removal, outputs, message, exit>>

(* rm --force removes the container that exists by now; without one it has *)
(* nothing to remove.  The client may learn of it or not.                  *)
DaemonRemoves ==
  /\ Removing
  /\ container' = [container EXCEPT ![scan] = IF @ = "running" THEN "gone" ELSE @]
  /\ client' \in {"failed", IF container[scan] = "running" THEN "removed" ELSE "missed"}
  /\ UNCHANGED <<pc, scan, credentials, removal, outputs, message, exit>>

RemovalFails ==
  /\ Removing
  /\ client' = "failed"
  /\ UNCHANGED <<container, pc, scan, credentials, removal, outputs, message, exit>>

Daemon ==
  \/ CreateRequested \/ ScanClientEnds \/ DaemonRemoves \/ RemovalFails
  \/ \E n \in Number : ContainerStarts(n) \/ ContainerEnds(n)

-----------------------------------------------------------------------------
(* The script.                                                             *)

(* Nothing to clean up yet: the credentials do not exist.                  *)
RefuseRun ==
  /\ pc' = "done" /\ exit' = "1" /\ message' = "generic"
  /\ UNCHANGED <<scan, credentials, docker, removal, outputs>>

CheckContext ==
  /\ pc = "context"
  /\ \/ pc' = "config" /\ credentials' = "directory"
        /\ UNCHANGED <<scan, docker, removal, outputs, message, exit>>
     \/ RefuseRun

(* The config file is private, and may be written in part.                 *)
WriteConfig ==
  /\ pc = "config"
  /\ \/ pc' = "start" /\ credentials' = "config" /\ UNCHANGED message
     \/ pc' = "cleanup" /\ credentials' \in {"directory", "config"} /\ message' = "generic"
  /\ UNCHANGED <<scan, docker, removal, outputs, exit>>

(* A failing scan: its container is removed before the failure is thrown.  *)
FailScan(cause) ==
  /\ pc' = "remove" /\ message' = cause
  /\ UNCHANGED <<scan, credentials, docker, removal, exit>>

StartScan ==
  /\ pc = "start"
  /\ \/ pc' = "scanning" /\ client' = "running"
        /\ UNCHANGED <<scan, credentials, container, removal, outputs, message, exit>>
     \/ \E cause \in {"scan", "limit"} : FailScan(cause) /\ UNCHANGED outputs

(* Mutant: only the scan has a time limit.                                 *)
KillScanOnly ==
  /\ Scanning
  /\ client' = "killed"
  /\ UNCHANGED <<container, pc, scan, credentials, removal, outputs, message, exit>>

(* execFileSync kills a client that exceeds its time or its output limit.  *)
KillClient ==
  /\ Scanning \/ Removing
  /\ client' = "killed"
  /\ UNCHANGED <<container, pc, scan, credentials, removal, outputs, message, exit>>

(* An empty report has a message of its own.                               *)
TakeReport ==
  /\ pc = "scanning" /\ client # "running"
  /\ \/ client = "report" /\ pc' = "write"
        /\ UNCHANGED <<scan, credentials, docker, removal, message, exit>>
     \/ client = "empty" /\ FailScan("limit")
     \/ client \in {"failed", "killed"} /\ FailScan("scan")
  /\ UNCHANGED outputs

(* The report is written exclusively, perhaps in part.                     *)
WriteReport ==
  /\ pc = "write"
  /\ \/ /\ outputs[scan] = "absent"
        /\ outputs' = [outputs EXCEPT ![scan] = "whole"]
        /\ IF scan = Len(Scans) THEN pc' = "cleanup" /\ UNCHANGED scan
                                ELSE pc' = "start" /\ scan' = scan + 1
        /\ UNCHANGED <<credentials, docker, removal, message, exit>>
     \/ /\ FailScan("scan")
        /\ outputs' = [outputs EXCEPT ![scan] = IF @ = "absent" THEN "partial" ELSE @]
     \/ FailScan("scan") /\ UNCHANGED outputs

(* Mutant: the container is only removed when its client was killed.       *)
RemoveWhenKilled ==
  /\ pc = "remove"
  /\ IF client = "killed" THEN pc' = "removing" /\ client' = "running"
                          ELSE pc' = "cleanup" /\ UNCHANGED client
  /\ UNCHANGED <<scan, credentials, container, removal, outputs, message, exit>>

RemoveContainer ==
  /\ pc = "remove"
  /\ pc' = "removing" /\ client' = "running"
  /\ UNCHANGED <<scan, credentials, container, removal, outputs, message, exit>>

RemovalOutcome ==
  IF client \in {"removed", "missed"} THEN client ELSE "failed"

(* Mutant: the failure of the removal replaces that of the scan.           *)
AfterRemovalThrowing ==
  /\ pc = "removing" /\ client # "running"
  /\ removal' = [removal EXCEPT ![scan] = RemovalOutcome]
  /\ message' = IF RemovalOutcome = "failed" THEN "generic" ELSE message
  /\ pc' = "cleanup"
  /\ UNCHANGED <<scan, credentials, docker, outputs, exit>>

(* However the removal went, the failure of the scan is thrown.            *)
AfterRemoval ==
  /\ pc = "removing" /\ client # "running"
  /\ removal' = [removal EXCEPT ![scan] = RemovalOutcome]
  /\ pc' = "cleanup"
  /\ UNCHANGED <<scan, credentials, docker, outputs, message, exit>>

(* finally: the credentials are removed, or that failure is displayed.     *)
RemoveCredentials ==
  /\ pc = "cleanup"
  /\ \/ credentials' = "none" /\ exit' = (IF message = "none" THEN "0" ELSE "1")
        /\ UNCHANGED message
     \/ credentials' \in {"directory", credentials} /\ exit' = "1" /\ message' = "generic"
  /\ pc' = "done"
  /\ UNCHANGED <<scan, docker, removal, outputs>>

(* A signal ends the script at once: it has no handler.                    *)
Kill ==
  /\ exit = "pending"
  /\ exit' = "killed" /\ pc' = "done"
  /\ UNCHANGED <<scan, credentials, docker, removal, outputs, message>>

ScanHosted ==
  \/ CheckContext \/ WriteConfig \/ StartScan \/ TakeReport \/ WriteReport
  \/ RemoveContainer \/ AfterRemoval \/ RemoveCredentials

Next == ScanHosted \/ KillClient \/ Daemon \/ Kill

(* The script runs on unless it waits for a client, and execFileSync ends  *)
(* every wait at its limit; nothing is assumed of the daemon.              *)
Spec == Init /\ [][Next]_vars /\ WF_vars(ScanHosted) /\ WF_vars(KillClient)

-----------------------------------------------------------------------------
(* Properties.                                                             *)

(* Types; the daemon only knows containers of scans that were begun, and   *)
(* no client runs outside a wait of the living script.                     *)
TypeOK ==
  /\ pc \in {"context", "config", "start", "scanning", "write", "remove", "removing",
             "cleanup", "done"}
  /\ scan \in Number
  /\ credentials \in {"none", "directory", "config"}
  /\ client \in {"none", "running", "failed", "killed", "report", "empty",
                "removed", "missed"}
  /\ container \in [Number -> {"none", "requested", "running", "gone"}]
  /\ removal \in [Number -> {"none", "removed", "missed", "failed"}]
  /\ outputs \in [Number -> {"absent", "other", "partial", "whole"}]
  /\ message \in {"none", "generic", "scan", "limit"}
  /\ exit \in {"pending", "0", "1", "killed"}
  /\ client = "running" => pc \in {"scanning", "removing"} \/ exit = "killed"
  /\ \A n \in Number :
       n > scan => container[n] = "none" /\ outputs[n] \in {"absent", "other"}
  /\ pc \in {"start", "scanning", "write"} => credentials = "config" /\ message = "none"

(* A script that was not killed leaves nothing behind in silence: exit 0   *)
(* means whole reports, no credentials and no container; after a failure   *)
(* credentials remain only with the failure of their removal displayed,    *)
(* and a container only if its removal failed or came before its creation  *)
(* (the catch and finally blocks of scanHosted).                           *)
LeftoversExplained ==
  exit \in {"0", "1"} =>
    /\ credentials # "none" => exit = "1" /\ message = "generic"
    /\ exit = "0" => \A n \in Number : outputs[n] = "whole" /\ container[n] = "gone"
    /\ \A n \in Number : container[n] = "running" => removal[n] \in {"failed", "missed"}

(* The failure of a scan is what is displayed, even if the removal of its  *)
(* container also fails; only credentials that remain are more important.  *)
CauseKept ==
  [][(message = "scan" \/ message = "limit") /\ message' # message =>
       pc = "cleanup" /\ credentials' # "none"]_vars

(* The script ends, whatever the daemon does or leaves undone.             *)
ScanSettles == <>(exit # "pending")
=============================================================================
