------------------------ MODULE MCVulnerabilityPolicy ------------------------
(* Bounded inputs for VulnerabilityPolicy: time runs from 0 to 4, a risk   *)
(* acceptance lives at most 2 units, a not-affected statement 3.           *)
EXTENDS VulnerabilityPolicy

Purl(package, version) ==
  [package |-> package, version |-> version, supportedArch |-> TRUE]
ForeignPurl == [package |-> "lib", version |-> 1, supportedArch |-> FALSE]

(* A well-formed record; the variants below break one relation each.       *)
Approve(id, cve, name, type, from, to) ==
  [id |-> id, component |-> "service", type |-> type,
   package   |-> [name |-> name, version |-> 1, purl |-> Purl("lib", 1)],
   createdAt |-> from, approval |-> [by |-> "owner", at |-> from], expiresAt |-> to,
   vex |-> [id |-> id, author |-> "owner", timestamp |-> from, product |-> "service",
            subcomponent |-> Purl("lib", 1), vulnerability |-> cve,
            status |-> VexStatus(type)]]

Risk     == Approve(2, "cve1", "lib", "risk-accepted", 1, 3)
NotAff   == Approve(1, "cve2", "lib", "not-affected", 1, 4)
Alias    == Approve(3, "cve2", "alias", "risk-accepted", 0, 2)
SameId   == Approve(2, "cve2", "lib", "risk-accepted", 1, 2)
TooLong  == Approve(4, "cve1", "lib", "risk-accepted", 1, 4)
Valid    == {Risk, NotAff, Alias}
Broken   == {SameId, TooLong,
             [Risk EXCEPT !.component = "agent", !.vex.product = "agent"],
             [Risk EXCEPT !.vex.timestamp = 0],
             [Risk EXCEPT !.vex.status = "not_affected"],
             [Risk EXCEPT !.createdAt = 2],
             [Risk EXCEPT !.package.purl = ForeignPurl, !.vex.subcomponent = ForeignPurl],
             [Risk EXCEPT !.vex.subcomponent = Purl("lib", 2)]}

MCExemptionRecords == Valid \cup Broken

RecordLists ==
  {<<>>} \cup {<<r>> : r \in Valid \cup Broken}
  \cup {<<r, q>> : r \in Valid, q \in Valid \cup {SameId}} \cup {<<Risk, Alias, Risk>>}

Finding(cve, name, version, purl, severity) ==
  [vulnerabilityId |-> cve, name |-> name, version |-> version,
   purl |-> purl, severity |-> severity]

FindingSet ==
  {Finding("cve1", "lib", 1, Purl("lib", 1), "CRITICAL"),
   Finding("cve2", "lib", 1, Purl("lib", 1), "CRITICAL"),
   Finding("cve2", "alias", 1, Purl("lib", 1), "CRITICAL"),
   Finding("cve1", "lib", 2, Purl("lib", 1), "CRITICAL"),
   Finding("cve1", "lib", 1, NoPurl, "CRITICAL"),
   Finding("cve1", "lib", 1, ForeignPurl, "CRITICAL"),
   Finding("cve1", "lib", 1, Purl("lib", 1), "HIGH")}

Unrated == Finding("cve1", "lib", 1, NoPurl, "critical?")

MCFindings == FindingSet \cup {Unrated}

FindingLists ==
  {<<>>} \cup {<<f>> : f \in MCFindings} \cup {<<f, g>> : f, g \in FindingSet}
  \cup {<<f, g, f>> : f, g \in FindingSet} \cup {<<f, f, f, f>> : f \in FindingSet}

OwnImage   == [kind |-> "digest", component |-> "service"]
OtherImage == [kind |-> "digest", component |-> "agent"]
LocalImage == [kind |-> "tag", component |-> "service"]

Input(subjectKind, image, scanned, platform, records, findings, now, approved) ==
  [component |-> "service", subjectKind |-> subjectKind, image |-> image,
   records |-> records, now |-> now, useApprovedExemptions |-> approved,
   report |-> [image |-> scanned, platform |-> platform, findings |-> findings]]

(* Every report with every record list in a good context, and one report   *)
(* in the contexts the evaluator must turn away.                           *)
MCInputs ==
  {Input("immutable-ghcr", OwnImage, OwnImage, "linux/amd64", r, f, now, a) :
     r \in RecordLists, f \in FindingLists, now \in 0 .. 4, a \in BOOLEAN}
  \cup
  {Input(kind, image, scanned, platform, <<Risk>>,
         <<Finding("cve1", "lib", 1, Purl("lib", 1), "CRITICAL")>>, 2, a) :
     kind \in {"immutable-ghcr", "local"},
     image \in {OwnImage, OtherImage, LocalImage},
     scanned \in {OwnImage, OtherImage, LocalImage},
     platform \in {"linux/amd64", "other"}, a \in BOOLEAN}

(* Rechecks against the same records, fewer, changed or invalid ones.      *)
MCRechecks == [trusted : RecordLists, now : 1 .. 4]
=============================================================================
