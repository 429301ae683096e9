-------------------------- MODULE MCLegacyEvidence --------------------------
(* Reports of up to two findings whose severities are spelled in every way *)
(* that gate and writer could take differently: "dotless-critical" is a    *)
(* CRITICAL with dotless i, which only its upper case resolves, and        *)
(* "kelvin-unknown" an UNKNOWN with a Kelvin sign, only its lower case.    *)
EXTENDS LegacyEvidence, TLC

MCUpper == [critical |-> "CRITICAL", high |-> "HIGH"] @@ ("dotless-critical" :> "CRITICAL")
MCLower == [critical |-> "CRITICAL", high |-> "HIGH"] @@ ("kelvin-unknown" :> "UNKNOWN")
MCSpellings == {"critical", "high", "dotless-critical", "kelvin-unknown", "unsupported"}

MCFindings ==
  [severity : MCSpellings, complete : {TRUE}] \cup [severity : {"high"}, complete : {FALSE}]
MCReports ==
  [subject : {"candidate"}, readable : {TRUE},
   findings : UNION {[1 .. n -> MCFindings] : n \in 0 .. 2}]
  \cup [subject : {"other"}, readable : {TRUE}, findings : {<<>>}]

(* Members may change until the gate has read the report.                  *)
UntilGate == {"context", "verify", "scan-sbom", "scan-report", "gate"}
=============================================================================
