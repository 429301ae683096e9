---------------------------- MODULE MCHostedScan ----------------------------
(* The two scans of scanHosted; an output may exist before.                *)
EXTENDS HostedScan

MCScans == <<"sbom", "report">>
=============================================================================
