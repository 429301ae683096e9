---------------------------- MODULE PolicyDecision ----------------------------
(***************************************************************************)
(* What the vulnerability evaluator promises, without its loops: from one  *)
(* input the policy either refuses to decide or gives, in one step, a      *)
(* verdict that depends only on which findings and approvals there are.    *)
(***************************************************************************)
EXTENDS Integers, Sequences, FiniteSets

CONSTANTS
  Severities, ExemptionTypes,
  Acceptable(_),        \* the input and its report may be evaluated
  Covers(_, _),         \* a record's exact scope is the finding's
  SoonWindow,           \* warning window before an expiry
  MaxEvaluationItems    \* bound on what one verdict may hold

VARIABLES input, verdict

Pending == [status |-> "pending"]
Refused == [status |-> "refused"]

(* The approvals of an input: none at all in strict mode.                  *)
Approvals(in) ==
  {in.records[k] : k \in IF in.useApprovedExemptions THEN DOMAIN in.records ELSE {}}

Criticals(in) ==
  {k \in DOMAIN in.report.findings : in.report.findings[k].severity = "CRITICAL"}

Matched(in, record) ==
  {k \in Criticals(in) : Covers(record, in.report.findings[k])}

Alive(in) == {r \in Approvals(in) : in.now < r.expiresAt}

(* CRITICAL findings no live approval covers.                              *)
Blocking(in) == Criticals(in) \ UNION {Matched(in, r) : r \in Alive(in)}

Used(in) == {r \in Alive(in) : Matched(in, r) # {}}

(* The warnings each approval must raise, and no others.                   *)
Codes(in, r) ==
  LET left == r.expiresAt - in.now IN
  {code \in {"exemption-applied", "expires-soon", "unused-exemption",
             "unused-expired-exemption", "expired-exemption"} :
     CASE code = "exemption-applied"        -> r \in Used(in)
       [] code = "expires-soon"             -> r \in Used(in) /\ left <= SoonWindow
       [] code = "unused-exemption"         -> Matched(in, r) = {} /\ left > 0
       [] code = "unused-expired-exemption" -> Matched(in, r) = {} /\ left <= 0
       [] code = "expired-exemption"        -> Matched(in, r) # {} /\ left <= 0}

Warned(in) ==
  UNION {{[code |-> c, exemptionId |-> r.id] : c \in Codes(in, r)} : r \in Approvals(in)}

Outcome(in) ==
  IF Blocking(in) # {} THEN "failed"
  ELSE IF Criticals(in) # {} THEN "passed-with-exemptions" ELSE "passed"

Verdict(in) ==
  [status   |-> "decided",
   result   |-> Outcome(in),
   counts   |-> [s \in Severities |->
                   Cardinality({k \in DOMAIN in.report.findings :
                                  in.report.findings[k].severity = s})],
   blocking |-> Cardinality(Blocking(in)),
   exempted |-> [t \in ExemptionTypes |->
                   Cardinality(UNION {Matched(in, r) : r \in {u \in Used(in) : u.type = t}})],
   used     |-> {r.id : r \in Used(in)},
   warned   |-> Warned(in)]

WithinBound(in) ==
  Len(in.report.findings) + Cardinality(Used(in)) + Cardinality(Warned(in))
    <= MaxEvaluationItems

Init ==
  verdict = Pending

Decide ==
  /\ verdict = Pending
  /\ verdict' = IF Acceptable(input) /\ WithinBound(input)
                THEN Verdict(input) ELSE Refused
  /\ UNCHANGED input

Spec == Init /\ [][Decide]_<<input, verdict>>
=============================================================================
