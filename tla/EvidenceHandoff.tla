--------------------------- MODULE EvidenceHandoff ---------------------------
(***************************************************************************)
(* What one run of the composite action promises its consumers, whichever  *)
(* contract version it follows: a complete and lawful handoff of verified  *)
(* provenance is signed, at most once; only what was signed is uploaded as *)
(* admissible; rejected diagnostics never accompany an admissible artifact *)
(* and are only kept for verified provenance; a cancelled run publishes    *)
(* nothing more, and nothing follows the end of the run.                   *)
(***************************************************************************)
CONSTANTS
  Handoff,       \* names of the files of a complete handoff
  Diagnostics,   \* names of the files of the rejected diagnostics
  Lawful(_)      \* whether a complete handoff may be signed

VARIABLES
  verified,      \* the provenance of the image was verified
  cancelled,     \* the run was cancelled
  signed,        \* the attested files
  admissible,    \* the files of the admissible artifact
  rejected,      \* the files of the rejected diagnostics artifact
  ended

products == <<signed, admissible, rejected>>
vars == <<verified, cancelled, products, ended>>

Nothing == [name \in {} |-> name]

Init ==
  /\ verified = FALSE
  /\ cancelled = FALSE
  /\ signed = Nothing
  /\ admissible = Nothing
  /\ rejected = Nothing
  /\ ended = FALSE

Open == ~ended /\ ~cancelled

Verify ==
  /\ Open /\ verified' = TRUE
  /\ UNCHANGED <<cancelled, products, ended>>

Sign ==
  /\ Open /\ verified /\ signed = Nothing
  /\ DOMAIN signed' = Handoff /\ Lawful(signed')
  /\ UNCHANGED <<verified, cancelled, admissible, rejected, ended>>

Admit ==
  /\ Open /\ signed # Nothing /\ admissible = Nothing
  /\ admissible' = signed
  /\ UNCHANGED <<verified, cancelled, signed, rejected, ended>>

(* A cancellation may end the run on the spot.                             *)
Cancel ==
  /\ Open /\ cancelled' = TRUE /\ ended' \in BOOLEAN
  /\ UNCHANGED <<verified, products>>

(* Diagnostics are left behind, if at all, by the last step.               *)
End ==
  /\ ~ended /\ ended' = TRUE
  /\ \/ UNCHANGED rejected
     \/ /\ ~cancelled /\ verified /\ admissible = Nothing
        /\ DOMAIN rejected' \subseteq Diagnostics
  /\ UNCHANGED <<verified, cancelled, signed, admissible>>

Next == Verify \/ Sign \/ Admit \/ Cancel \/ End

Spec == Init /\ [][Next]_vars
=============================================================================
