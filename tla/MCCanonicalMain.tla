---------------------------- MODULE MCCanonicalMain ----------------------------
(* Three commits on main with the run built from the middle one; bodies of *)
(* zero to three bytes against a limit of two, a timeout of two ticks.     *)
EXTENDS CanonicalMain

MCRevisions == 1 .. 3
MCResponseLengths == 0 .. 3
=============================================================================
