------------------------------ MODULE MCLocalScan ------------------------------
(* Two images the tag may name, and reports just within and just beyond    *)
(* the limit.                                                              *)
EXTENDS LocalScan

MCLengths == {1, 2, 3}
=============================================================================
