--------------------------- MODULE MCRuntimeFiles ---------------------------
(* Files of up to three blocks against a limit of two: every way in which  *)
(* a file can grow, shrink, or keep its size with other bytes.             *)
EXTENDS RuntimeFiles

MCContents == {<<>>, <<"a">>, <<"a", "a">>, <<"b", "b">>, <<"a", "b", "b">>}
=============================================================================
