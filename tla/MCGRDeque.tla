------------------------------- MODULE MCGRDeque -------------------------------
(* The instance of GRDeque that TLC checks. *)
EXTENDS GRDeque

CONSTANTS t1, t2, t3, v1, v2

MCThreads == {t1, t2, t3}
MCValues == {v1, v2}
MCContents == {<<>>, <<v1>>}
===============================================================================
