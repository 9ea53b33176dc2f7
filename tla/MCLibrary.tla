--------------------------------- MODULE MCLibrary ---------------------------------
(* The sizes at which each part meets its limits: see README.md. *)
EXTENDS Library

CONSTANTS a, b

MCNumbers == {-1, 0, 1, 2}
MCZones == {-1, 0, 1}
MCTexts == {<<>>, <<a>>, <<b, a>>}
===============================================================================
