------------------------------- MODULE MCGOTimer -------------------------------
(* Two receivers, three requests: a fast and a slow periodic event and a
   oneshot; a clock that starts at 0 or is about to turn over. *)
EXTENDS GOTimer

CONSTANTS a, b

MCDests == {a, b}
MCRequests ==
  {[dest |-> a, delay |-> 0, oneshot |-> FALSE],
   [dest |-> a, delay |-> 4, oneshot |-> FALSE],
   [dest |-> b, delay |-> 3, oneshot |-> TRUE]}
MCBoots == {0, 13}
===============================================================================
