----------------------------- MODULE MCGOStateMachine -----------------------------
(* Two states with transitions to each other; both have a timeout, or one. *)
EXTENDS GOStateMachine

CONSTANTS a, b, go, user, other

Other(n) == IF n = a THEN b ELSE a

Machine(timed) ==
  [trans |-> [n \in {a, b} |-> [e \in {go} |-> Other(n)]],
   dest |-> [n \in {a, b} |-> IF n \in timed THEN Other(n) ELSE Nobody]]

MCMachines == {Machine({a, b}), Machine({a})}
MCTimed == {Machine({a, b})}
MCNames == {a, b}
MCEvents == {go}
===============================================================================
