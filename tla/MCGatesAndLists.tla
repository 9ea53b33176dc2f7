---------------------------- MODULE MCGatesAndLists ----------------------------
(* The instances of MutexGate, TriggeredLists and ListCopies that TLC checks.  They
   share no state but what the code has of each; a behaviour is one of the part that
   `subject` names, while the others rest. *)
EXTENDS MutexGate, TriggeredLists, ListCopies

CONSTANTS t1, t2, t3

MCThreads == {t1, t2, t3}

VARIABLE subject

allVars == <<subject, gateVars, listsVars, copiesVars>>

Init ==
  /\ subject \in {"gate", "lists", "copies"}
  /\ GateInit /\ ListsInit /\ CopiesInit
  /\ subject # "gate" => kind = "MutexGate"

Next ==
  /\ UNCHANGED subject
  /\ IF subject = "gate" THEN GateNext ELSE UNCHANGED gateVars
  /\ IF subject = "lists" THEN [ListsNext]_listsVars ELSE UNCHANGED listsVars
  /\ IF subject = "copies" THEN CopiesNext ELSE UNCHANGED copiesVars

Spec == Init /\ [][Next]_allVars /\ GateFairness
===============================================================================
