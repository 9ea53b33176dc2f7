----------------------------- MODULE DequePromise -----------------------------
(***************************************************************************)
(* What grdeque promises the threads that pop from it: whoever gets past the  *)
(* wait of a pop has one element set aside, and finds one when its turn at    *)
(* the mutex comes.  clear() and assign() do not keep that promise: an        *)
(* element set aside may be thrown away.  The debt counts how many; a pop may *)
(* fail only while it is positive.                                           *)
(***************************************************************************)
EXTENDS Integers, FiniteSets

CONSTANT Threads

VARIABLES
  size,      \* how many elements there are
  reserved,  \* the threads that have one set aside
  debt,      \* elements promised that clear() and assign() have taken away
  failed     \* a thread did not find its element

vars == <<size, reserved, debt, failed>>

Init ==
  /\ size \in Nat
  /\ reserved = {}
  /\ debt = -size
  /\ failed = FALSE

Put ==
  /\ size' = size + 1
  /\ UNCHANGED <<reserved, debt, failed>>

Reserve(t) ==
  /\ t \notin reserved
  /\ Cardinality(reserved) < size + debt
  /\ reserved' = reserved \cup {t}
  /\ UNCHANGED <<size, debt, failed>>

Take(t) ==
  /\ t \in reserved
  /\ size > 0
  /\ size' = size - 1
  /\ reserved' = reserved \ {t}
  /\ UNCHANGED <<debt, failed>>

Fail(t) ==
  /\ t \in reserved
  /\ size = 0
  /\ debt > 0
  /\ failed' = TRUE
  /\ UNCHANGED <<size, reserved, debt>>

(* clear(): what is not set aside yet is not promised any more. *)
Clear ==
  /\ size' = 0
  /\ debt' = Cardinality(reserved)
  /\ UNCHANGED <<reserved, failed>>

(* assign(): the promises stand, whatever elements there are now. *)
Assign ==
  /\ size' \in Nat
  /\ debt' = debt + size - size'
  /\ UNCHANGED <<reserved, failed>>

Next ==
  \/ Put \/ Clear \/ Assign
  \/ \E t \in Threads : Reserve(t) \/ Take(t) \/ Fail(t)

Spec == Init /\ [][Next]_vars
===============================================================================
