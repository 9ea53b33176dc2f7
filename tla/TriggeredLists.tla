----------------------------- MODULE TriggeredLists -----------------------------
(***************************************************************************)
(* Several lists of callbacks (msgcb.cpp), used from inside each other: a list *)
(* may trigger another (MsgTriggerNode), and a callback of the program may use  *)
(* any of them.  A notification keeps the gate of its list while the callbacks  *)
(* run, so a thread takes gates while it holds others.                        *)
(*                                                                         *)
(* What MsgCB shows of one list is coarser here: the array has room, and       *)
(* invoke() may find its list blocked whenever it comes to it.  Of a callback,  *)
(* only what it invokes or, to remove it, stands for is of interest.           *)
(***************************************************************************)
EXTENDS Naturals, FiniteSets, Sequences, SequencesExt, RecursiveMutex

CONSTANTS
  Lists,
  Plain,      \* a callback of the program, as opposed to a MsgTriggerNode
  MaxChanges, \* bound: installations and removals over the life of the lists
  MaxPasses   \* bound: notifications of one thread inside each other

ASSUME ListsAssumption ==
  /\ IsFiniteSet(Lists) /\ IsFiniteSet(Threads) /\ Plain \notin Lists
  /\ MaxChanges \in Nat /\ MaxPasses \in Nat

VARIABLES
  nodes,  \* _cbArray of each list: lists that are triggered, and Plain
  gates,  \* _cbGate of each list
  calls,  \* the notifications a thread is inside of, the innermost last
  doing,  \* what a thread does next, and with what
  uses,   \* observer: <<l, m>> if m was used inside a notification of l
  changes \* observer: the installations and removals so far

listsVars == <<nodes, gates, calls, doing, uses, changes>>

Node == Lists \cup {Plain}
Call == [list : Lists, i : Nat, relayed : BOOLEAN]

(* "run": in the program, or in a callback; "loop": in invoke(); "fail": there, too,
   after a callback returned another value than 0.  The others wait for a gate: that of
   the list; Plain stands for no list. *)
Wishes == {"invoke", "relay", "install", "remove"}
Doing == [at : {"run", "loop", "fail"} \cup Wishes, list : Node, node : Node]

Idle(place) == [at |-> place, list |-> Plain, node |-> Plain]

ListsTypeOK ==
  /\ nodes \in [Lists -> Seq(Node)] /\ gates \in [Lists -> MutexOf(Threads)]
  /\ calls \in [Threads -> Seq(Call)] /\ doing \in [Threads -> Doing]
  /\ uses \subseteq Lists \X Lists /\ changes \in 0 .. MaxChanges

ListsInit ==
  /\ nodes = [l \in Lists |-> <<>>] /\ gates = [l \in Lists |-> Fresh]
  /\ calls = [t \in Threads |-> <<>>]
  /\ doing = [t \in Threads |-> Idle("run")]
  /\ uses = {} /\ changes = 0

-------------------------------------------------------------------------------
Top(t) == Last(calls[t])
Held(t) == {c.list : c \in ToSet(calls[t])}
Turn(t, place) == doing' = [doing EXCEPT ![t] = Idle(place)]

(* A thread comes to a gate. *)
Want(t, wish, l, n) ==
  /\ doing' = [doing EXCEPT ![t] = [at |-> wish, list |-> l, node |-> n]]
  /\ uses' = uses \cup (Held(t) \X {l})

(* trigger() and install(), remove() and invoke(), up to the gate. *)
InstallNode(t, l, n) ==
  /\ doing[t].at = "run" /\ changes < MaxChanges /\ changes' = changes + 1
  /\ Want(t, "install", l, n)
  /\ UNCHANGED <<nodes, gates, calls>>

RemoveNode(t, l, n) ==
  /\ doing[t].at = "run" /\ nodes[l] # <<>> /\ changes < MaxChanges /\ changes' = changes + 1
  /\ Want(t, "remove", l, n)
  /\ UNCHANGED <<nodes, gates, calls>>

InvokeList(t, l) ==
  /\ doing[t].at = "run" /\ nodes[l] # <<>> /\ Len(calls[t]) < MaxPasses
  /\ Want(t, "invoke", l, Plain)
  /\ UNCHANGED <<nodes, gates, calls, changes>>

At(t, places) == doing[t].at \in places
Gets(t, wishes) == At(t, wishes) /\ CanLock(gates[doing[t].list], t)

Store(t) ==
  /\ Gets(t, {"install"})
  /\ nodes' = [nodes EXCEPT ![doing[t].list] = Append(@, doing[t].node)]
  /\ Turn(t, "run") /\ UNCHANGED <<gates, calls, uses, changes>>

(* cb_erase() of the first node that stands for that list. *)
Erase(t) ==
  LET l == doing[t].list
      i == SelectInSeq(nodes[l], LAMBDA n : n = doing[t].node)
  IN /\ Gets(t, {"remove"})
     /\ nodes' = [nodes EXCEPT ![l] = IF i = 0 THEN @ ELSE RemoveAt(@, i)]
     /\ Turn(t, "run") /\ UNCHANGED <<gates, calls, uses, changes>>

(* Mistake: a trigger node notifies its list without the gate. *)
RelayUngated(t) ==
  LET l == doing[t].list
  IN /\ Gets(t, {"invoke"}) \/ At(t, {"relay"})
     /\ gates' = IF At(t, {"relay"}) THEN gates ELSE [gates EXCEPT ![l] = Locked(@, t)]
     /\ calls' = [calls EXCEPT ![t] =
                    Append(@, [list |-> l, i |-> 0, relayed |-> At(t, {"relay"})])]
     /\ Turn(t, "loop") /\ UNCHANGED <<nodes, uses, changes>>

(* invoke() has the gate ... *)
EnterList(t) ==
  LET l == doing[t].list
  IN /\ Gets(t, {"invoke", "relay"})
     /\ gates' = [gates EXCEPT ![l] = Locked(@, t)]
     /\ calls' = [calls EXCEPT ![t] =
                    Append(@, [list |-> l, i |-> 0, relayed |-> At(t, {"relay"})])]
     /\ Turn(t, "loop") /\ UNCHANGED <<nodes, uses, changes>>

(* ... and calls the next callback: one of the program, or a trigger node, that invokes
   its list unless that is blocked or empty. *)
CallNode(t) ==
  LET n == nodes[Top(t).list][Top(t).i + 1]
  IN /\ At(t, {"loop"}) /\ Top(t).i < Len(nodes[Top(t).list])
     /\ calls' = [calls EXCEPT ![t][Len(calls[t])].i = @ + 1]
     /\ \/ n = Plain /\ Turn(t, "run") /\ UNCHANGED uses
        \/ n # Plain /\ UNCHANGED <<doing, uses>>
        \/ n # Plain /\ nodes[n] # <<>> /\ Len(calls[t]) < MaxPasses /\ Want(t, "relay", n, Plain)
     /\ UNCHANGED <<nodes, gates, changes>>

(* A callback of the program returns 0, or another value. *)
CallReturns(t) ==
  /\ At(t, {"run"}) /\ calls[t] # <<>>
  /\ Turn(t, "loop") \/ Turn(t, "fail")
  /\ UNCHANGED <<nodes, gates, calls, uses, changes>>

(* Mistake: a callback that fails leaves the gate locked. *)
LeaveLocked(t) ==
  /\ At(t, {"fail"}) \/ (At(t, {"loop"}) /\ Top(t).i >= Len(nodes[Top(t).list]))
  /\ calls' = [calls EXCEPT ![t] = Front(@)]
  /\ gates' = IF At(t, {"fail"}) THEN gates ELSE [gates EXCEPT ![Top(t).list] = Unlocked(@, t)]
  /\ IF Top(t).relayed THEN UNCHANGED doing ELSE Turn(t, "run")
  /\ UNCHANGED <<nodes, uses, changes>>

(* The end of invoke(): its result is that of the trigger node, if one called it. *)
LeaveList(t) ==
  /\ At(t, {"fail"}) \/ (At(t, {"loop"}) /\ Top(t).i >= Len(nodes[Top(t).list]))
  /\ calls' = [calls EXCEPT ![t] = Front(@)]
  /\ gates' = [gates EXCEPT ![Top(t).list] = Unlocked(@, t)]
  /\ IF Top(t).relayed THEN UNCHANGED doing ELSE Turn(t, "run")
  /\ UNCHANGED <<nodes, uses, changes>>

ListsNext ==
  \E t \in Threads :
    \/ \E l \in Lists, n \in Node : InstallNode(t, l, n) \/ RemoveNode(t, l, n)
    \/ \E l \in Lists : InvokeList(t, l)
    \/ Store(t) \/ Erase(t) \/ EnterList(t)
    \/ CallNode(t) \/ CallReturns(t) \/ LeaveList(t)

ListsSpec == ListsInit /\ [][ListsNext]_listsVars

-------------------------------------------------------------------------------
(***************************************************************************)
(* One thread at a time notifies a list, however it came to it, and nobody     *)
(* keeps the gate of a list that he has left, whatever the callbacks returned. *)
(***************************************************************************)
NotifierHolds ==
  \A l \in Lists, t \in Threads : gates[l].owner = t <=> l \in Held(t)

(***************************************************************************)
(* As long as the lists can be put in an order in which they were used inside  *)
(* each other, no threads wait for each other in a circle; lists that trigger  *)
(* each other from two threads have no such order.                           *)
(***************************************************************************)
InAnOrder ==
  \E rank \in [Lists -> 1 .. Cardinality(Lists)] :
    \A use \in uses : use[1] # use[2] => rank[use[1]] < rank[use[2]]

WaitsFor(t) ==
  IF At(t, Wishes) /\ ~CanLock(gates[doing[t].list], t) THEN gates[doing[t].list].owner ELSE NoThread

NoCircle ==
  InAnOrder => \A circle \in SUBSET Threads : circle # {} => \E t \in circle : WaitsFor(t) \notin circle

(***************************************************************************)
(* Both: lists that are used inside each other (msgcb.cpp) serve one thread at  *)
(* a time and, in an order, all of them.                                     *)
(***************************************************************************)
ListsRight == NotifierHolds /\ NoCircle
===============================================================================
