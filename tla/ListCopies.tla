------------------------------- MODULE ListCopies -------------------------------
(***************************************************************************)
(* The lives of lists of callbacks (msgcb.cpp) that are copied with the objects *)
(* they belong to: GOObject, CBNode and GOEventNode copy their MsgCB.  A copy    *)
(* has the callbacks of its original, but it does not delete them; an object     *)
(* that is gone may have made room for a new one at its address, and so may a     *)
(* callback.                                                                *)
(*                                                                         *)
(* Left out: the order and number of the callbacks, the block count (a copy has   *)
(* that of its original), and what happens to a list after it called a callback  *)
(* that is gone.                                                             *)
(***************************************************************************)
EXTENDS FiniteSets

CONSTANTS
  Objects,   \* where objects with a MsgCB may be
  Observers  \* where Callback objects may be

VARIABLES
  objects,  \* those that are
  held,     \* _cbArray of each
  isCopy,   \* _isCopy of each
  original, \* observer: the list, not a copy, that a copy comes from
  heap,     \* the Callback objects that are
  loose,    \* those that the program has: remove() returned them
  inCopies, \* observer: those that were installed in a copy
  mishaps   \* observer: what went wrong, see the properties

copiesVars == <<objects, held, isCopy, original, heap, loose, inCopies, mishaps>>

CopiesTypeOK ==
  /\ objects \subseteq Objects
  /\ held \in [Objects -> SUBSET Observers]
  /\ isCopy \in [Objects -> BOOLEAN]
  /\ original \in [Objects -> Objects]
  /\ heap \subseteq Observers /\ loose \subseteq Observers /\ inCopies \subseteq Observers
  /\ mishaps \subseteq {"outlived", "taken", "twice"}

CopiesInit ==
  /\ objects = {} /\ heap = {} /\ loose = {} /\ inCopies = {} /\ mishaps = {}
  /\ held = [o \in Objects |-> {}]
  /\ isCopy = [o \in Objects |-> FALSE]
  /\ original = [o \in Objects |-> o]

Note(what, happened) == IF happened THEN {what} ELSE {}

-------------------------------------------------------------------------------
(* MsgCB(srcObj). *)
Construct(o) ==
  /\ o \notin objects
  /\ objects' = objects \cup {o}
  /\ held' = [held EXCEPT ![o] = {}]
  /\ isCopy' = [isCopy EXCEPT ![o] = FALSE]
  /\ original' = [original EXCEPT ![o] = o]
  /\ UNCHANGED <<heap, loose, inCopies, mishaps>>

(* Mistake: clearList() deletes the callbacks of a copy, too. *)
ClearsAll(o) == held[o]

(* What clearList() deletes. *)
Clears(o) == IF isCopy[o] THEN {} ELSE held[o]

(* A list is cleared: what is deleted, and whether a copy of it remains. *)
ClearList(o) ==
  /\ heap' = heap \ Clears(o)
  /\ mishaps' = mishaps
       \cup Note("outlived", ~isCopy[o] /\ \E p \in objects \ {o} : isCopy[p] /\ original[p] = o)
       \cup Note("twice", ~(Clears(o) \subseteq heap))

(* ~MsgCB(). *)
Destroy(o) ==
  /\ o \in objects
  /\ ClearList(o)
  /\ objects' = objects \ {o}
  /\ held' = [held EXCEPT ![o] = {}]
  /\ UNCHANGED <<isCopy, original, loose, inCopies>>

(* Mistake: what has been assigned to is no copy. *)
BecomesOwner(o, p, callbacks) ==
  /\ held' = [held EXCEPT ![o] = callbacks]
  /\ isCopy' = [isCopy EXCEPT ![o] = FALSE]
  /\ original' = [original EXCEPT ![o] = o]

BecomesCopy(o, p, callbacks) ==
  /\ held' = [held EXCEPT ![o] = callbacks]
  /\ isCopy' = [isCopy EXCEPT ![o] = TRUE]
  /\ original' = [original EXCEPT ![o] = IF isCopy[p] THEN original[p] ELSE p]

(* MsgCB(const MsgCB&), also by way of CBNode, GOEventNode and GOObject. *)
CopyConstruct(o, p) ==
  /\ o \notin objects /\ p \in objects
  /\ objects' = objects \cup {o}
  /\ BecomesCopy(o, p, held[p])
  /\ UNCHANGED <<heap, loose, inCopies, mishaps>>

(* Mistake: operator= does not clear the list first. *)
AssignOver(o, p) ==
  /\ o \in objects /\ p \in objects
  /\ BecomesCopy(o, p, held[p])
  /\ UNCHANGED <<objects, heap, loose, inCopies, mishaps>>

(* operator=: a list that is assigned to itself is cleared before it is copied. *)
Assign(o, p) ==
  /\ o \in objects /\ p \in objects
  /\ ClearList(o)
  /\ BecomesCopy(o, p, IF o = p THEN {} ELSE held[p])
  /\ UNCHANGED <<objects, loose, inCopies>>

(* install() and trigger() of a new callback, or of one that the program has. *)
InstallIn(o, c) ==
  /\ o \in objects /\ (c \in loose \/ c \notin heap)
  /\ held' = [held EXCEPT ![o] = @ \cup {c}]
  /\ heap' = heap \cup {c}
  /\ loose' = loose \ {c}
  /\ inCopies' = IF isCopy[o] THEN inCopies \cup {c} ELSE inCopies \ {c}
  /\ UNCHANGED <<objects, isCopy, original, mishaps>>

(* remove() hands the callback to the program, whatever nukeNode says ... *)
RemoveFrom(o, c) ==
  /\ o \in objects /\ held[o] \subseteq heap /\ c \in held[o]
  /\ held' = [held EXCEPT ![o] = @ \ {c}]
  /\ loose' = loose \cup {c}
  /\ inCopies' = inCopies \ {c}
  /\ mishaps' = mishaps \cup Note("taken", \E p \in objects \ {o} : c \in held[p])
  /\ UNCHANGED <<objects, isCopy, original, heap>>

(* ... which may delete it. *)
DeleteLoose(c) ==
  /\ c \in loose
  /\ loose' = loose \ {c} /\ heap' = heap \ {c}
  /\ UNCHANGED <<objects, held, isCopy, original, inCopies, mishaps>>

CopiesNext ==
  \/ \E o \in Objects : Construct(o) \/ Destroy(o)
  \/ \E o, p \in Objects : CopyConstruct(o, p) \/ Assign(o, p)
  \/ \E o \in Objects, c \in Observers : InstallIn(o, c) \/ RemoveFrom(o, c)
  \/ \E c \in Observers : DeleteLoose(c)

CopiesSpec == CopiesInit /\ [][CopiesNext]_copiesVars

-------------------------------------------------------------------------------
(***************************************************************************)
(* "don't delete the callbacks - this is a copy" (msgcb.cpp): a list calls only *)
(* callbacks that there are, as long as an original outlives its copies and      *)
(* what remove() handed out was in one list only.                              *)
(***************************************************************************)
CallsLive ==
  {"outlived", "taken"} \cap mishaps = {} => \A o \in objects : held[o] \subseteq heap

(***************************************************************************)
(* No callback is deleted by two lists, in whatever order originals and copies  *)
(* go, unless remove() took it out of one list only and it was installed or     *)
(* deleted then.                                                             *)
(***************************************************************************)
DeletedOnce == "taken" \notin mishaps => "twice" \notin mishaps

(***************************************************************************)
(* Every callback there is has somebody who will delete it: a list that is no   *)
(* copy, or the program, that got it from remove(); but for those that were      *)
(* installed in a copy, which no list deletes.                                *)
(***************************************************************************)
NothingLost ==
  heap \subseteq loose \cup inCopies \cup UNION {held[o] : o \in {p \in objects : ~isCopy[p]}}

(***************************************************************************)
(* Copies and assignments of lists (msgcb.cpp) leave every callback with one     *)
(* list that deletes it, and it is there for those that call it.               *)
(***************************************************************************)
CopiesRight == CallsLive /\ DeletedOnce /\ NothingLost
===============================================================================
