----------------------------- MODULE GRDequeProofs -----------------------------
(***************************************************************************)
(* What holds of a grdeque for any number of threads and elements.  The       *)
(* accounting of the permits and the rule that no wake-up is lost are          *)
(* inductive together with the types; the promise of DequePromise follows     *)
(* from the accounting.                                                     *)
(***************************************************************************)
EXTENDS GRDeque, SequenceFacts, FiniteSetTheorems

(* The threads that are at a place, and how many, for a control f. *)
Where(f, place) == {t \in Threads : f[t] = place}
Num(f, place) == Cardinality(Where(f, place))

IInv == TypeOK /\ Accounting /\ NoLostWakeup

-------------------------------------------------------------------------------
(***************************************************************************)
(* Counting threads.                                                        *)
(***************************************************************************)
LEMMA NumType ==
  ASSUME NEW f, NEW place
  PROVE  /\ IsFiniteSet(Where(f, place)) /\ Num(f, place) \in Nat
         /\ Where(f, place) = {} <=> Num(f, place) = 0
<1>1. IsFiniteSet(Where(f, place))
  BY DequeAssumption, FS_Subset DEF Where
<1> QED
  BY <1>1, FS_CardinalityType, FS_EmptySet DEF Num

(* A thread that moves leaves one place and reaches another. *)
Moved(f, g, from, to) ==
  /\ f \in [Threads -> Control]
  /\ from # to
  /\ \E t \in Threads : f[t] = from /\ g = [f EXCEPT ![t] = to]

LEMMA Move ==
  ASSUME NEW f, NEW g, NEW from, NEW to, Moved(f, g, from, to), NEW place
  PROVE  /\ place = from => Num(g, place) = Num(f, place) - 1
         /\ place = to => Num(g, place) = Num(f, place) + 1
         /\ place \notin {from, to} => Num(g, place) = Num(f, place)
         /\ place # to => Where(g, place) \subseteq Where(f, place)
<1>0. PICK t \in Threads : f[t] = from /\ g = [f EXCEPT ![t] = to]
  BY DEF Moved
<1>a. f \in [Threads -> Control] /\ from # to
  BY DEF Moved
<1>1. ASSUME place = from
      PROVE  Num(g, place) = Num(f, place) - 1
  <2>1. Where(g, place) = Where(f, place) \ {t} /\ t \in Where(f, place)
    BY <1>0, <1>a, <1>1 DEF Where
  <2>2. Cardinality(Where(f, place) \ {t}) = Cardinality(Where(f, place)) - 1
    BY <2>1, NumType, FS_RemoveElement
  <2> QED
    BY <2>1, <2>2 DEF Num
<1>2. ASSUME place = to
      PROVE  Num(g, place) = Num(f, place) + 1
  <2>1. Where(g, place) = Where(f, place) \cup {t} /\ t \notin Where(f, place)
    BY <1>0, <1>a, <1>2 DEF Where
  <2>2. Cardinality(Where(f, place) \cup {t}) = Cardinality(Where(f, place)) + 1
    BY <2>1, NumType, FS_AddElement
  <2> QED
    BY <2>1, <2>2 DEF Num
<1>3. ASSUME place \notin {from, to}
      PROVE  Num(g, place) = Num(f, place)
  <2>1. Where(g, place) = Where(f, place)
    BY <1>0, <1>a, <1>3 DEF Where
  <2> QED
    BY <2>1 DEF Num
<1>4. ASSUME place # to
      PROVE  Where(g, place) \subseteq Where(f, place)
  BY <1>0, <1>a, <1>4 DEF Where
<1> QED
  BY <1>1, <1>2, <1>3, <1>4

(* The two rules in these terms, before and after a step. *)
LEMMA Rules ==
  /\ Accounting <=>
       (ub = "none" =>
          count + Num(pc, "permit") + Num(pc, "post") = Len(elems) + debt)
  /\ NoLostWakeup <=> (Where(pc, "sleep") # {} => count <= Num(pc, "awake"))
BY DEF Accounting, NoLostWakeup, Num, Where, At

LEMMA RulesAfter ==
  /\ Accounting' <=>
       (ub' = "none" =>
          count' + Num(pc', "permit") + Num(pc', "post") = Len(elems') + debt')
  /\ NoLostWakeup' <=> (Where(pc', "sleep") # {} => count' <= Num(pc', "awake"))
BY DEF Accounting, NoLostWakeup, Num, Where, At

(* The numbers the rules are about are numbers. *)
LEMMA Numbers ==
  ASSUME TypeOK
  PROVE  /\ count \in Nat /\ Len(elems) \in Nat /\ debt \in Int
         /\ Num(pc, "permit") \in Nat /\ Num(pc, "post") \in Nat
         /\ Num(pc, "awake") \in Nat
BY NumType, LenProperties DEF TypeOK

LEMMA GoType ==
  ASSUME TypeOK, NEW t \in Threads, NEW place \in Control, Go(t, place)
  PROVE  pc' \in [Threads -> Control]
BY DEF TypeOK, Go

-------------------------------------------------------------------------------
LEMMA InitIInv == Init => IInv
<1> SUFFICES ASSUME Init PROVE IInv
  OBVIOUS
<1> USE DEF Init
<1>1. TypeOK
  <2>1. elems \in Seq(Values) /\ Len(elems) \in Nat
    BY DequeAssumption, LenProperties
  <2>2. pc \in [Threads -> Control]
    BY DEF Control
  <2> QED
    BY <2>1, <2>2 DEF TypeOK
<1>2. Where(pc, "permit") = {} /\ Where(pc, "post") = {} /\ Where(pc, "sleep") = {}
  BY DEF Where
<1>3. Num(pc, "permit") = 0 /\ Num(pc, "post") = 0
  BY <1>2, NumType
<1>4. Accounting
  BY <1>1, <1>3, Numbers, Rules
<1>5. NoLostWakeup
  BY <1>2, Rules
<1> QED
  BY <1>1, <1>4, <1>5 DEF IInv

(***************************************************************************)
(* One lemma per step.  Accounting is a sum: each step moves one from a place *)
(* to another.  NoLostWakeup is disturbed where a thread goes to sleep or      *)
(* wakes up, and where the count changes.                                    *)
(***************************************************************************)
LEMMA PutStep ==
  ASSUME IInv, ub = "none", NEW t \in Threads, NEW v \in Values,
         NEW i \in 1 .. Len(elems) + 1, Put(t, v, i)
  PROVE  IInv'
<1> USE DEF IInv, Put, Invalidates
<1>1. elems' \in Seq(Values) /\ Len(elems') = Len(elems) + 1
  BY InsertAtLength DEF TypeOK
<1>2. Moved(pc, pc', "run", "post")
  BY DEF TypeOK, Go, Moved
<1>3. TypeOK'
  <2>1. pc' \in [Threads -> Control]
    BY GoType DEF Control
  <2> QED
    BY <1>1, <2>1 DEF TypeOK
<1>4. /\ Num(pc', "permit") = Num(pc, "permit")
      /\ Num(pc', "post") = Num(pc, "post") + 1
      /\ Num(pc', "awake") = Num(pc, "awake")
      /\ Where(pc', "sleep") \subseteq Where(pc, "sleep")
  BY <1>2, Move
<1>5. Accounting'
  <2>1. count + Num(pc, "permit") + Num(pc, "post") = Len(elems) + debt
    BY Rules
  <2>2. count' = count /\ debt' = debt
    OBVIOUS
  <2>3. count' + Num(pc', "permit") + Num(pc', "post") = Len(elems') + debt'
    BY <1>1, <1>4, <2>1, <2>2, Numbers
  <2> QED
    BY <2>3, RulesAfter
<1>6. NoLostWakeup'
  BY <1>4, Rules, RulesAfter
<1> QED
  BY <1>3, <1>5, <1>6

LEMMA PostStep ==
  ASSUME IInv, ub = "none", NEW t \in Threads, Post(t)
  PROVE  IInv'
<1> USE DEF IInv, Post
<1>0. pc \in [Threads -> Control] /\ {"run", "awake"} \subseteq Control /\ pc[t] = "post"
  BY DEF TypeOK, Control
<1>1. ASSUME At("sleep") = {}, Go(t, "run")
      PROVE  IInv'
  <2>1. TypeOK'
    <3>1. pc' \in [Threads -> Control]
      BY <1>0, <1>1, GoType
    <3> QED
      BY <3>1 DEF TypeOK
  <2>a. Moved(pc, pc', "post", "run")
    BY <1>0, <1>1 DEF Moved, Go
  <2>2. /\ Num(pc', "permit") = Num(pc, "permit")
        /\ Num(pc', "post") = Num(pc, "post") - 1
        /\ Where(pc', "sleep") \subseteq Where(pc, "sleep")
    BY <2>a, Move
  <2>3. Where(pc, "sleep") = {}
    BY <1>1 DEF Where, At
  <2>4. Accounting'
    BY <2>2, Numbers, Rules, RulesAfter
  <2>5. NoLostWakeup'
    BY <2>2, <2>3, RulesAfter
  <2> QED
    BY <2>1, <2>4, <2>5
<1>2. ASSUME NEW s \in At("sleep"), pc' = [pc EXCEPT ![t] = "run", ![s] = "awake"]
      PROVE  IInv'
  <2> DEFINE f == [pc EXCEPT ![t] = "run"]
  <2>0. s \in Threads /\ pc[s] = "sleep" /\ s # t
    BY <1>0 DEF At
  <2>1. f \in [Threads -> Control] /\ f[s] = "sleep" /\ pc' = [f EXCEPT ![s] = "awake"]
    BY <1>0, <1>2, <2>0
  <2>a. Moved(pc, f, "post", "run")
    BY <1>0 DEF Moved
  <2> HIDE DEF f
  <2>b. Moved(f, pc', "sleep", "awake")
    BY <2>0, <2>1 DEF Moved
  <2>2. /\ Num(f, "permit") = Num(pc, "permit")
        /\ Num(f, "post") = Num(pc, "post") - 1
        /\ Num(f, "awake") = Num(pc, "awake")
    BY <2>a, Move
  <2>3. /\ Num(pc', "permit") = Num(f, "permit")
        /\ Num(pc', "post") = Num(f, "post")
        /\ Num(pc', "awake") = Num(f, "awake") + 1
    BY <2>b, Move
  <2>4. TypeOK'
    <3>1. pc' \in [Threads -> Control]
      BY <1>0, <2>1
    <3> QED
      BY <3>1 DEF TypeOK
  <2>5. Accounting'
    BY <2>2, <2>3, Numbers, Rules, RulesAfter
  <2>6. NoLostWakeup'
    <3>1. Where(pc, "sleep") # {}
      BY <2>0 DEF Where
    <3> QED
      BY <2>2, <2>3, <3>1, Numbers, Rules, RulesAfter
  <2> QED
    BY <2>4, <2>5, <2>6
<1> QED
  BY <1>1, <1>2

(* A thread takes a permit, from wherever it tests the count. *)
LEMMA TakePermitStep ==
  ASSUME IInv, NEW t \in Threads, TakePermit(t),
         pc[t] \in {"run", "awake", "sleep"},
         UNCHANGED <<elems, stale, ub, debt>>,
         aim' \in [Threads -> Values \cup {AtFront, AtBack}]
  PROVE  IInv'
<1> USE DEF IInv, TakePermit
<1>0. Moved(pc, pc', pc[t], "permit")
  BY DEF TypeOK, Go, Moved
<1>1. TypeOK'
  <2>1. pc' \in [Threads -> Control]
    BY GoType DEF Control
  <2>2. count' \in Nat
    BY DEF TypeOK
  <2> QED
    BY <2>1, <2>2 DEF TypeOK
<1>2. /\ Num(pc', "permit") = Num(pc, "permit") + 1
      /\ Num(pc', "post") = Num(pc, "post")
  BY <1>0, Move
<1>3. Where(pc', "sleep") \subseteq Where(pc, "sleep")
  BY <1>0, Move
<1>4. Num(pc', "awake") = Num(pc, "awake") - 1 \/ Num(pc', "awake") = Num(pc, "awake")
  BY <1>0, Move
<1>5. Accounting'
  BY <1>2, Numbers, Rules, RulesAfter
<1>6. NoLostWakeup'
  BY <1>3, <1>4, Numbers, Rules, RulesAfter
<1> QED
  BY <1>1, <1>5, <1>6

(* A thread finds no permit: it sleeps, or gives up. *)
LEMMA NoPermitStep ==
  ASSUME IInv, NEW t \in Threads, NEW place \in {"run", "sleep"}, Go(t, place),
         count = 0, pc[t] \in {"run", "awake", "sleep"}, pc[t] # place,
         UNCHANGED <<elems, count, stale, ub, debt>>,
         aim' \in [Threads -> Values \cup {AtFront, AtBack}]
  PROVE  IInv'
<1> USE DEF IInv
<1>0. Moved(pc, pc', pc[t], place)
  BY DEF TypeOK, Go, Moved
<1>1. TypeOK'
  <2>1. pc' \in [Threads -> Control]
    BY GoType DEF Control
  <2> QED
    BY <2>1 DEF TypeOK
<1>2. /\ Num(pc', "permit") = Num(pc, "permit")
      /\ Num(pc', "post") = Num(pc, "post")
  BY <1>0, Move
<1>3. Accounting'
  BY <1>2, Rules, RulesAfter
<1>4. NoLostWakeup'
  <2>1. count' <= Num(pc', "awake")
    BY NumType
  <2> QED
    BY <2>1, RulesAfter
<1> QED
  BY <1>1, <1>3, <1>4

LEMMA IndexOfProperties ==
  ASSUME TypeOK, NEW t, Present(t)
  PROVE  IndexOf(aim[t]) \in 1 .. Len(elems)
<1>0. elems \in Seq(Values) /\ Len(elems) \in Nat /\ DOMAIN elems = 1 .. Len(elems)
      /\ (elems # <<>> => Len(elems) # 0)
  BY LenProperties, EmptySeq DEF TypeOK
<1>1. CASE aim[t] \in {AtFront, AtBack}
  BY <1>0, <1>1 DEF Present, Timed, IndexOf
<1>2. CASE aim[t] \notin {AtFront, AtBack}
  <2>1. \E i \in 1 .. Len(elems) : elems[i] = aim[t]
    BY <1>0, <1>2 DEF Present, Timed, ToSet
  <2> QED
    BY <1>2, <2>1 DEF IndexOf
<1> QED
  BY <1>1, <1>2

LEMMA TakeStep ==
  ASSUME IInv, ub = "none", NEW t \in Threads, Take(t)
  PROVE  IInv'
<1> USE DEF IInv, Take
<1>1. elems' \in Seq(Values) /\ Len(elems') = Len(elems) - 1
  BY IndexOfProperties, RemoveAtProperties DEF TypeOK
<1>2. Moved(pc, pc', "permit", "run")
  BY DEF TypeOK, Go, Moved
<1>3. TypeOK'
  <2>1. pc' \in [Threads -> Control]
    BY GoType DEF Control
  <2>2. stale' \subseteq Threads
    BY DEF InvalidatesAt, TypeOK
  <2> QED
    BY <1>1, <2>1, <2>2 DEF TypeOK
<1>4. /\ Num(pc', "permit") = Num(pc, "permit") - 1
      /\ Num(pc', "post") = Num(pc, "post")
      /\ Num(pc', "awake") = Num(pc, "awake")
      /\ Where(pc', "sleep") \subseteq Where(pc, "sleep")
  BY <1>2, Move
<1>5. Accounting'
  BY <1>1, <1>4, Numbers, Rules, RulesAfter
<1>6. NoLostWakeup'
  BY <1>4, Rules, RulesAfter
<1> QED
  BY <1>3, <1>5, <1>6

LEMMA UndefinedStep ==
  ASSUME IInv, NEW t \in Threads, Undefined(t)
  PROVE  IInv'
<1> USE DEF IInv, Undefined
<1>1. ub' \in {"empty", "stale"} /\ ub' # "none"
  OBVIOUS
<1>2. TypeOK'
  BY <1>1 DEF TypeOK
<1>3. Accounting' /\ NoLostWakeup'
  BY <1>1, Rules, RulesAfter
<1> QED
  BY <1>2, <1>3

(* clear() and assign(): the threads stay where they are. *)
LEMMA ClearStep ==
  ASSUME IInv, NEW t \in Threads, Clear(t)
  PROVE  IInv'
<1> USE DEF IInv, Clear, Invalidates
<1>0. Num(pc, "post") = 0 /\ debt' = Num(pc, "permit") /\ Len(elems') = 0
  <2>1. Where(pc, "post") = {}
    BY DEF MutexFree, At, Where
  <2>2. debt' = Num(pc, "permit")
    BY DEF At, Num, Where
  <2> QED
    BY <2>1, <2>2, NumType, EmptySeq
<1>1. TypeOK'
  <2>1. debt' \in Int /\ count' \in Nat
    BY <1>0, Numbers
  <2>2. elems' \in Seq(Values)
    BY EmptySeq
  <2> QED
    BY <2>1, <2>2 DEF TypeOK
<1>2. Accounting'
  BY <1>0, Numbers, RulesAfter
<1>3. NoLostWakeup'
  BY Numbers, RulesAfter
<1> QED
  BY <1>1, <1>2, <1>3

LEMMA AssignStep ==
  ASSUME IInv, NEW t \in Threads, NEW s \in Contents, Assign(t, s)
  PROVE  IInv'
<1> USE DEF IInv, Assign, Invalidates
<1>0. s \in Seq(Values) /\ Len(s) \in Nat
  BY DequeAssumption, LenProperties
<1>1. TypeOK'
  <2>1. debt' \in Int
    BY <1>0, Numbers
  <2> QED
    BY <1>0, <2>1 DEF TypeOK
<1>2. Accounting'
  BY <1>0, Numbers, Rules, RulesAfter
<1>3. NoLostWakeup'
  BY Rules, RulesAfter
<1> QED
  BY <1>1, <1>2, <1>3

LEMMA InductiveIInv == IInv /\ [Next]_vars => IInv'
<1> SUFFICES ASSUME IInv, [Next]_vars PROVE IInv'
  OBVIOUS
<1>1. CASE UNCHANGED vars
  BY <1>1, Rules, RulesAfter DEF vars, IInv, TypeOK
<1>2. ASSUME ub = "none", NEW t \in Threads, Step(t)
      PROVE  IInv'
  <2>1. ASSUME NEW v \in Values, NEW i \in 1 .. Len(elems) + 1, Put(t, v, i)
        PROVE  IInv'
    BY <1>2, <2>1, PutStep
  <2>2. CASE Post(t)
    BY <1>2, <2>2, PostStep
  <2>3. ASSUME NEW what \in Values \cup {AtFront, AtBack}, Wait(t, what)
        PROVE  IInv'
    <3>0. /\ pc[t] = "run" /\ UNCHANGED <<elems, stale, ub, debt>>
          /\ aim' \in [Threads -> Values \cup {AtFront, AtBack}]
      BY <2>3 DEF Wait, IInv, TypeOK
    <3>1. CASE TakePermit(t)
      BY <3>0, <3>1, TakePermitStep
    <3>2. CASE count = 0 /\ Go(t, "sleep") /\ UNCHANGED count
      BY <3>0, <3>2, NoPermitStep
    <3> QED
      BY <2>3, <3>1, <3>2 DEF Wait
  <2>4. CASE Wake(t)
    <3>0. /\ pc[t] = "awake" /\ UNCHANGED <<elems, stale, ub, debt>>
          /\ aim' \in [Threads -> Values \cup {AtFront, AtBack}]
      BY <2>4 DEF Wake, IInv, TypeOK
    <3>1. CASE TakePermit(t)
      BY <3>0, <3>1, TakePermitStep
    <3>2. ASSUME NEW place \in {"run", "sleep"},
                 count = 0, Go(t, place), UNCHANGED count
          PROVE  IInv'
      BY <3>0, <3>2, NoPermitStep
    <3> QED
      BY <2>4, <3>1, <3>2 DEF Wake
  <2>5. CASE Timeout(t)
    <3>0. /\ pc[t] = "sleep" /\ UNCHANGED <<elems, stale, ub, debt>>
          /\ aim' \in [Threads -> Values \cup {AtFront, AtBack}]
      BY <2>5 DEF Timeout, IInv, TypeOK
    <3>1. CASE TakePermit(t)
      BY <3>0, <3>1, TakePermitStep
    <3>2. CASE count = 0 /\ Go(t, "run") /\ UNCHANGED count
      BY <3>0, <3>2, NoPermitStep
    <3> QED
      BY <2>5, <3>1, <3>2 DEF Timeout
  <2>6. CASE Take(t)
    BY <1>2, <2>6, TakeStep
  <2>7. CASE Undefined(t)
    BY <2>7, UndefinedStep
  <2>8. CASE Clear(t)
    BY <2>8, ClearStep
  <2>9. ASSUME NEW s \in Contents, Assign(t, s)
        PROVE  IInv'
    BY <2>9, AssignStep
  <2> QED
    BY <1>2, <2>1, <2>2, <2>3, <2>4, <2>5, <2>6, <2>7, <2>8, <2>9 DEF Step
<1> QED
  BY <1>1, <1>2 DEF Next

(***************************************************************************)
(* The inductive invariant holds in every reachable state.                   *)
(***************************************************************************)
THEOREM Invariance == Spec => []IInv
<1> QED
  BY InitIInv, InductiveIInv, PTL DEF Spec

(* The elements stay a sequence of values, and the semaphore is not taken below 0. *)
THEOREM DequeTypeCorrect == Spec => []TypeOK
<1>1. IInv => TypeOK
  BY DEF IInv
<1> QED
  BY <1>1, Invariance, PTL

(***************************************************************************)
(* The permits always are the elements, up to what clear() and assign() did,  *)
(* for any number of threads and elements.                                   *)
(***************************************************************************)
THEOREM DequeAccounting == Spec => []Accounting
<1>1. IInv => Accounting
  BY DEF IInv
<1> QED
  BY <1>1, Invariance, PTL

(***************************************************************************)
(* No post() is lost on threads that sleep on the semaphore, for any number   *)
(* of sleepers, timeouts and late awakenings.                                *)
(***************************************************************************)
THEOREM DequeNoLostWakeup == Spec => []NoLostWakeup
<1>1. IInv => NoLostWakeup
  BY DEF IInv
<1> QED
  BY <1>1, Invariance, PTL

(***************************************************************************)
(* A thread that waits in erase() for an element that is there, while nothing *)
(* is owed, does not wait for nobody.                                        *)
(***************************************************************************)
THEOREM DequeEraseNotStranded == Spec => []EraseNotStranded
<1>1. IInv => EraseNotStranded
  <2> SUFFICES ASSUME IInv, NEW t \in Threads, pc[t] = "sleep",
                      aim[t] \in ToSet(elems), debt = 0, ub = "none",
                      At("awake") \cup At("permit") \cup At("post") = {}
               PROVE  FALSE
    BY DEF EraseNotStranded
  <2> USE DEF IInv
  <2>1. Num(pc, "awake") = 0 /\ Num(pc, "permit") = 0 /\ Num(pc, "post") = 0
    <3>1. Where(pc, "awake") = {} /\ Where(pc, "permit") = {} /\ Where(pc, "post") = {}
      BY DEF Where, At
    <3> QED
      BY <3>1, NumType
  <2>2. Len(elems) > 0
    <3>1. elems \in Seq(Values) /\ elems # <<>>
      BY DEF ToSet, TypeOK
    <3> QED
      BY <3>1, EmptySeq, LenProperties
  <2>3. count = 0
    <3>1. Where(pc, "sleep") # {}
      BY DEF Where
    <3> QED
      BY <2>1, <3>1, Numbers, Rules
  <2> QED
    BY <2>1, <2>2, <2>3, Numbers, Rules
<1> QED
  BY <1>1, Invariance, PTL

-------------------------------------------------------------------------------
(***************************************************************************)
(* The refinement.  An element is reserved when a thread takes a permit: that  *)
(* there is one more element than reservations is the accounting.            *)
(***************************************************************************)
LEMMA Reservations ==
  ASSUME IInv, ub = "none"
  PROVE  /\ count + Cardinality(At("permit")) <= Len(elems) + debt
         /\ Cardinality(At("permit")) \in Nat /\ IsFiniteSet(At("permit"))
<1>1. Num(pc, "permit") = Cardinality(At("permit")) /\ Where(pc, "permit") = At("permit")
  BY DEF Num, Where, At
<1>2. count + Num(pc, "permit") <= Len(elems) + debt
  BY Numbers, Rules DEF IInv
<1> QED
  BY <1>1, <1>2, NumType

LEMMA SameCardinality == ASSUME NEW S PROVE Promise!Cardinality(S) = Cardinality(S)
BY DEF Promise!Cardinality, Cardinality

LEMMA PromisedInit == Init => Promise!Init
<1> SUFFICES ASSUME Init PROVE Promise!Init
  OBVIOUS
<1>1. Len(elems) \in Nat /\ debt = -Len(elems)
  BY DequeAssumption, LenProperties DEF Init
<1>2. At("permit") = {}
  BY DEF Init, At
<1>3. (ub = "empty") = FALSE
  BY DEF Init
<1> QED
  BY <1>1, <1>2, <1>3 DEF Promise!Init

(* A step that moves no thread to or from the permits and leaves the sizes. *)
LEMMA Unpromised ==
  ASSUME TypeOK, NEW t \in Threads, NEW place, Go(t, place), pc[t] # "permit", place # "permit",
         UNCHANGED <<elems, debt, ub>>
  PROVE  UNCHANGED Promise!vars
<1>1. At("permit")' = At("permit")
  BY DEF At, TypeOK, Go
<1> QED
  BY <1>1 DEF Promise!vars

LEMMA PromisedPermit ==
  ASSUME IInv, ub = "none", NEW t \in Threads, TakePermit(t), pc[t] # "permit",
         UNCHANGED <<elems, debt, ub>>
  PROVE  Promise!Reserve(t)
<1> USE DEF IInv
<1>1. At("permit")' = At("permit") \cup {t} /\ t \notin At("permit")
  BY DEF At, TypeOK, TakePermit, Go
<1>2. Cardinality(At("permit")) < Len(elems) + debt
  BY Reservations, Numbers DEF TakePermit
<1> QED
  BY <1>1, <1>2, SameCardinality DEF Promise!Reserve

LEMMA PromisedStep == IInv /\ [Next]_vars => [Promise!Next]_(Promise!vars)
<1> SUFFICES ASSUME IInv, [Next]_vars PROVE [Promise!Next]_(Promise!vars)
  OBVIOUS
<1> USE DEF IInv
<1>1. CASE UNCHANGED vars
  BY <1>1 DEF vars, Promise!vars, At
<1>2. ASSUME ub = "none", NEW t \in Threads, Step(t)
      PROVE  [Promise!Next]_(Promise!vars)
  <2>1. ASSUME NEW v \in Values, NEW i \in 1 .. Len(elems) + 1, Put(t, v, i)
        PROVE  Promise!Put
    <3>1. Len(elems') = Len(elems) + 1
      BY <2>1, InsertAtLength DEF Put, TypeOK
    <3>2. At("permit")' = At("permit")
      BY <2>1 DEF Put, Go, At, TypeOK
    <3> QED
      BY <2>1, <3>1, <3>2 DEF Put, Promise!Put
  <2>2. CASE Post(t)
    <3>1. At("permit")' = At("permit")
      <4>1. CASE Go(t, "run")
        BY <2>2, <4>1 DEF Post, Go, At, TypeOK
      <4>2. ASSUME NEW s \in At("sleep"), pc' = [pc EXCEPT ![t] = "run", ![s] = "awake"]
            PROVE  At("permit")' = At("permit")
        BY <2>2, <4>2 DEF Post, At, TypeOK
      <4> QED
        BY <2>2, <4>1, <4>2 DEF Post
    <3> QED
      BY <2>2, <3>1 DEF Post, Promise!vars
  <2>3. ASSUME NEW what \in Values \cup {AtFront, AtBack}, Wait(t, what)
        PROVE  Promise!Reserve(t) \/ UNCHANGED Promise!vars
    <3>1. pc[t] = "run" /\ UNCHANGED <<elems, debt, ub>>
      BY <2>3 DEF Wait
    <3> QED
      BY <1>2, <2>3, <3>1, PromisedPermit, Unpromised DEF Wait
  <2>4. CASE Wake(t)
    <3>1. pc[t] = "awake" /\ UNCHANGED <<elems, debt, ub>>
      BY <2>4 DEF Wake
    <3> QED
      BY <1>2, <2>4, <3>1, PromisedPermit, Unpromised DEF Wake, Promise!Next
  <2>5. CASE Timeout(t)
    <3>1. pc[t] = "sleep" /\ UNCHANGED <<elems, debt, ub>>
      BY <2>5 DEF Timeout
    <3> QED
      BY <1>2, <2>5, <3>1, PromisedPermit, Unpromised DEF Timeout, Promise!Next
  <2>6. CASE Take(t)
    <3>1. IndexOf(aim[t]) \in 1 .. Len(elems)
      BY <2>6, IndexOfProperties DEF Take
    <3>2. Len(elems') = Len(elems) - 1 /\ Len(elems) > 0
      BY <2>6, <3>1, RemoveAtProperties, Numbers DEF Take, TypeOK
    <3>3. At("permit")' = At("permit") \ {t} /\ t \in At("permit")
      BY <2>6 DEF Take, Go, At, TypeOK
    <3>4. Promise!Take(t)
      BY <2>6, <3>2, <3>3 DEF Take, Promise!Take
    <3> QED
      BY <3>4 DEF Promise!Next
  <2>7. CASE Undefined(t)
    <3>1. At("permit")' = At("permit") /\ t \in At("permit")
          /\ UNCHANGED <<elems, debt>>
      BY <2>7 DEF Undefined, At
    <3>2. CASE ub' = "empty"
      <4>1. Len(elems) = 0
        <5>1. aim[t] \in {AtFront, AtBack}
          BY <2>7, <3>2 DEF Undefined, Timed
        <5> QED
          BY <2>7, <5>1, EmptySeq DEF Undefined, Present, Timed, TypeOK
      <4>2. Cardinality(At("permit")) > 0
        <5>1. Cardinality(At("permit")) # 0
          BY <1>2, <3>1, Reservations, FS_EmptySet
        <5> QED
          BY <1>2, <5>1, Reservations
      <4>3. debt > 0
        BY <1>2, <4>1, <4>2, Reservations, Numbers
      <4>4. (ub' = "empty") = TRUE
        BY <3>2
      <4>5. Promise!Fail(t)
        BY <3>1, <4>1, <4>3, <4>4 DEF Promise!Fail
      <4> QED
        BY <4>5 DEF Promise!Next
    <3>3. CASE ub' # "empty"
      <4>1. (ub' = "empty") = (ub = "empty")
        BY <1>2, <3>3
      <4> QED
        BY <3>1, <4>1 DEF Promise!vars
    <3> QED
      BY <3>2, <3>3
  <2>8. CASE Clear(t)
    <3>1. At("permit")' = At("permit") /\ Len(elems') = 0
      BY <2>8, EmptySeq DEF Clear, At
    <3>2. Promise!Clear
      BY <2>8, <3>1, SameCardinality DEF Clear, Promise!Clear
    <3> QED
      BY <3>2 DEF Promise!Next
  <2>9. ASSUME NEW s \in Contents, Assign(t, s)
        PROVE  Promise!Assign
    <3>1. Len(s) \in Nat
      BY DequeAssumption, LenProperties
    <3>2. At("permit")' = At("permit")
      BY <2>9 DEF Assign, At
    <3> QED
      BY <2>9, <3>1, <3>2 DEF Assign, Promise!Assign
  <2> QED
    BY <1>2, <2>1, <2>2, <2>3, <2>4, <2>5, <2>6, <2>7, <2>8, <2>9
       DEF Step, Promise!Next
<1> QED
  BY <1>1, <1>2 DEF Next

(***************************************************************************)
(* grdeque implements DequePromise: a pop meets an empty deque only while     *)
(* clear() or assign() has left permits without elements.                    *)
(***************************************************************************)
THEOREM DequeKeepsPromise == Spec => KeepsPromise
<1> QED
  BY PromisedInit, PromisedStep, Invariance, PTL DEF Spec, KeepsPromise, Promise!Spec
===============================================================================
