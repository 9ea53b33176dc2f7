------------------------------ MODULE MsgCBProofs ------------------------------
(***************************************************************************)
(* What holds of MsgCBs, alone, triggered by each other and copied, and of     *)
(* their gates (the last parts), for any number of threads, callbacks and      *)
(* nested notifications.  The gate says who notifies and how deep (GateInv): this is *)
(* what keeps the other threads away from the list while callbacks run.  The  *)
(* capacity is enough for the list and for the threads that have compared but *)
(* not stored yet (Capacity): with two installing threads one spare place is  *)
(* enough.                                                                  *)
(***************************************************************************)
EXTENDS MutexGate, MsgCB, TriggeredLists, ListCopies, SequenceFacts, FiniteSetTheorems

Pushing == {t \in Threads : pc[t] = "push"}

GateInv ==
  /\ gate.owner = NoThread => gate.count = 0
  /\ \A t \in Threads :
       /\ gate.owner = t <=> InPass(t)
       /\ InPass(t) => gate.count = Depth(t)
       /\ pc[t] = "loop" => InPass(t)

Installing ==
  \A t \in Threads :
    pc[t] \in {"grow", "push"} => t \in roles.install /\ cb[t] \in Callbacks

Capacity ==
  Cardinality(roles.install) <= 2 =>
    Len(watchers) + Cardinality(Pushing) <= arraySz

IInv == TypeOK /\ GateInv /\ Installing /\ Capacity /\ RunningIsInstalled

-------------------------------------------------------------------------------
(***************************************************************************)
(* Facts about the operators of the model.                                   *)
(***************************************************************************)
LEMMA NoteRemovalKeeps ==
  ASSUME NEW p, NEW i
  PROVE  /\ NoteRemoval(p, i).called = p.called
         /\ NoteRemoval(p, i).removed = p.removed \cup {watchers[i]}
BY DEF NoteRemoval

LEMMA DeltaBound == ASSUME NEW n \in Nat PROVE Delta(n) \in Nat /\ Delta(n) >= 3
BY DEF Delta

LEMMA PushingFinite ==
  /\ IsFiniteSet(Pushing)
  /\ Cardinality(Pushing) \in Nat
BY MsgAssumption, FS_Subset, FS_CardinalityType DEF Pushing

LEMMA RolesType ==
  ASSUME roles \in RoleChoices
  PROVE  /\ roles.install \subseteq Threads /\ IsFiniteSet(roles.install)
         /\ Cardinality(roles.install) \in Nat
<1>1. roles.install \subseteq Threads
  BY MsgAssumption DEF Roles
<1> QED
  BY <1>1, MsgAssumption, FS_Subset, FS_CardinalityType

LEMMA GoType ==
  ASSUME TypeOK, NEW t \in Threads, NEW place \in Control, Go(t, place)
  PROVE  pc' \in [Threads -> Control]
BY DEF TypeOK, Go

LEMMA InitIInv == Init => IInv
<1> SUFFICES ASSUME Init PROVE IInv
  OBVIOUS
<1> USE MsgAssumption, MutexAssumption DEF Init
<1>1. TypeOK
  <2>1. gate \in MutexOf(Threads)
    BY DEF MutexOf, Fresh
  <2>2. passes \in [Threads -> Seq(Pass)] /\ watchers \in Seq(Callbacks)
    BY EmptySeq
  <2>3. pc \in [Threads -> Control]
    BY DEF Control
  <2>4. installs \in 0 .. MaxInstalls
    OBVIOUS
  <2>5. /\ cb \in [Threads -> Callbacks \cup {NoCallback}]
        /\ loaded \in [Threads -> Int] /\ blocks \in [Threads -> Nat]
    OBVIOUS
  <2>6. roles \in RoleChoices /\ arraySz \in Nat /\ block \in Int
    OBVIOUS
  <2>7. needToInvoke \in BOOLEAN /\ owed \in BOOLEAN
    BY Zenon
  <2> QED
    BY ONLY <2>1, <2>2, <2>3, <2>4, <2>5, <2>6, <2>7 DEF TypeOK
<1>2. GateInv
  BY DEF GateInv, InPass, Fresh
<1>3. Installing
  BY DEF Installing
<1>4. Capacity
  <2>1. Pushing = {}
    BY DEF Pushing
  <2> QED
    BY <2>1, FS_EmptySet, EmptySeq DEF Capacity
<1>5. RunningIsInstalled
  BY EmptySeq DEF RunningIsInstalled, Depth
<1> QED
  BY <1>1, <1>2, <1>3, <1>4, <1>5 DEF IInv

-------------------------------------------------------------------------------
(***************************************************************************)
(* The steps of a thread that leave the list, the gate and the notifications *)
(* alone and neither come from nor go to the point before the store.         *)
(***************************************************************************)
LEMMA AsideStep ==
  ASSUME IInv, NEW t \in Threads, NEW place \in Control \ {"push", "grow"},
         pc[t] # "push", place = "loop" => InPass(t),
         pc' = [pc EXCEPT ![t] = place],
         UNCHANGED <<roles, watchers, arraySz, gate, cb, passes>>
  PROVE  GateInv' /\ Installing' /\ Capacity' /\ RunningIsInstalled'
<1> USE DEF IInv
<1>1. GateInv'
  BY DEF GateInv, InPass, Depth, TypeOK
<1>2. Installing'
  BY DEF Installing, TypeOK
<1>3. Pushing' = Pushing
  BY DEF Pushing, TypeOK
<1>4. Capacity'
  BY <1>3 DEF Capacity
<1>5. RunningIsInstalled'
  BY DEF RunningIsInstalled, Depth
<1> QED
  BY <1>1, <1>2, <1>4, <1>5

LEMMA InstallStep ==
  ASSUME IInv, NEW t \in Threads, NEW c \in Callbacks, Install(t, c)
  PROVE  IInv'
<1> USE DEF IInv, Install
<1>0. Len(watchers) \in Nat
  BY LenProperties DEF TypeOK
<1>1. TypeOK'
  <2>1. pc' \in [Threads -> Control]
    BY GoType DEF Control
  <2>2. installs' \in 0 .. MaxInstalls
    BY MsgAssumption, MutexAssumption DEF TypeOK
  <2>3. cb' \in [Threads -> Callbacks \cup {NoCallback}]
    BY DEF TypeOK
  <2> QED
    BY <2>1, <2>2, <2>3 DEF TypeOK, blockVars
<1> USE DEF Go
<1>2. GateInv'
  BY DEF GateInv, InPass, Depth, TypeOK
<1>3. Installing'
  BY DEF Installing, TypeOK
<1>4. Capacity'
  <2> SUFFICES ASSUME Cardinality(roles.install) <= 2
               PROVE  Len(watchers) + Cardinality(Pushing') <= arraySz
    BY DEF Capacity
  <2>1. CASE Len(watchers) + 1 >= arraySz
    <3>1. Pushing' = Pushing
      BY <2>1 DEF Pushing, TypeOK
    <3> QED
      BY <3>1 DEF Capacity
  <2>2. CASE ~(Len(watchers) + 1 >= arraySz)
    <3>1. Pushing' \subseteq roles.install
      BY <1>3 DEF Pushing, Installing
    <3>2. Cardinality(Pushing') <= Cardinality(roles.install)
      BY <3>1, RolesType, FS_Subset DEF TypeOK
    <3>3. Cardinality(Pushing') \in Nat
      BY <3>1, RolesType, FS_Subset, FS_CardinalityType DEF TypeOK
    <3>4. Len(watchers) + 2 <= arraySz
      BY <1>0, <2>2 DEF TypeOK
    <3> QED
      BY <1>0, <3>2, <3>3, <3>4, RolesType DEF TypeOK
  <2> QED
    BY <2>1, <2>2
<1>5. RunningIsInstalled'
  BY DEF RunningIsInstalled, Depth
<1> QED
  BY <1>1, <1>2, <1>3, <1>4, <1>5

LEMMA GrowStep ==
  ASSUME IInv, NEW t \in Threads, Grow(t)
  PROVE  IInv'
<1> USE DEF IInv, Grow, Go
<1>0. /\ Len(watchers) \in Nat
      /\ Delta(Len(watchers)) \in Nat /\ Delta(Len(watchers)) >= 3
  BY LenProperties, DeltaBound DEF TypeOK
<1>1. TypeOK'
  BY <1>0 DEF TypeOK, Control, blockVars
<1>2. GateInv'
  BY DEF GateInv, InPass, Depth, TypeOK
<1>3. Installing'
  BY DEF Installing, TypeOK
<1>4. Capacity'
  <2>1. Pushing' = Pushing \cup {t}
    BY DEF Pushing, TypeOK
  <2>2. Cardinality(Pushing') <= Cardinality(Pushing) + 1
    <3>1. /\ IsFiniteSet(Pushing \cup {t})
          /\ Cardinality(Pushing \cup {t}) = Cardinality(Pushing)
               \/ Cardinality(Pushing \cup {t}) = Cardinality(Pushing) + 1
      BY PushingFinite, FS_AddElement
    <3> HIDE DEF Pushing
    <3> QED
      BY <2>1, <3>1, PushingFinite
  <2>3. Cardinality(Pushing') \in Nat
    BY <2>1, PushingFinite, FS_AddElement, FS_CardinalityType
  <2> QED
    BY <1>0, <2>2, <2>3, PushingFinite DEF Capacity, TypeOK
<1>5. RunningIsInstalled'
  BY DEF RunningIsInstalled, Depth
<1> QED
  BY <1>1, <1>2, <1>3, <1>4, <1>5

LEMMA PushBackStep ==
  ASSUME IInv, NEW t \in Threads, PushBack(t)
  PROVE  IInv'
<1> USE DEF IInv, PushBack, Go
<1>0. cb[t] \in Callbacks
  BY DEF Installing
<1>a. Len(watchers) \in Nat /\ Len(watchers') = Len(watchers) + 1
  BY <1>0, LenProperties, AppendProperties DEF TypeOK
<1>1. TypeOK'
  <2>1. watchers' \in Seq(Callbacks)
    BY <1>0, AppendProperties DEF TypeOK
  <2> QED
    BY <2>1 DEF TypeOK, Control, blockVars
<1>2. GateInv'
  BY DEF GateInv, InPass, Depth, TypeOK
<1>3. Installing'
  BY DEF Installing, TypeOK
<1>4. Capacity'
  <2>1. Pushing' = Pushing \ {t} /\ t \in Pushing
    BY DEF Pushing, TypeOK
  <2>2. Cardinality(Pushing') = Cardinality(Pushing) - 1
    BY <2>1, PushingFinite, FS_RemoveElement
  <2> QED
    BY <1>a, <2>2, PushingFinite DEF Capacity, TypeOK
<1>5. RunningIsInstalled'
  <2>1. ToSet(watchers) \subseteq ToSet(watchers')
    BY <1>0, AppendKeeps DEF TypeOK
  <2> QED
    BY <2>1 DEF RunningIsInstalled, Depth
<1> QED
  BY <1>1, <1>2, <1>3, <1>4, <1>5

(* What the removal is to the notifications of its thread, and to the others. *)
LEMMA RemoveOthers ==
  ASSUME IInv, NEW t \in Threads, NEW c \in Callbacks, RemoveDest(t, Dest[c])
  PROVE  \A u \in Threads : u # t => passes'[u] = passes[u] /\ ~InPass(u)
<1>1. \A u \in Threads : u # t => passes'[u] = passes[u]
  BY DEF IInv, TypeOK, RemoveDest
<1>2. \A u \in Threads : u # t => ~InPass(u)
  BY MsgAssumption, MutexAssumption DEF IInv, RemoveDest, CanLock, GateInv
<1> QED
  BY <1>1, <1>2

LEMMA RemovePasses ==
  ASSUME IInv, NEW t \in Threads, NEW c \in Callbacks, RemoveDest(t, Dest[c])
  PROVE  \E i \in 1 .. Len(watchers) :
           /\ watchers' = RemoveAt(watchers, i)
           /\ passes'[t] \in Seq(Pass) /\ Depth(t)' = Depth(t) /\ Depth(t) \in Nat
           /\ \A k \in 1 .. Depth(t) : passes'[t][k] = NoteRemoval(passes[t][k], i)
<1> USE DEF IInv, RemoveDest
<1>0. watchers \in Seq(Callbacks) /\ Len(watchers) \in Nat
  BY LenProperties DEF TypeOK
<1>b. PICK i \in IndicesOf(Dest[c]) :
        /\ watchers' = RemoveAt(watchers, i)
        /\ passes' = [passes EXCEPT ![t] =
                        [k \in DOMAIN @ |-> NoteRemoval(@[k], i)]]
  OBVIOUS
<1>a. i \in 1 .. Len(watchers) /\ watchers[i] \in Callbacks
  BY <1>0, ElementOfSeq DEF IndicesOf
<1>d. /\ passes[t] \in Seq(Pass) /\ Depth(t) \in Nat
      /\ DOMAIN passes[t] = 1 .. Depth(t)
      /\ \A k \in 1 .. Depth(t) : passes[t][k] \in Pass
  BY LenProperties, ElementOfSeq DEF TypeOK, Depth
<1>e. /\ passes'[t] \in Seq(Pass) /\ Depth(t)' = Depth(t)
      /\ \A k \in 1 .. Depth(t) : passes'[t][k] = NoteRemoval(passes[t][k], i)
  <2>1. ASSUME NEW p \in Pass PROVE NoteRemoval(p, i) \in Pass
    BY <1>a, <2>1 DEF NoteRemoval, Pass
  <2>2. passes'[t] = [k \in 1 .. Depth(t) |-> NoteRemoval(passes[t][k], i)]
    BY <1>b, <1>d DEF TypeOK
  <2>3. passes'[t] \in [1 .. Depth(t) -> Pass]
    BY <2>1, <2>2, <1>d
  <2>4. passes'[t] \in Seq(Pass) /\ Len(passes'[t]) = Depth(t)
    BY <2>3, <1>d, LenProperties, SeqDef
  <2> QED
    BY <2>2, <2>4 DEF Depth
<1> QED
  BY <1>a, <1>b, <1>d, <1>e

LEMMA RemoveStep ==
  ASSUME IInv, NEW t \in Threads, NEW c \in Callbacks, RemoveDest(t, Dest[c])
  PROVE  IInv'
<1> USE DEF IInv, RemoveDest
<1>0. watchers \in Seq(Callbacks) /\ Len(watchers) \in Nat /\ arraySz \in Nat
  BY LenProperties DEF TypeOK
<1>b. PICK i \in 1 .. Len(watchers) :
        /\ watchers' = RemoveAt(watchers, i)
        /\ passes'[t] \in Seq(Pass) /\ Depth(t)' = Depth(t) /\ Depth(t) \in Nat
        /\ \A k \in 1 .. Depth(t) : passes'[t][k] = NoteRemoval(passes[t][k], i)
  BY RemovePasses
<1>c. /\ watchers' \in Seq(Callbacks)
      /\ Len(watchers') = Len(watchers) - 1
      /\ ToSet(watchers) \subseteq ToSet(watchers') \cup {watchers[i]}
      /\ watchers[i] \in Callbacks
  BY <1>0, <1>b, RemoveAtProperties, ElementOfSeq
<1>f. \A u \in Threads : u # t => passes'[u] = passes[u] /\ ~InPass(u)
  BY RemoveOthers
<1>1. TypeOK'
  <2>1. passes' \in [Threads -> Seq(Pass)]
    BY <1>b, <1>f DEF TypeOK
  <2> QED
    BY <1>c, <2>1 DEF TypeOK, blockVars
<1>2. GateInv'
  <2>1. \A u \in Threads : InPass(u)' <=> InPass(u)
    BY <1>b, <1>f, EmptySeq, LenProperties DEF InPass, Depth, TypeOK
  <2>2. \A u \in Threads : InPass(u) => Depth(u)' = Depth(u)
    BY <1>b, <1>f
  <2> QED
    BY <2>1, <2>2 DEF GateInv
<1>3. Installing'
  BY DEF Installing
<1>4. Capacity'
  BY <1>0, <1>c, PushingFinite DEF Capacity, Pushing
<1>5. RunningIsInstalled'
  <2> SUFFICES ASSUME NEW u \in Threads, NEW k \in 1 .. Depth(u)',
                      passes'[u][k].called # <<>>
               PROVE  Last(passes'[u][k].called)
                        \in ToSet(watchers') \cup passes'[u][k].removed
    BY DEF RunningIsInstalled
  <2>1. u = t
    BY <1>f, EmptySeq DEF InPass, Depth
  <2>k. k \in 1 .. Depth(t) /\ passes'[t][k] = NoteRemoval(passes[t][k], i)
    BY <2>1, <1>b
  <2>2. /\ passes'[t][k].called = passes[t][k].called
        /\ passes'[t][k].removed = passes[t][k].removed \cup {watchers[i]}
    BY <2>k, NoteRemovalKeeps
  <2>3. Last(passes[t][k].called) \in ToSet(watchers) \cup passes[t][k].removed
    BY <2>1, <2>2, <2>k DEF RunningIsInstalled
  <2> QED
    BY <2>1, <2>2, <2>3, <1>c
<1> QED
  BY <1>1, <1>2, <1>3, <1>4, <1>5

LEMMA EnterPasses ==
  ASSUME IInv, NEW t \in Threads, EnterPass(t)
  PROVE  /\ Depth(t) \in Nat
         /\ (InPass(t) => Depth(t) > 0) /\ (~InPass(t) => Depth(t) = 0)
         /\ passes'[t] \in Seq(Pass) /\ Depth(t)' = Depth(t) + 1 /\ InPass(t)'
         /\ \A k \in 1 .. Depth(t) : passes'[t][k] = passes[t][k]
         /\ passes'[t][Depth(t) + 1] = NewPass
         /\ \A u \in Threads : u # t => passes'[u] = passes[u]
<1> USE DEF IInv, EnterPass
<1>0. NewPass \in Pass
  BY EmptySeq DEF NewPass, Pass
<1>a. /\ passes[t] \in Seq(Pass) /\ Depth(t) \in Nat
      /\ (InPass(t) => Depth(t) > 0) /\ (~InPass(t) => Depth(t) = 0)
  BY LenProperties, EmptySeq DEF TypeOK, Depth, InPass
<1>b. /\ passes'[t] = Append(passes[t], NewPass)
      /\ \A u \in Threads : u # t => passes'[u] = passes[u]
  BY DEF TypeOK
<1>c. /\ passes'[t] \in Seq(Pass) /\ Depth(t)' = Depth(t) + 1 /\ InPass(t)'
      /\ \A k \in 1 .. Depth(t) : passes'[t][k] = passes[t][k]
      /\ passes'[t][Depth(t) + 1] = NewPass
  BY <1>0, <1>a, <1>b, AppendProperties, EmptySeq DEF Depth, InPass
<1> QED
  BY <1>a, <1>b, <1>c

LEMMA EnterPassStep ==
  ASSUME IInv, NEW t \in Threads, EnterPass(t)
  PROVE  IInv'
<1> USE DEF IInv, EnterPass
<1>a. /\ Depth(t) \in Nat
      /\ (InPass(t) => Depth(t) > 0) /\ (~InPass(t) => Depth(t) = 0)
  BY EnterPasses
<1>b. \A u \in Threads : u # t => passes'[u] = passes[u]
  BY EnterPasses
<1>c. /\ passes'[t] \in Seq(Pass) /\ Depth(t)' = Depth(t) + 1 /\ InPass(t)'
      /\ \A k \in 1 .. Depth(t) : passes'[t][k] = passes[t][k]
      /\ passes'[t][Depth(t) + 1] = NewPass
  BY EnterPasses
<1>d. /\ gate'.owner = t
      /\ gate'.count = gate.count + 1 /\ gate.count \in Nat
      /\ gate.owner \in {NoThread, t}
  BY DEF TypeOK, MutexOf, Locked, CanLock
<1>1. TypeOK'
  <2>1. passes' \in [Threads -> Seq(Pass)]
    BY <1>c DEF TypeOK
  <2>2. gate' \in MutexOf(Threads)
    BY DEF TypeOK, MutexOf, Locked
  <2>3. pc' \in [Threads -> Control]
    BY GoType DEF Control
  <2>4. owed' \in BOOLEAN
    BY Zenon
  <2> QED
    BY <2>1, <2>2, <2>3, <2>4 DEF TypeOK, listVars
<1> USE DEF Go
<1>2. GateInv'
  <2>1. gate.count = Depth(t)
    BY <1>a, <1>d, MsgAssumption, MutexAssumption DEF GateInv
  <2>2. \A u \in Threads : u # t => ~InPass(u) /\ ~InPass(u)' /\ pc'[u] # "loop"
    BY <1>b, <1>d, MsgAssumption, MutexAssumption DEF GateInv, InPass, TypeOK
  <2>3. gate'.owner # NoThread
    BY <1>d, MsgAssumption, MutexAssumption
  <2> QED
    BY <1>c, <1>d, <2>1, <2>2, <2>3 DEF GateInv
<1>3. Installing'
  BY DEF Installing, TypeOK
<1>4. Capacity'
  <2>1. Pushing' = Pushing
    BY DEF Pushing, TypeOK
  <2> QED
    BY <2>1 DEF Capacity, listVars
<1>5. RunningIsInstalled'
  <2> SUFFICES ASSUME NEW u \in Threads, NEW k \in 1 .. Depth(u)',
                      passes'[u][k].called # <<>>
               PROVE  Last(passes'[u][k].called)
                        \in ToSet(watchers') \cup passes'[u][k].removed
    BY DEF RunningIsInstalled
  <2>1. k \in 1 .. Depth(u) /\ passes'[u][k] = passes[u][k]
    <3>1. CASE u # t
      BY <1>b, <3>1 DEF Depth
    <3>2. CASE u = t
      <4>1. NewPass.called = <<>>
        BY DEF NewPass
      <4>2. k # Depth(t) + 1
        BY <1>c, <3>2, <4>1
      <4>3. k \in 1 .. Depth(t) + 1
        BY <1>c, <3>2
      <4>4. k \in 1 .. Depth(t)
        BY <1>a, <4>2, <4>3
      <4> QED
        BY <1>c, <3>2, <4>4
    <3> QED
      BY <3>1, <3>2
  <2> QED
    BY <2>1 DEF RunningIsInstalled, listVars
<1> QED
  BY <1>1, <1>2, <1>3, <1>4, <1>5

LEMMA CallPasses ==
  ASSUME IInv, NEW t \in Threads, CallNext(t)
  PROVE  LET d == Depth(t)
             q == Advance(Current(t), 1)
         IN  /\ d \in Nat /\ d > 0 /\ InPass(t) /\ Current(t) \in Pass
             /\ q.called # <<>> /\ Last(q.called) = watchers[Current(t).i + 1]
             /\ watchers[Current(t).i + 1] \in ToSet(watchers)
             /\ passes'[t] \in Seq(Pass) /\ Len(passes'[t]) = d
             /\ passes'[t][d] = q
             /\ \A k \in 1 .. d : k # d => passes'[t][k] = passes[t][k]
             /\ \A u \in Threads : u # t => passes'[u] = passes[u]
<1> USE DEF IInv, CallNext
<1> DEFINE d == Depth(t)
           q == Advance(Current(t), 1)
<1>a. /\ passes[t] \in Seq(Pass) /\ Len(passes[t]) = d
      /\ d \in Nat /\ d > 0 /\ DOMAIN passes[t] = 1 .. d
      /\ InPass(t) /\ Current(t) \in Pass
  <2>1. InPass(t)
    BY DEF GateInv
  <2>2. passes[t] \in Seq(Pass) /\ d \in Nat /\ d > 0 /\ DOMAIN passes[t] = 1 .. d
    BY <2>1, LenProperties, EmptySeq DEF TypeOK, Depth, InPass
  <2> QED
    BY <2>1, <2>2, ElementOfSeq DEF Current, Depth
<1>b. /\ watchers \in Seq(Callbacks) /\ Len(watchers) \in Nat
      /\ DOMAIN watchers = 1 .. Len(watchers)
      /\ Current(t).i + 1 \in 1 .. Len(watchers)
      /\ watchers[Current(t).i + 1] \in Callbacks
  BY <1>a, LenProperties, ElementOfSeq DEF TypeOK, Pass
<1>c. /\ q \in Pass /\ q.called # <<>>
      /\ Last(q.called) = watchers[Current(t).i + 1]
  <2>1. Current(t).called \in Seq(Callbacks) /\ Current(t).i \in Nat
        /\ Current(t).removed \in SUBSET Callbacks /\ Current(t).shifts \in Nat
    BY <1>a DEF Pass
  <2>2. q.called = Append(Current(t).called, watchers[Current(t).i + 1])
    BY DEF Advance
  <2>3. /\ q.called \in Seq(Callbacks) /\ q.called # <<>>
        /\ Last(q.called) = watchers[Current(t).i + 1]
    <3> DEFINE s == Current(t).called
               e == watchers[Current(t).i + 1]
    <3>1. s \in Seq(Callbacks) /\ e \in Callbacks /\ q.called = Append(s, e)
      BY <1>b, <2>1, <2>2
    <3> HIDE DEF s, e, q
    <3>2. /\ q.called \in Seq(Callbacks) /\ q.called # <<>>
          /\ Last(q.called) = e
      BY <3>1, AppendLast
    <3> QED
      BY <3>2 DEF e
  <2>4. q \in Pass
    BY <1>b, <2>1, <2>3 DEF Advance, Pass
  <2> QED
    BY <2>3, <2>4
<1>d. /\ passes'[t] = [passes[t] EXCEPT ![d] = q]
      /\ \A u \in Threads : u # t => passes'[u] = passes[u]
  BY DEF TypeOK
<1> HIDE DEF q, d
<1>f. /\ passes'[t] \in Seq(Pass) /\ Len(passes'[t]) = d
      /\ passes'[t][d] = q
      /\ \A k \in 1 .. d : k # d => passes'[t][k] = passes[t][k]
  <2>1. d \in 1 .. d
    BY <1>a
  <2>2. /\ [passes[t] EXCEPT ![d] = q] \in Seq(Pass)
        /\ Len([passes[t] EXCEPT ![d] = q]) = Len(passes[t])
        /\ [passes[t] EXCEPT ![d] = q][d] = q
        /\ \A k \in 1 .. d : k # d => [passes[t] EXCEPT ![d] = q][k] = passes[t][k]
    BY <1>a, <1>c, <2>1, ExceptSeq
  <2> QED
    BY <1>a, <1>d, <2>2
<1>g. watchers[Current(t).i + 1] \in ToSet(watchers)
  BY <1>b DEF ToSet
<1> QED
  BY <1>a, <1>c, <1>d, <1>f, <1>g DEF d, q

LEMMA CallNextStep ==
  ASSUME IInv, NEW t \in Threads, CallNext(t)
  PROVE  IInv'
<1> USE DEF IInv, CallNext
<1> DEFINE d == Depth(t)
           q == Advance(Current(t), 1)
<1>a. /\ d \in Nat /\ d > 0 /\ InPass(t)
      /\ q.called # <<>> /\ Last(q.called) \in ToSet(watchers)
      /\ passes'[t] \in Seq(Pass) /\ Len(passes'[t]) = d
      /\ passes'[t][d] = q
      /\ \A k \in 1 .. d : k # d => passes'[t][k] = passes[t][k]
      /\ \A u \in Threads : u # t => passes'[u] = passes[u]
  BY CallPasses
<1>e. watchers' = watchers /\ gate' = gate /\ roles' = roles /\ arraySz' = arraySz
      /\ cb' = cb
  BY DEF listVars
<1> HIDE DEF q, d
<1>1. TypeOK'
  <2>1. passes' \in [Threads -> Seq(Pass)]
    BY <1>a DEF TypeOK
  <2>2. pc' \in [Threads -> Control]
    BY GoType DEF Control
  <2> QED
    BY <2>1, <2>2 DEF TypeOK, listVars, blockVars
<1> USE DEF Go
<1>2. GateInv'
  <2>1. InPass(t)' /\ Depth(t)' = Depth(t)
    BY <1>a, EmptySeq, LenProperties DEF InPass, Depth, d
  <2>2. \A u \in Threads : u # t => InPass(u)' = InPass(u) /\ Depth(u)' = Depth(u)
    BY <1>a DEF InPass, Depth
  <2>3. \A u \in Threads : pc'[u] = "loop" => pc[u] = "loop"
    BY DEF TypeOK
  <2> QED
    BY <1>a, <1>e, <2>1, <2>2, <2>3 DEF GateInv
<1>3. Installing'
  BY DEF Installing, TypeOK
<1>4. Capacity'
  <2>1. Pushing' = Pushing
    BY DEF Pushing, TypeOK
  <2> QED
    BY <1>e, <2>1 DEF Capacity
<1>5. RunningIsInstalled'
  <2> SUFFICES ASSUME NEW u \in Threads, NEW k \in 1 .. Depth(u)',
                      passes'[u][k].called # <<>>
               PROVE  Last(passes'[u][k].called)
                        \in ToSet(watchers') \cup passes'[u][k].removed
    BY DEF RunningIsInstalled
  <2>1. CASE u = t /\ k = d
    BY <1>a, <1>e, <2>1
  <2>2. CASE ~(u = t /\ k = d)
    <3>1. k \in 1 .. Depth(u) /\ passes'[u][k] = passes[u][k]
      BY <1>a, <2>2 DEF Depth, d
    <3> QED
      BY <1>e, <3>1 DEF RunningIsInstalled
  <2> QED
    BY <2>1, <2>2
<1> QED
  BY <1>1, <1>2, <1>3, <1>4, <1>5

LEMMA LeavePasses ==
  ASSUME IInv, NEW t \in Threads, InPass(t), LeavePass(t)
  PROVE  /\ Depth(t) \in Nat /\ Depth(t) > 0
         /\ passes'[t] \in Seq(Pass) /\ Len(passes'[t]) = Depth(t) - 1
         /\ \A k \in 1 .. Depth(t) - 1 : passes'[t][k] = passes[t][k]
         /\ \A u \in Threads : u # t => passes'[u] = passes[u]
<1> USE DEF IInv, LeavePass
<1> DEFINE d == Depth(t)
<1>a. /\ passes[t] \in Seq(Pass) /\ Len(passes[t]) = d
      /\ d \in Nat /\ d > 0
  BY LenProperties, EmptySeq DEF TypeOK, Depth, InPass
<1>b. /\ passes'[t] = SubSeq(passes[t], 1, d - 1)
      /\ \A u \in Threads : u # t => passes'[u] = passes[u]
  BY DEF TypeOK, Depth
<1> HIDE DEF d
<1>d. /\ passes'[t] \in Seq(Pass) /\ Len(passes'[t]) = d - 1
      /\ \A k \in 1 .. d - 1 : passes'[t][k] = passes[t][k]
  <2>1. ASSUME NEW k \in 1 .. d - 1 PROVE passes[t][k] \in Pass
    <3>1. k \in 1 .. Len(passes[t])
      BY <1>a
    <3> QED
      BY <1>a, <3>1, ElementOfSeq
  <2>2. 1 \in Int /\ d - 1 \in Int /\ d - 1 >= 0
    BY <1>a
  <2> DEFINE s == SubSeq(passes[t], 1, d - 1)
  <2>3. /\ s \in Seq(Pass)
        /\ Len(s) = IF 1 <= d - 1 THEN (d - 1) - 1 + 1 ELSE 0
        /\ \A k \in 1 .. (d - 1) - 1 + 1 : s[k] = passes[t][1 + k - 1]
    <3>1. \A k \in 1 .. d - 1 : passes[t][k] \in Pass
      BY <2>1
    <3> QED
      BY <2>2, <3>1, SubSeqProperties
  <2> HIDE DEF s
  <2>4. Len(s) = d - 1
    BY <2>2, <2>3
  <2>5. ASSUME NEW k \in 1 .. d - 1 PROVE s[k] = passes[t][k]
    <3>1. k \in 1 .. (d - 1) - 1 + 1 /\ 1 + k - 1 = k
      BY <2>2
    <3> QED
      BY <2>3, <3>1
  <2> QED
    BY <1>b, <2>3, <2>4, <2>5 DEF s
<1> QED
  BY <1>a, <1>b, <1>d DEF d

LEMMA LeavePassStep ==
  ASSUME IInv, NEW t \in Threads, InPass(t), pc[t] \in {"run", "loop"}, LeavePass(t)
  PROVE  IInv'
<1> USE DEF IInv, LeavePass
<1> DEFINE d == Depth(t)
<1>a. d \in Nat /\ d > 0
  BY LeavePasses
<1>b. \A u \in Threads : u # t => passes'[u] = passes[u]
  BY LeavePasses
<1>d. /\ passes'[t] \in Seq(Pass) /\ Len(passes'[t]) = d - 1
      /\ \A k \in 1 .. d - 1 : passes'[t][k] = passes[t][k]
  BY LeavePasses
<1>c. watchers' = watchers /\ roles' = roles /\ arraySz' = arraySz /\ cb' = cb
  BY DEF listVars
<1> HIDE DEF d
<1>e. /\ gate.owner = t /\ gate.count = d
      /\ \A u \in Threads : u # t => ~InPass(u) /\ ~InPass(u)'
  <2>1. gate.owner = t /\ gate.count = d
    BY DEF GateInv, d
  <2>2. \A u \in Threads : u # t => ~InPass(u)
    BY <2>1 DEF GateInv
  <2> QED
    BY <1>b, <2>1, <2>2 DEF InPass
<1>f. InPass(t)' <=> d # 1
  <2>1. CASE d = 1
    <3>1. Len(passes'[t]) = 0
      BY <1>d, <2>1
    <3> QED
      BY <1>d, <2>1, <3>1, EmptySeq DEF InPass
  <2>2. CASE d # 1
    <3>0. d - 1 # 0
      BY <1>a, <2>2
    <3>1. Len(passes'[t]) # 0
      BY <1>d, <3>0
    <3> QED
      BY <2>2, <3>1, EmptySeq DEF InPass
  <2> QED
    BY <2>1, <2>2
<1>1. TypeOK'
  <2>1. passes' \in [Threads -> Seq(Pass)]
    BY <1>b, <1>d DEF TypeOK
  <2>2. pc' \in [Threads -> Control]
    BY GoType DEF Control
  <2>3. gate' \in MutexOf(Threads)
    BY <1>a, <1>e DEF TypeOK, MutexOf, Unlocked, Fresh
  <2>4. needToInvoke' \in BOOLEAN
    BY Zenon
  <2> QED
    BY <2>1, <2>2, <2>3, <2>4 DEF TypeOK, listVars
<1> USE DEF Go
<1>2. GateInv'
  <2>1. pc' = [pc EXCEPT ![t] = "run"]
    OBVIOUS
  <2>2. \A u \in Threads : pc'[u] # "loop"
    BY <1>e, <2>1 DEF GateInv, TypeOK
  <2>3. CASE d = 1
    <3>1. gate' = Fresh
      BY <1>e, <2>3 DEF Unlocked
    <3> QED
      BY <1>e, <1>f, <2>2, <2>3, <3>1, MsgAssumption, MutexAssumption DEF GateInv, Fresh
  <2>4. CASE d # 1
    <3>1. gate'.owner = t /\ gate'.count = d - 1
      BY <1>a, <1>e, <2>4 DEF Unlocked
    <3> QED
      BY <1>d, <1>e, <1>f, <2>2, <2>4, <3>1, MsgAssumption, MutexAssumption DEF GateInv, Depth
  <2> QED
    BY <2>3, <2>4
<1>3. Installing'
  BY DEF Installing, TypeOK
<1>4. Capacity'
  <2>1. Pushing' = Pushing
    BY DEF Pushing, TypeOK
  <2> QED
    BY <1>c, <2>1 DEF Capacity
<1>5. RunningIsInstalled'
  <2> SUFFICES ASSUME NEW u \in Threads, NEW k \in 1 .. Depth(u)',
                      passes'[u][k].called # <<>>
               PROVE  Last(passes'[u][k].called)
                        \in ToSet(watchers') \cup passes'[u][k].removed
    BY DEF RunningIsInstalled
  <2>1. k \in 1 .. Depth(u) /\ passes'[u][k] = passes[u][k]
    <3>1. CASE u = t
      <4>1. k \in 1 .. d - 1
        BY <1>d, <3>1 DEF Depth
      <4>2. k \in 1 .. d
        BY <1>a, <4>1
      <4> QED
        BY <1>d, <3>1, <4>1, <4>2 DEF d
    <3>2. CASE u # t
      BY <1>b, <3>2 DEF Depth
    <3> QED
      BY <3>1, <3>2
  <2> QED
    BY <1>c, <2>1 DEF RunningIsInstalled
<1> QED
  BY <1>1, <1>2, <1>3, <1>4, <1>5

LEMMA InvokeStep ==
  ASSUME IInv, NEW t \in Threads, Invoke(t)
  PROVE  IInv'
<1>0. /\ pc[t] = "run"
      /\ UNCHANGED <<roles, watchers, arraySz, gate, cb, passes>>
  BY DEF Invoke, listVars
<1>1. PICK place \in {"need", "enter"} : Go(t, place)
  BY DEF Invoke, InvokeHead
<1>2. TypeOK'
  <2>1. pc' \in [Threads -> Control]
    BY <1>1, GoType DEF Control, IInv
  <2> QED
    BY <2>1 DEF Invoke, TypeOK, IInv, listVars, blockVars
<1>3. GateInv' /\ Installing' /\ Capacity' /\ RunningIsInstalled'
  BY <1>0, <1>1, AsideStep DEF Go, Control
<1> QED
  BY <1>2, <1>3 DEF IInv

LEMMA SetNeedStep ==
  ASSUME IInv, NEW t \in Threads, SetNeed(t)
  PROVE  IInv'
<1>0. /\ pc[t] = "need"
      /\ UNCHANGED <<roles, watchers, arraySz, gate, cb, passes>>
  BY DEF SetNeed, listVars
<1>1. Go(t, "run")
  BY DEF SetNeed
<1>2. TypeOK'
  <2>1. pc' \in [Threads -> Control]
    BY <1>1, GoType DEF Control, IInv
  <2>2. needToInvoke' \in BOOLEAN /\ owed' \in BOOLEAN
    BY Zenon DEF SetNeed
  <2> QED
    BY <2>1, <2>2 DEF SetNeed, TypeOK, IInv, listVars
<1>3. GateInv' /\ Installing' /\ Capacity' /\ RunningIsInstalled'
  BY <1>0, <1>1, AsideStep DEF Go, Control
<1> QED
  BY <1>2, <1>3 DEF IInv

LEMMA ReturnStep ==
  ASSUME IInv, NEW t \in Threads, Return(t)
  PROVE  IInv'
<1>0. /\ pc[t] = "run" /\ InPass(t)
      /\ UNCHANGED <<roles, watchers, arraySz, gate, cb, passes>>
  BY DEF Return, listVars
<1>1. Go(t, "loop")
  BY DEF Return
<1>2. TypeOK'
  <2>1. pc' \in [Threads -> Control]
    BY <1>1, GoType DEF Control, IInv
  <2> QED
    BY <2>1 DEF Return, TypeOK, IInv, listVars, blockVars
<1>3. GateInv' /\ Installing' /\ Capacity' /\ RunningIsInstalled'
  BY <1>0, <1>1, AsideStep DEF Go, Control
<1> QED
  BY <1>2, <1>3 DEF IInv

LEMMA BlockStep ==
  ASSUME IInv, NEW t \in Threads, Block(t)
  PROVE  IInv'
<1>0. /\ pc[t] = "run"
      /\ UNCHANGED <<roles, watchers, arraySz, gate, cb, passes>>
  BY DEF Block, listVars
<1>1. Go(t, "store+")
  BY DEF Block
<1>2. TypeOK'
  <2>1. pc' \in [Threads -> Control]
    BY <1>1, GoType DEF Control, IInv
  <2>2. loaded' \in [Threads -> Int]
    BY DEF Block, TypeOK, IInv
  <2> QED
    BY <2>1, <2>2 DEF Block, TypeOK, IInv, listVars, blockVars
<1>3. GateInv' /\ Installing' /\ Capacity' /\ RunningIsInstalled'
  BY <1>0, <1>1, AsideStep DEF Go, Control
<1> QED
  BY <1>2, <1>3 DEF IInv

LEMMA BlockStoreStep ==
  ASSUME IInv, NEW t \in Threads, BlockStore(t)
  PROVE  IInv'
<1>0. /\ pc[t] = "store+"
      /\ UNCHANGED <<roles, watchers, arraySz, gate, cb, passes>>
  BY DEF BlockStore, listVars
<1>1. Go(t, "run")
  BY DEF BlockStore
<1>2. TypeOK'
  <2>1. pc' \in [Threads -> Control]
    BY <1>1, GoType DEF Control, IInv
  <2>2. loaded' \in [Threads -> Int]
    BY DEF BlockStore, TypeOK, IInv
  <2>3. block' \in Int
    BY DEF BlockStore, TypeOK, IInv
  <2>4. blocks' \in [Threads -> Nat]
    BY DEF BlockStore, TypeOK, IInv
  <2>5. needToInvoke' \in BOOLEAN
    BY Zenon DEF BlockStore
  <2> QED
    BY <2>1, <2>2, <2>3, <2>4, <2>5 DEF BlockStore, TypeOK, IInv, listVars, blockVars
<1>3. GateInv' /\ Installing' /\ Capacity' /\ RunningIsInstalled'
  BY <1>0, <1>1, AsideStep DEF Go, Control
<1> QED
  BY <1>2, <1>3 DEF IInv

LEMMA UnblockStep ==
  ASSUME IInv, NEW t \in Threads, Unblock(t)
  PROVE  IInv'
<1>0. /\ pc[t] = "run"
      /\ UNCHANGED <<roles, watchers, arraySz, gate, cb, passes>>
  BY DEF Unblock, listVars
<1>1. PICK place \in {"run", "load-"} : Go(t, place)
  BY DEF Unblock
<1>2. TypeOK'
  <2>1. pc' \in [Threads -> Control]
    BY <1>1, GoType DEF Control, IInv
  <2>2. blocks' \in [Threads -> Nat]
    BY DEF Unblock, TypeOK, IInv
  <2> QED
    BY <2>1, <2>2 DEF Unblock, TypeOK, IInv, listVars, blockVars
<1>3. GateInv' /\ Installing' /\ Capacity' /\ RunningIsInstalled'
  BY <1>0, <1>1, AsideStep DEF Go, Control
<1> QED
  BY <1>2, <1>3 DEF IInv

LEMMA UnblockLoadStep ==
  ASSUME IInv, NEW t \in Threads, UnblockLoad(t)
  PROVE  IInv'
<1>0. /\ pc[t] = "load-"
      /\ UNCHANGED <<roles, watchers, arraySz, gate, cb, passes>>
  BY DEF UnblockLoad, listVars
<1>1. Go(t, "store-")
  BY DEF UnblockLoad
<1>2. TypeOK'
  <2>1. pc' \in [Threads -> Control]
    BY <1>1, GoType DEF Control, IInv
  <2>2. loaded' \in [Threads -> Int]
    BY DEF UnblockLoad, TypeOK, IInv
  <2> QED
    BY <2>1, <2>2 DEF UnblockLoad, TypeOK, IInv, listVars, blockVars
<1>3. GateInv' /\ Installing' /\ Capacity' /\ RunningIsInstalled'
  BY <1>0, <1>1, AsideStep DEF Go, Control
<1> QED
  BY <1>2, <1>3 DEF IInv

LEMMA UnblockStoreStep ==
  ASSUME IInv, NEW t \in Threads, UnblockStore(t)
  PROVE  IInv'
<1>0. /\ pc[t] = "store-"
      /\ UNCHANGED <<roles, watchers, arraySz, gate, cb, passes>>
  BY DEF UnblockStore, listVars
<1>1. Go(t, "test")
  BY DEF UnblockStore
<1>2. TypeOK'
  <2>1. pc' \in [Threads -> Control]
    BY <1>1, GoType DEF Control, IInv
  <2>2. loaded' \in [Threads -> Int]
    BY DEF UnblockStore, TypeOK, IInv
  <2>3. block' \in Int
    BY DEF UnblockStore, TypeOK, IInv
  <2> QED
    BY <2>1, <2>2, <2>3 DEF UnblockStore, TypeOK, IInv, listVars, blockVars
<1>3. GateInv' /\ Installing' /\ Capacity' /\ RunningIsInstalled'
  BY <1>0, <1>1, AsideStep DEF Go, Control
<1> QED
  BY <1>2, <1>3 DEF IInv

LEMMA UnblockTestStep ==
  ASSUME IInv, NEW t \in Threads, UnblockTest(t)
  PROVE  IInv'
<1>0. /\ pc[t] = "test"
      /\ UNCHANGED <<roles, watchers, arraySz, gate, cb, passes>>
  BY DEF UnblockTest, listVars
<1>1. PICK place \in {"run", "need", "enter"} : Go(t, place)
  BY DEF UnblockTest, InvokeHead
<1>2. TypeOK'
  <2>1. pc' \in [Threads -> Control]
    BY <1>1, GoType DEF Control, IInv
  <2>2. owed' \in BOOLEAN
    BY Zenon DEF UnblockTest
  <2> QED
    BY <2>1, <2>2 DEF UnblockTest, TypeOK, IInv, listVars, blockVars
<1>3. GateInv' /\ Installing' /\ Capacity' /\ RunningIsInstalled'
  BY <1>0, <1>1, AsideStep DEF Go, Control
<1> QED
  BY <1>2, <1>3 DEF IInv

-------------------------------------------------------------------------------
LEMMA InductiveIInv == IInv /\ [Next]_vars => IInv'
<1> SUFFICES ASSUME IInv, [Next]_vars PROVE IInv'
  OBVIOUS
<1>1. CASE UNCHANGED vars
  <2>1. /\ UNCHANGED <<roles, watchers, arraySz, installs, block, needToInvoke>>
        /\ UNCHANGED <<loaded, blocks, owed, gate, pc, cb, passes>>
    BY <1>1 DEF vars, listVars, blockVars
  <2>2. TypeOK'
    BY <2>1 DEF IInv, TypeOK
  <2>3. GateInv' /\ Installing'
    BY <2>1 DEF IInv, GateInv, Installing, InPass, Depth
  <2>4. Capacity' /\ RunningIsInstalled'
    BY <2>1 DEF IInv, Capacity, Pushing, RunningIsInstalled, Depth
  <2> QED
    BY <2>2, <2>3, <2>4 DEF IInv
<1>2. ASSUME NEW t \in Threads, NEW c \in Callbacks,
             Install(t, c) \/ RemoveDest(t, Dest[c])
      PROVE  IInv'
  BY <1>2, InstallStep, RemoveStep
<1>3. ASSUME NEW t \in Threads,
             \/ Grow(t) \/ PushBack(t)
             \/ Invoke(t) \/ SetNeed(t) \/ EnterPass(t) \/ CallNext(t) \/ Return(t)
      PROVE  IInv'
  BY <1>3, GrowStep, PushBackStep, InvokeStep, SetNeedStep, EnterPassStep,
     CallNextStep, ReturnStep
<1>4. ASSUME NEW t \in Threads, EndPass(t) \/ Break(t)
      PROVE  IInv'
  <2>1. InPass(t) /\ pc[t] \in {"run", "loop"} /\ LeavePass(t)
    BY <1>4 DEF EndPass, Break, PassDone, IInv, GateInv
  <2> QED
    BY <2>1, LeavePassStep
<1>5. ASSUME NEW t \in Threads,
             \/ Block(t) \/ BlockStore(t)
             \/ Unblock(t) \/ UnblockLoad(t) \/ UnblockStore(t) \/ UnblockTest(t)
      PROVE  IInv'
  BY <1>5, BlockStep, BlockStoreStep, UnblockStep, UnblockLoadStep,
     UnblockStoreStep, UnblockTestStep
<1> QED
  BY <1>1, <1>2, <1>3, <1>4, <1>5 DEF Next

(***************************************************************************)
(* The inductive invariant holds in every reachable state.                   *)
(***************************************************************************)
THEOREM Invariance == Spec => []IInv
<1> QED
  BY InitIInv, InductiveIInv, PTL DEF Spec

(***************************************************************************)
(* The list, the counters and the control of a MsgCB keep their types.       *)
(***************************************************************************)
THEOREM MsgTypeCorrect == Spec => []TypeOK
<1>1. IInv => TypeOK
  BY DEF IInv
<1> QED
  BY <1>1, Invariance, PTL

(***************************************************************************)
(* With at most two threads that install, however many others remove, notify *)
(* and block, cb_pushback() never writes past the array it allocated.        *)
(***************************************************************************)
THEOREM MsgInBounds == Spec => []InBounds
<1>1. IInv => InBounds
  <2> SUFFICES ASSUME IInv, Cardinality(roles.install) <= 2
               PROVE  Len(watchers) <= arraySz
    BY DEF InBounds
  <2>1. Len(watchers) \in Nat
    BY LenProperties DEF IInv, TypeOK
  <2> QED
    BY <2>1, PushingFinite DEF IInv, Capacity, TypeOK
<1> QED
  BY <1>1, Invariance, PTL

(***************************************************************************)
(* remove() called by another thread waits for the notification in progress: *)
(* a callback that runs is in the list or was removed from inside the very   *)
(* notification that runs it, for any nesting.                               *)
(***************************************************************************)
THEOREM MsgRunningIsInstalled == Spec => []RunningIsInstalled
<1>1. IInv => RunningIsInstalled
  BY DEF IInv
<1> QED
  BY <1>1, Invariance, PTL

-------------------------------------------------------------------------------
(***************************************************************************)
(* What a MsgCB promises of delivery, for any number of threads: the counter  *)
(* counts if one thread blocks, what is put off is delivered if that thread   *)
(* is also the one that notifies, and a notification calls the callbacks in   *)
(* order and leaves out none but for removals.                               *)
(***************************************************************************)

(* Inside block() and unblock() *)
Blocking == {"store+", "load-", "store-", "test"}
(* Inside unblock(), before the counter is written *)
Lowering == {"load-", "store-"}

CountedAt(t) ==
  /\ \A u \in Threads \ {t} : blocks[u] = 0 /\ pc[u] \notin Blocking
  /\ block = IF pc[t] \in Lowering THEN blocks[t] + 1 ELSE blocks[t]
  /\ pc[t] \in {"store+", "store-"} => loaded[t] = block

Counted == \A t \in Threads : roles.block \subseteq {t} => CountedAt(t)

(* While the thread is inside a notification it has not blocked; what is owed is
   pending, and the thread has blocked or is about to deliver it. *)
NoticeAt(t) ==
  /\ \A u \in Threads \ {t} : ~InPass(u) /\ pc[u] \notin {"need", "enter", "loop"}
  /\ blocks[t] <= 1
  /\ pc[t] \in Blocking \cup {"enter"} => blocks[t] = 0
  /\ pc[t] = "need" => blocks[t] > 0
  /\ InPass(t) => blocks[t] = 0 /\ ~owed /\ pc[t] \notin Blocking \cup {"need"}
  /\ owed => needToInvoke /\ (blocks[t] > 0 \/ pc[t] \in {"load-", "store-", "test", "enter"})

Noticed == \A t \in Threads : OneNotifier(t) => NoticeAt(t)

-------------------------------------------------------------------------------
(***************************************************************************)
(* The counter: only block() and unblock() touch it.                         *)
(***************************************************************************)
LEMMA InitCounted == Init => Counted
BY DEF Init, Counted, CountedAt, Blocking, Lowering

LEMMA CountedAside ==
  ASSUME TypeOK, NEW t \in Threads, CountedAt(t), NEW s \in Threads,
         NEW place \in Control \ Blocking, pc[s] \notin Blocking, Go(s, place),
         UNCHANGED <<block, loaded, blocks>>
  PROVE  CountedAt(t)'
BY DEF TypeOK, Go, CountedAt, Blocking, Lowering

(* A thread inside block() or unblock(), or with a block of its own, is the one. *)
LEMMA OnlyBlocker ==
  ASSUME NEW t \in Threads, CountedAt(t), NEW s \in Threads,
         pc[s] \in Blocking \/ blocks[s] # 0
  PROVE  s = t
BY DEF CountedAt

LEMMA BlockCounted ==
  ASSUME TypeOK, NEW t \in Threads, roles.block \subseteq {t}, CountedAt(t),
         NEW s \in Threads,
         Block(s) \/ BlockStore(s) \/ Unblock(s)
           \/ UnblockLoad(s) \/ UnblockStore(s) \/ UnblockTest(s)
  PROVE  CountedAt(t)'
<1> USE DEF TypeOK, CountedAt, Blocking, Lowering, Go
<1>1. CASE Block(s)
  BY <1>1 DEF Block
<1>2. CASE BlockStore(s)
  <2>1. s = t
    BY <1>2, OnlyBlocker DEF BlockStore
  <2> QED
    BY <1>2, <2>1 DEF BlockStore
<1>3. CASE Unblock(s)
  <2>1. s = t
    BY <1>3, OnlyBlocker DEF Unblock
  <2> QED
    BY <1>3, <2>1 DEF Unblock
<1>4. CASE UnblockLoad(s)
  <2>1. s = t
    BY <1>4, OnlyBlocker DEF UnblockLoad
  <2> QED
    BY <1>4, <2>1 DEF UnblockLoad
<1>5. CASE UnblockStore(s)
  <2>1. s = t
    BY <1>5, OnlyBlocker DEF UnblockStore
  <2> QED
    BY <1>5, <2>1 DEF UnblockStore
<1>6. CASE UnblockTest(s)
  <2>1. PICK place \in {"run", "need", "enter"} : Go(s, place)
    BY <1>6 DEF UnblockTest, InvokeHead
  <2>2. s = t
    BY <1>6, OnlyBlocker DEF UnblockTest
  <2> QED
    BY <1>6, <2>1, <2>2 DEF UnblockTest
<1> QED
  BY <1>1, <1>2, <1>3, <1>4, <1>5, <1>6

(* Where the other operations of a thread lead it to. *)
LEMMA InstallAside ==
  ASSUME NEW s \in Threads, NEW c \in Callbacks, Install(s, c)
  PROVE  /\ pc[s] \notin Blocking
         /\ \E place \in Control \ Blocking : Go(s, place)
         /\ UNCHANGED <<roles, block, loaded, blocks>>
BY DEF Install, blockVars, Blocking, Control

LEMMA Aside ==
  ASSUME NEW s \in Threads,
         \/ Grow(s) \/ PushBack(s) \/ Invoke(s) \/ SetNeed(s)
         \/ EnterPass(s) \/ CallNext(s) \/ Return(s) \/ EndPass(s) \/ Break(s)
  PROVE  /\ pc[s] \notin Blocking
         /\ \E place \in Control \ Blocking : Go(s, place)
         /\ UNCHANGED <<roles, block, loaded, blocks>>
<1> USE DEF Blocking, Control
<1>1. CASE Grow(s)
  BY <1>1 DEF Grow, blockVars
<1>2. CASE PushBack(s)
  BY <1>2 DEF PushBack, blockVars
<1>3. CASE Invoke(s)
  BY <1>3 DEF Invoke, InvokeHead, blockVars
<1>4. CASE SetNeed(s)
  BY <1>4 DEF SetNeed
<1>5. CASE EnterPass(s)
  BY <1>5 DEF EnterPass
<1>6. CASE CallNext(s)
  BY <1>6 DEF CallNext, blockVars
<1>7. CASE Return(s)
  BY <1>7 DEF Return, blockVars
<1>8. CASE EndPass(s) \/ Break(s)
  BY <1>8 DEF EndPass, PassDone, Break, LeavePass
<1> QED
  BY <1>1, <1>2, <1>3, <1>4, <1>5, <1>6, <1>7, <1>8

LEMMA InductiveCounted == TypeOK /\ Counted /\ [Next]_vars => Counted'
<1> SUFFICES ASSUME TypeOK, Counted, [Next]_vars,
                    NEW t \in Threads, roles'.block \subseteq {t}
             PROVE  CountedAt(t)'
  BY DEF Counted
<1>1. CASE UNCHANGED vars
  BY <1>1 DEF Counted, CountedAt, vars, blockVars
<1>2. ASSUME NEW s \in Threads, NEW c \in Callbacks, RemoveDest(s, Dest[c])
      PROVE  CountedAt(t)'
  BY <1>2 DEF Counted, CountedAt, RemoveDest, blockVars
<1>3. ASSUME NEW s \in Threads, NEW c \in Callbacks, Install(s, c)
      PROVE  CountedAt(t)'
  BY <1>3, InstallAside, CountedAside DEF Counted
<1>4. ASSUME NEW s \in Threads,
             \/ Grow(s) \/ PushBack(s) \/ Invoke(s) \/ SetNeed(s)
             \/ EnterPass(s) \/ CallNext(s) \/ Return(s) \/ EndPass(s) \/ Break(s)
      PROVE  CountedAt(t)'
  BY <1>4, Aside, CountedAside DEF Counted
<1>5. ASSUME NEW s \in Threads,
             \/ Block(s) \/ BlockStore(s) \/ Unblock(s)
             \/ UnblockLoad(s) \/ UnblockStore(s) \/ UnblockTest(s)
      PROVE  CountedAt(t)'
  <2>1. roles' = roles
    BY <1>5 DEF Block, BlockStore, Unblock, UnblockLoad, UnblockStore, UnblockTest
  <2> QED
    BY <1>5, <2>1, BlockCounted DEF Counted
<1> QED
  BY <1>1, <1>2, <1>3, <1>4, <1>5 DEF Next

-------------------------------------------------------------------------------
(***************************************************************************)
(* The pending notification.  The gate tells who is inside a notification,    *)
(* before and after each step.                                               *)
(***************************************************************************)
LEMMA InitNoticed == Init => Noticed
BY DEF Init, Noticed, NoticeAt, InPass, Blocking

(* While only the list of callbacks changes: install, grow, store, remove. *)
LEMMA ListNoticed ==
  ASSUME TypeOK, GateInv, GateInv', NEW t \in Threads, NoticeAt(t),
         NEW s \in Threads, pc[s] \in {"run", "grow", "push"},
         NEW place \in {"run", "grow", "push"}, Go(s, place),
         UNCHANGED <<needToInvoke, blocks, owed, gate>>
  PROVE  NoticeAt(t)'
<1>1. \A u \in Threads : InPass(u)' <=> InPass(u)
  BY DEF GateInv
<1>2. /\ \A u \in Threads \ {t} :
           ~InPass(u)' /\ pc'[u] \notin {"need", "enter", "loop"}
      /\ blocks'[t] <= 1
  BY <1>1 DEF NoticeAt, TypeOK, Go
<1>3. /\ pc'[t] \in Blocking \cup {"enter"} => blocks'[t] = 0
      /\ pc'[t] = "need" => blocks'[t] > 0
      /\ InPass(t)' => /\ blocks'[t] = 0 /\ ~owed'
                       /\ pc'[t] \notin Blocking \cup {"need"}
  BY <1>1 DEF NoticeAt, TypeOK, Go, Blocking
<1>4. owed' => /\ needToInvoke'
               /\ \/ blocks'[t] > 0
                  \/ pc'[t] \in {"load-", "store-", "test", "enter"}
  BY DEF NoticeAt, TypeOK, Go
<1> QED
  BY <1>2, <1>3, <1>4 DEF NoticeAt

(* While it notifies, with the list enabled as the count says. *)
LEMMA PassNoticed ==
  ASSUME TypeOK, GateInv, NEW t \in Threads, OneNotifier(t), CountedAt(t), NoticeAt(t),
         NEW s \in Threads,
         \/ Invoke(s) \/ SetNeed(s) \/ EnterPass(s) \/ CallNext(s) \/ Return(s)
         \/ EndPass(s) \/ Break(s)
  PROVE  NoticeAt(t)'
<1>1. s = t
  BY DEF Invoke, SetNeed, EnterPass, CallNext, Return, EndPass, PassDone, Break,
         OneNotifier, NoticeAt, GateInv
<1> USE DEF TypeOK, Go, NoticeAt, Blocking, InPass
<1>2. CASE Invoke(t)
  <2>1. block = blocks[t]
    BY <1>2 DEF Invoke, CountedAt, Lowering
  <2> QED
    BY <1>2, <2>1 DEF Invoke, InvokeHead, blockVars
<1>3. CASE SetNeed(t)
  BY <1>3 DEF SetNeed
<1>4. CASE EnterPass(t)
  BY <1>4 DEF EnterPass
<1>5. CASE CallNext(t)
  BY <1>5 DEF CallNext, blockVars, GateInv
<1>6. CASE Return(t)
  BY <1>6 DEF Return, blockVars
<1>7. CASE EndPass(t) \/ Break(t)
  BY <1>7 DEF EndPass, PassDone, Break, LeavePass, GateInv
<1> QED
  BY <1>1, <1>2, <1>3, <1>4, <1>5, <1>6, <1>7

(* While it blocks and unblocks. *)
LEMMA BlockNoticed ==
  ASSUME TypeOK, NEW t \in Threads, OneNotifier(t), CountedAt(t), NoticeAt(t),
         NEW s \in Threads,
         Block(s) \/ BlockStore(s) \/ Unblock(s)
           \/ UnblockLoad(s) \/ UnblockStore(s) \/ UnblockTest(s)
  PROVE  NoticeAt(t)'
<1>1. s = t
  <2>1. CASE Block(s)
    BY <2>1 DEF Block, OneNotifier
  <2>2. CASE ~Block(s)
    BY <2>2, OnlyBlocker DEF BlockStore, Unblock, UnblockLoad, UnblockStore,
       UnblockTest, Blocking, TypeOK
  <2> QED
    BY <2>1, <2>2
<1> USE DEF TypeOK, Go, NoticeAt, Blocking, InPass
<1>2. CASE Block(t)
  <2>1. roles.nested \in Nat
    BY MsgAssumption DEF Roles
  <2>2. blocks[t] = 0
    BY <1>2, <2>1 DEF Block, OneNotifier
  <2> QED
    BY <1>2, <2>2 DEF Block, OneNotifier
<1>3. CASE BlockStore(t)
  BY <1>3 DEF BlockStore
<1>4. CASE Unblock(t)
  <2>1. block # 0
    BY <1>4 DEF Unblock, CountedAt, Lowering
  <2> QED
    BY <1>4, <2>1 DEF Unblock, OneNotifier
<1>5. CASE UnblockLoad(t)
  BY <1>5 DEF UnblockLoad
<1>6. CASE UnblockStore(t)
  BY <1>6 DEF UnblockStore
<1>7. CASE UnblockTest(t)
  <2>1. block = 0
    BY <1>7 DEF UnblockTest, CountedAt, Lowering
  <2> QED
    BY <1>7, <2>1 DEF UnblockTest, InvokeHead
<1> QED
  BY <1>1, <1>2, <1>3, <1>4, <1>5, <1>6, <1>7

LEMMA InductiveNoticed ==
  IInv /\ Counted /\ Noticed /\ [Next]_vars => Noticed'
<1> SUFFICES ASSUME IInv, Counted, Noticed, [Next]_vars,
                    NEW t \in Threads, OneNotifier(t)'
             PROVE  NoticeAt(t)'
  BY DEF Noticed
<1>1. TypeOK /\ GateInv /\ GateInv'
  BY InductiveIInv DEF IInv
<1>2. roles' = roles => OneNotifier(t) /\ CountedAt(t) /\ NoticeAt(t)
  BY DEF OneNotifier, Counted, Noticed
<1>3. CASE UNCHANGED vars
  BY <1>2, <1>3 DEF NoticeAt, InPass, vars, blockVars
<1>4. ASSUME NEW s \in Threads, NEW c \in Callbacks,
             Install(s, c) \/ RemoveDest(s, Dest[c])
      PROVE  NoticeAt(t)'
  <2>1. CASE Install(s, c)
    <3>1. PICK place \in {"run", "grow", "push"} : Go(s, place)
      BY <2>1 DEF Install
    <3> QED
      BY <1>1, <1>2, <2>1, <3>1, ListNoticed DEF Install, blockVars
  <2>2. CASE RemoveDest(s, Dest[c])
    <3>1. Go(s, "run")
      BY <1>1, <2>2 DEF RemoveDest, Go, TypeOK
    <3> QED
      BY <1>1, <1>2, <2>2, <3>1, ListNoticed DEF RemoveDest, blockVars
  <2> QED
    BY <1>4, <2>1, <2>2
<1>5. ASSUME NEW s \in Threads, Grow(s) \/ PushBack(s)
      PROVE  NoticeAt(t)'
  BY <1>1, <1>2, <1>5, ListNoticed DEF Grow, PushBack, blockVars
<1>6. ASSUME NEW s \in Threads,
             \/ Invoke(s) \/ SetNeed(s) \/ EnterPass(s) \/ CallNext(s) \/ Return(s)
             \/ EndPass(s) \/ Break(s)
      PROVE  NoticeAt(t)'
  <2>1. roles' = roles
    BY <1>6 DEF Invoke, SetNeed, EnterPass, CallNext, Return, EndPass, Break, LeavePass
  <2> QED
    BY <1>1, <1>2, <1>6, <2>1, PassNoticed
<1>7. ASSUME NEW s \in Threads,
             \/ Block(s) \/ BlockStore(s) \/ Unblock(s)
             \/ UnblockLoad(s) \/ UnblockStore(s) \/ UnblockTest(s)
      PROVE  NoticeAt(t)'
  <2>1. roles' = roles
    BY <1>7 DEF Block, BlockStore, Unblock, UnblockLoad, UnblockStore, UnblockTest
  <2> QED
    BY <1>1, <1>2, <1>7, <2>1, BlockNoticed
<1> QED
  BY <1>3, <1>4, <1>5, <1>6, <1>7 DEF Next

-------------------------------------------------------------------------------
(* Together with the gate, the counter and what is owed are an invariant. *)
LEMMA CountedAndNoticed == Spec => [](Counted /\ Noticed)
<1>1. Init => IInv /\ Counted /\ Noticed
  BY InitIInv, InitCounted, InitNoticed
<1>2. IInv /\ Counted /\ Noticed /\ [Next]_vars => (IInv /\ Counted /\ Noticed)'
  <2>1. IInv => TypeOK
    BY DEF IInv
  <2> QED
    BY <2>1, InductiveIInv, InductiveCounted, InductiveNoticed
<1> QED
  BY <1>1, <1>2, PTL DEF Spec

(***************************************************************************)
(* If one thread blocks the list, however it nests its blocks and whoever     *)
(* else installs, removes and notifies, _block is the number of its block()   *)
(* calls that are not yet unblocked.                                         *)
(***************************************************************************)
THEOREM MsgBlocksCounted == Spec => []BlocksCounted
<1>1. Counted => BlocksCounted
  BY DEF Counted, CountedAt, BlocksCounted, Lowering
<1> QED
  BY <1>1, CountedAndNoticed, PTL

(***************************************************************************)
(* If one thread blocks and notifies, without nesting and outside callbacks,  *)
(* a notification put off by block() stays pending until unblock() delivers   *)
(* it, whoever installs and removes meanwhile.                               *)
(***************************************************************************)
THEOREM MsgOwedIsDelivered == Spec => []OwedIsDelivered
<1>1. Noticed => OwedIsDelivered
  BY DEF Noticed, NoticeAt, OwedIsDelivered
<1> QED
  BY <1>1, CountedAndNoticed, PTL

-------------------------------------------------------------------------------
(***************************************************************************)
(* The walk of a notification p over the list w.  What it called and was not  *)
(* removed lies at or before its index, in the order of the calls; what lies  *)
(* there and was not called, and the places the index is ahead of the end of  *)
(* the list, are paid for by removals.                                        *)
(***************************************************************************)
Behind(w, i) == {w[x] : x \in {y \in 1 .. Len(w) : y <= i}}
Beyond(w, i) == IF i > Len(w) THEN i - Len(w) ELSE 0

Reached(p, w) ==
  \A m \in 1 .. Len(p.called) : p.called[m] \notin p.removed =>
    \E x \in 1 .. Len(w) : x <= p.i /\ w[x] = p.called[m]

InOrder(p, w) ==
  \A m \in 1 .. Len(p.called) : \A n \in m + 1 .. Len(p.called) :
    {p.called[m], p.called[n]} \cap p.removed = {} =>
      \E x \in 1 .. Len(w) : \E y \in x + 1 .. Len(w) :
        w[x] = p.called[m] /\ w[y] = p.called[n]

Missed(p, w) == Behind(w, p.i) \ ToSet(p.called)

Paid(p, w) == Cardinality(Missed(p, w)) + Beyond(w, p.i) <= p.shifts

Walks(p, w) == Reached(p, w) /\ InOrder(p, w) /\ Paid(p, w)

AllWalk == \A t \in Threads : \A k \in 1 .. Depth(t) : Walks(passes[t][k], watchers)

LEMMA PassFields ==
  ASSUME NEW p \in Pass
  PROVE  /\ p.i \in Nat /\ p.shifts \in Nat
         /\ p.called \in Seq(Callbacks) /\ Len(p.called) \in Nat
BY LenProperties DEF Pass

LEMMA SetFinite ==
  ASSUME NEW w \in Seq(Callbacks)
  PROVE  IsFiniteSet(ToSet(w))
<1>1. Len(w) \in Nat /\ DOMAIN w = 1 .. Len(w) /\ w \in [1 .. Len(w) -> Callbacks]
  BY LenProperties
<1>2. w \in Surjection(1 .. Len(w), ToSet(w))
  BY <1>1 DEF Surjection, ToSet
<1>3. IsFiniteSet(1 .. Len(w))
  BY <1>1, FS_Interval
<1> QED
  BY <1>2, <1>3, FS_Surjection

LEMMA MissedFinite ==
  ASSUME NEW w \in Seq(Callbacks), NEW i \in Nat, NEW S
  PROVE  /\ Behind(w, i) \subseteq ToSet(w)
         /\ IsFiniteSet(Behind(w, i) \ S) /\ Cardinality(Behind(w, i) \ S) \in Nat
<1>1. Behind(w, i) \subseteq ToSet(w)
  BY LenProperties DEF Behind, ToSet
<1>2. IsFiniteSet(Behind(w, i) \ S)
  BY <1>1, SetFinite, FS_Subset
<1> QED
  BY <1>1, <1>2, FS_CardinalityType

(* One more in the list can be one more that is missed. *)
LEMMA OneMore ==
  ASSUME NEW A, NEW B, NEW c, IsFiniteSet(A), B \subseteq A \cup {c}
  PROVE  /\ IsFiniteSet(B) /\ Cardinality(B) \in Nat /\ Cardinality(A) \in Nat
         /\ Cardinality(B) <= Cardinality(A) + 1
<1>1. /\ IsFiniteSet(A \cup {c}) /\ Cardinality(A) \in Nat
      /\ Cardinality(A \cup {c}) <= Cardinality(A) + 1
  <2>1. Cardinality(A) \in Nat
    BY FS_CardinalityType
  <2>2. /\ IsFiniteSet(A \cup {c})
        /\ \/ Cardinality(A \cup {c}) = Cardinality(A)
           \/ Cardinality(A \cup {c}) = Cardinality(A) + 1
    BY FS_AddElement
  <2> QED
    BY <2>1, <2>2
<1>2. IsFiniteSet(B) /\ Cardinality(B) <= Cardinality(A \cup {c})
  BY <1>1, FS_Subset
<1>3. Cardinality(B) \in Nat /\ Cardinality(A \cup {c}) \in Nat
  BY <1>1, <1>2, FS_CardinalityType
<1> QED
  BY <1>1, <1>2, <1>3

LEMMA NewWalk ==
  ASSUME NEW w \in Seq(Callbacks)
  PROVE  Walks(NewPass, w)
<1>1. /\ NewPass.called = <<>> /\ NewPass.i = 0 /\ NewPass.shifts = 0
      /\ Len(NewPass.called) = 0 /\ Len(w) \in Nat
  BY LenProperties, EmptySeq DEF NewPass
<1>2. Missed(NewPass, w) = {}
  BY <1>1 DEF Missed, Behind
<1>3. Beyond(w, 0) = 0
  BY <1>1 DEF Beyond
<1>4. Paid(NewPass, w)
  BY <1>1, <1>2, <1>3, FS_EmptySet DEF Paid
<1> QED
  BY <1>1, <1>4 DEF Walks, Reached, InOrder

(* A callback is installed: at the end of the list. *)
LEMMA WalkAppend ==
  ASSUME NEW p \in Pass, NEW w \in Seq(Callbacks), NEW c \in Callbacks, Walks(p, w)
  PROVE  Walks(p, Append(w, c))
<1> DEFINE v == Append(w, c)
<1>1. /\ v \in Seq(Callbacks) /\ Len(v) = Len(w) + 1 /\ Len(w) \in Nat
      /\ \A x \in 1 .. Len(w) : v[x] = w[x]
      /\ v[Len(w) + 1] = c
  BY AppendProperties, LenProperties
<1> HIDE DEF v
<1>2. Reached(p, v)
  BY <1>1 DEF Walks, Reached
<1>3. InOrder(p, v)
  <2> SUFFICES ASSUME NEW m \in 1 .. Len(p.called), NEW n \in m + 1 .. Len(p.called),
                      {p.called[m], p.called[n]} \cap p.removed = {}
               PROVE  \E x \in 1 .. Len(v) : \E y \in x + 1 .. Len(v) :
                        v[x] = p.called[m] /\ v[y] = p.called[n]
    BY DEF InOrder
  <2>1. PICK x \in 1 .. Len(w), y \in 1 .. Len(w) :
          x < y /\ w[x] = p.called[m] /\ w[y] = p.called[n]
    BY <1>1 DEF Walks, InOrder
  <2>2. x \in 1 .. Len(v) /\ y \in x + 1 .. Len(v)
    BY <1>1, <2>1
  <2> QED
    BY <1>1, <2>1, <2>2
<1>4. Paid(p, v)
  <2>0. /\ p.i \in Nat /\ p.shifts \in Nat
        /\ IsFiniteSet(Missed(p, w)) /\ Cardinality(Missed(p, w)) \in Nat
    BY PassFields, MissedFinite DEF Missed
  <2>1. CASE p.i <= Len(w)
    <3>1. Behind(v, p.i) = Behind(w, p.i)
      BY <1>1, <2>0, <2>1 DEF Behind
    <3>2. Beyond(v, p.i) = 0 /\ Beyond(w, p.i) = 0
      BY <1>1, <2>0, <2>1 DEF Beyond
    <3> QED
      BY <3>1, <3>2 DEF Walks, Paid, Missed
  <2>2. CASE p.i > Len(w)
    <3>1. Behind(v, p.i) \subseteq Behind(w, p.i) \cup {c}
      BY <1>1, <2>0, <2>2 DEF Behind
    <3>2. Missed(p, v) \subseteq Missed(p, w) \cup {c}
      BY <3>1 DEF Missed
    <3>3. /\ Cardinality(Missed(p, v)) \in Nat
          /\ Cardinality(Missed(p, v)) <= Cardinality(Missed(p, w)) + 1
      BY <2>0, <3>2, OneMore
    <3>4. Beyond(w, p.i) = p.i - Len(w) /\ Beyond(v, p.i) = p.i - Len(w) - 1
      BY <1>1, <2>0, <2>2 DEF Beyond
    <3> QED
      BY <1>1, <2>0, <3>3, <3>4 DEF Walks, Paid
  <2> QED
    BY <1>1, <2>0, <2>1, <2>2
<1> QED
  BY <1>2, <1>3, <1>4 DEF Walks, v

(* The loop calls the next callback. *)
LEMMA WalkAdvance ==
  ASSUME NEW p \in Pass, watchers \in Seq(Callbacks), p.i < Len(watchers),
         Walks(p, watchers)
  PROVE  Walks(Advance(p, 1), watchers)
<1> DEFINE w == watchers
           e == watchers[p.i + 1]
           q == Advance(p, 1)
<1>0. /\ p.i \in Nat /\ p.shifts \in Nat /\ p.called \in Seq(Callbacks)
      /\ Len(p.called) \in Nat /\ Len(w) \in Nat /\ e \in Callbacks
      /\ p.i + 1 \in 1 .. Len(w)
  BY PassFields, LenProperties, ElementOfSeq
<1>1. /\ q.i = p.i + 1 /\ q.called = Append(p.called, e)
      /\ q.removed = p.removed /\ q.shifts = p.shifts
  BY DEF Advance
<1>e. w[p.i + 1] = e
  OBVIOUS
<1>w. Reached(p, w) /\ InOrder(p, w) /\ Paid(p, w) /\ w \in Seq(Callbacks)
  BY DEF Walks
<1> HIDE DEF q, e, w
<1>2. /\ Len(q.called) = Len(p.called) + 1
      /\ \A m \in 1 .. Len(p.called) : q.called[m] = p.called[m]
      /\ q.called[Len(p.called) + 1] = e
      /\ q.called \in Seq(Callbacks)
  BY <1>0, <1>1, AppendProperties
<1>3. Reached(q, w)
  <2> SUFFICES ASSUME NEW m \in 1 .. Len(q.called), q.called[m] \notin q.removed
               PROVE  \E x \in 1 .. Len(w) : x <= q.i /\ w[x] = q.called[m]
    BY DEF Reached
  <2>1. CASE m \in 1 .. Len(p.called)
    <3>1. PICK x \in 1 .. Len(w) : x <= p.i /\ w[x] = p.called[m]
      BY <1>1, <1>2, <1>w, <2>1 DEF Reached
    <3> QED
      BY <1>0, <1>1, <1>2, <2>1, <3>1
  <2>2. CASE m = Len(p.called) + 1
    BY <1>0, <1>1, <1>2, <1>e, <2>2
  <2> QED
    BY <1>0, <1>2, <2>1, <2>2
<1>4. InOrder(q, w)
  <2> SUFFICES ASSUME NEW m \in 1 .. Len(q.called), NEW n \in m + 1 .. Len(q.called),
                      {q.called[m], q.called[n]} \cap q.removed = {}
               PROVE  \E x \in 1 .. Len(w) : \E y \in x + 1 .. Len(w) :
                        w[x] = q.called[m] /\ w[y] = q.called[n]
    BY DEF InOrder
  <2>0. m \in 1 .. Len(p.called) /\ q.called[m] = p.called[m]
    BY <1>0, <1>2
  <2>1. CASE n \in m + 1 .. Len(p.called)
    <3>1. q.called[n] = p.called[n]
      BY <1>0, <1>2, <2>0, <2>1
    <3> QED
      BY <1>1, <1>w, <2>0, <2>1, <3>1 DEF InOrder
  <2>2. CASE n = Len(p.called) + 1
    <3>1. PICK x \in 1 .. Len(w) : x <= p.i /\ w[x] = p.called[m]
      BY <1>1, <1>w, <2>0 DEF Reached
    <3>2. p.i + 1 \in x + 1 .. Len(w) /\ w[p.i + 1] = q.called[n]
      BY <1>0, <1>2, <1>e, <2>2, <3>1
    <3> QED
      BY <2>0, <3>1, <3>2
  <2> QED
    BY <1>0, <1>2, <2>0, <2>1, <2>2
<1>5. Paid(q, w)
  <2>1. Behind(w, q.i) \subseteq Behind(w, p.i) \cup {e}
    BY <1>0, <1>1, <1>e DEF Behind
  <2>2. ToSet(q.called) = ToSet(p.called) \cup {e}
    <3>1. DOMAIN p.called = 1 .. Len(p.called) /\ DOMAIN q.called = 1 .. Len(p.called) + 1
      BY <1>0, <1>2, LenProperties
    <3>2. ToSet(p.called) \cup {e} \subseteq ToSet(q.called)
      <4>1. ASSUME NEW m \in 1 .. Len(p.called) + 1
            PROVE  q.called[m] \in ToSet(q.called)
        BY <3>1 DEF ToSet
      <4>2. Len(p.called) + 1 \in 1 .. Len(p.called) + 1
        BY <1>0
      <4>3. e \in ToSet(q.called)
        BY <1>2, <4>1, <4>2
      <4>4. ASSUME NEW m \in 1 .. Len(p.called)
            PROVE  p.called[m] \in ToSet(q.called)
        <5>1. m \in 1 .. Len(p.called) + 1
          BY <1>0
        <5> QED
          BY <1>2, <4>1, <5>1
      <4> QED
        BY <3>1, <4>3, <4>4 DEF ToSet
    <3>3. ASSUME NEW m \in 1 .. Len(p.called) + 1
          PROVE  q.called[m] \in ToSet(p.called) \cup {e}
      <4>1. CASE m \in 1 .. Len(p.called)
        BY <1>2, <3>1, <4>1 DEF ToSet
      <4>2. CASE m = Len(p.called) + 1
        BY <1>2, <4>2
      <4> QED
        BY <1>0, <4>1, <4>2
    <3>4. ToSet(q.called) \subseteq ToSet(p.called) \cup {e}
      BY <3>1, <3>3 DEF ToSet
    <3> QED
      BY <3>2, <3>4
  <2>3. Missed(q, w) \subseteq Missed(p, w)
    BY <2>1, <2>2 DEF Missed
  <2>4. IsFiniteSet(Missed(p, w)) /\ Cardinality(Missed(p, w)) \in Nat
    BY <1>0, <1>w, MissedFinite DEF Missed
  <2>5. Cardinality(Missed(q, w)) <= Cardinality(Missed(p, w))
        /\ Cardinality(Missed(q, w)) \in Nat
    BY <2>3, <2>4, FS_Subset, FS_CardinalityType
  <2>6. Beyond(w, q.i) = 0 /\ Beyond(w, p.i) = 0
    BY <1>0, <1>1 DEF Beyond
  <2> QED
    BY <1>0, <1>1, <1>w, <2>4, <2>5, <2>6 DEF Paid
<1> QED
  BY <1>3, <1>4, <1>5 DEF Walks, q, w

(* A callback is removed: the ones behind it move up by one place. *)
LEMMA MovedUp ==
  ASSUME NEW w \in Seq(Callbacks), NEW j \in 1 .. Len(w)
  PROVE  LET at == [z \in 1 .. Len(w) |-> IF z < j THEN z ELSE z - 1]
         IN  \A z \in 1 .. Len(w) : z # j =>
               /\ at[z] \in 1 .. Len(RemoveAt(w, j)) /\ at[z] <= z
               /\ RemoveAt(w, j)[at[z]] = w[z]
               /\ \A x \in 1 .. z - 1 : x # j => at[x] < at[z]
<1> DEFINE v == RemoveAt(w, j)
<1>1. /\ Len(v) = Len(w) - 1 /\ Len(w) \in Nat
      /\ \A k \in 1 .. Len(w) - 1 : v[k] = IF k < j THEN w[k] ELSE w[k + 1]
  BY RemoveAtProperties, RemoveAtElements, LenProperties
<1> HIDE DEF v
<1>2. ASSUME NEW z \in 1 .. Len(w), z # j
      PROVE  LET at == IF z < j THEN z ELSE z - 1
             IN  at \in 1 .. Len(v) /\ at <= z /\ v[at] = w[z]
  <2>1. CASE z < j
    BY <1>1, <2>1
  <2>2. CASE z > j
    BY <1>1, <2>2
  <2> QED
    BY <1>1, <1>2, <2>1, <2>2
<1>3. \A z \in 1 .. Len(w) : \A x \in 1 .. z - 1 : x \in 1 .. Len(w)
  BY <1>1
<1> QED
  BY <1>1, <1>2, <1>3 DEF v

LEMMA WalkRemove ==
  ASSUME NEW p \in Pass, watchers \in Seq(Callbacks), NEW j \in 1 .. Len(watchers),
         Walks(p, watchers)
  PROVE  Walks(NoteRemoval(p, j), RemoveAt(watchers, j))
<1> DEFINE w == watchers
           v == RemoveAt(watchers, j)
           q == NoteRemoval(p, j)
           at == [z \in 1 .. Len(w) |-> IF z < j THEN z ELSE z - 1]
<1>0. /\ p.i \in Nat /\ p.shifts \in Nat /\ p.called \in Seq(Callbacks)
      /\ Len(w) \in Nat /\ w \in Seq(Callbacks) /\ v \in Seq(Callbacks)
      /\ Len(v) = Len(w) - 1 /\ j \in 1 .. Len(w)
  BY PassFields, LenProperties, RemoveAtProperties
<1>1. /\ q.i = p.i /\ q.called = p.called /\ q.removed = p.removed \cup {w[j]}
      /\ q.shifts = IF j <= p.i THEN p.shifts + 1 ELSE p.shifts
  BY DEF NoteRemoval
<1>2. \A k \in 1 .. Len(w) - 1 : v[k] = IF k < j THEN w[k] ELSE w[k + 1]
  BY RemoveAtElements
<1>3. \A z \in 1 .. Len(w) : z # j =>
        /\ at[z] \in 1 .. Len(v) /\ at[z] <= z /\ at[z] \in Nat
        /\ v[at[z]] = w[z]
        /\ \A x \in 1 .. z - 1 : x # j => at[x] < at[z]
  BY MovedUp
<1>w. Reached(p, w) /\ InOrder(p, w) /\ Paid(p, w)
  BY DEF Walks
<1> HIDE DEF w, v, q, at
<1>4. Reached(q, v)
  <2> SUFFICES ASSUME NEW m \in 1 .. Len(p.called), p.called[m] \notin q.removed
               PROVE  \E x \in 1 .. Len(v) : x <= p.i /\ v[x] = p.called[m]
    BY <1>1 DEF Reached
  <2>1. PICK x \in 1 .. Len(w) : x <= p.i /\ w[x] = p.called[m]
    BY <1>1, <1>w DEF Reached
  <2>2. x # j
    BY <1>1, <2>1
  <2>3. at[x] \in 1 .. Len(v) /\ at[x] <= x /\ v[at[x]] = w[x]
    BY <1>3, <2>2
  <2> QED
    BY <1>0, <2>1, <2>3
<1>5. InOrder(q, v)
  <2> SUFFICES ASSUME NEW m \in 1 .. Len(p.called), NEW n \in m + 1 .. Len(p.called),
                      {p.called[m], p.called[n]} \cap q.removed = {}
               PROVE  \E x \in 1 .. Len(v) : \E y \in x + 1 .. Len(v) :
                        v[x] = p.called[m] /\ v[y] = p.called[n]
    BY <1>1 DEF InOrder
  <2>0. {p.called[m], p.called[n]} \cap p.removed = {}
    BY <1>1
  <2>1. PICK x \in 1 .. Len(w), y \in 1 .. Len(w) :
          x < y /\ w[x] = p.called[m] /\ w[y] = p.called[n]
    BY <1>0, <1>w, <2>0 DEF InOrder
  <2>2. x # j /\ y # j
    BY <1>1, <2>1
  <2>3. x \in 1 .. y - 1
    BY <1>0, <2>1
  <2>4. /\ at[x] \in 1 .. Len(v) /\ at[y] \in 1 .. Len(v) /\ at[x] < at[y]
        /\ v[at[x]] = w[x] /\ v[at[y]] = w[y]
    BY <1>3, <2>2, <2>3
  <2>5. at[y] \in at[x] + 1 .. Len(v)
    BY <1>0, <2>4
  <2> QED
    BY <2>1, <2>4, <2>5
<1>6. Paid(q, v)
  <2>0. /\ IsFiniteSet(Missed(p, w)) /\ Cardinality(Missed(p, w)) \in Nat
        /\ IsFiniteSet(Missed(q, v)) /\ Cardinality(Missed(q, v)) \in Nat
    BY <1>0, <1>1, MissedFinite DEF Missed
  <2>1. CASE j > p.i
    <3>1. Behind(v, p.i) \subseteq Behind(w, p.i)
      <4>1. ASSUME NEW x \in 1 .. Len(v), x <= p.i PROVE v[x] \in Behind(w, p.i)
        <5>1. x \in 1 .. Len(w) - 1 /\ x < j /\ x \in 1 .. Len(w)
          BY <1>0, <2>1, <4>1
        <5>2. v[x] = w[x]
          BY <1>2, <5>1
        <5> QED
          BY <4>1, <5>1, <5>2 DEF Behind
      <4> QED
        BY <4>1 DEF Behind
    <3>2. Beyond(v, p.i) = 0 /\ Beyond(w, p.i) = 0
      BY <1>0, <2>1 DEF Beyond
    <3>3. Missed(q, v) \subseteq Missed(p, w)
      BY <1>1, <3>1 DEF Missed
    <3>4. Cardinality(Missed(q, v)) <= Cardinality(Missed(p, w))
      BY <2>0, <3>3, FS_Subset
    <3>5. q.shifts = p.shifts
      BY <1>0, <1>1, <2>1
    <3> QED
      BY <1>0, <1>1, <1>w, <2>0, <3>2, <3>4, <3>5 DEF Paid
  <2>2. CASE j <= p.i /\ p.i < Len(w)
    <3>1. Behind(v, p.i) \subseteq Behind(w, p.i) \cup {w[p.i + 1]}
      <4>1. ASSUME NEW x \in 1 .. Len(v), x <= p.i
            PROVE  v[x] \in Behind(w, p.i) \cup {w[p.i + 1]}
        <5>1. CASE x < j
          BY <1>0, <1>2, <4>1, <5>1 DEF Behind
        <5>2. CASE ~(x < j)
          <6>1. v[x] = w[x + 1] /\ x + 1 \in 1 .. Len(w)
            BY <1>0, <1>2, <5>2
          <6>2. x + 1 <= p.i \/ x = p.i
            BY <1>0, <4>1
          <6> QED
            BY <6>1, <6>2 DEF Behind
        <5> QED
          BY <5>1, <5>2
      <4> QED
        BY <4>1 DEF Behind
    <3>2. Beyond(v, p.i) = 0 /\ Beyond(w, p.i) = 0
      BY <1>0, <2>2 DEF Beyond
    <3>3. Missed(q, v) \subseteq Missed(p, w) \cup {w[p.i + 1]}
      BY <1>1, <3>1 DEF Missed
    <3>4. Cardinality(Missed(q, v)) <= Cardinality(Missed(p, w)) + 1
      BY <2>0, <3>3, OneMore
    <3>5. q.shifts = p.shifts + 1
      BY <1>1, <2>2
    <3> QED
      BY <1>0, <1>1, <1>w, <2>0, <3>2, <3>4, <3>5 DEF Paid
  <2>3. CASE p.i >= Len(w)
    <3>1. Behind(v, p.i) \subseteq Behind(w, p.i)
      <4>1. ASSUME NEW x \in 1 .. Len(v) PROVE v[x] \in Behind(w, p.i)
        <5>1. PICK y \in {x, x + 1} : v[x] = w[y]
          BY <1>0, <1>2
        <5>2. y \in 1 .. Len(w) /\ y <= p.i
          BY <1>0, <2>3
        <5> QED
          BY <5>1, <5>2 DEF Behind
      <4> QED
        BY <4>1 DEF Behind
    <3>2. Beyond(v, p.i) = p.i - Len(w) + 1 /\ Beyond(w, p.i) = p.i - Len(w)
      BY <1>0, <2>3 DEF Beyond
    <3>3. Missed(q, v) \subseteq Missed(p, w)
      BY <1>1, <3>1 DEF Missed
    <3>4. Cardinality(Missed(q, v)) <= Cardinality(Missed(p, w))
      BY <2>0, <3>3, FS_Subset
    <3>5. q.shifts = p.shifts + 1
      BY <1>0, <1>1, <2>3
    <3> QED
      BY <1>0, <1>1, <1>w, <2>0, <3>2, <3>4, <3>5 DEF Paid
  <2> QED
    BY <1>0, <2>1, <2>2, <2>3
<1> QED
  BY <1>4, <1>5, <1>6 DEF Walks, q, v

-------------------------------------------------------------------------------
LEMMA InitAllWalk == Init => AllWalk
BY EmptySeq DEF Init, AllWalk, Depth

LEMMA PassOf ==
  ASSUME TypeOK, NEW t \in Threads, NEW k \in 1 .. Depth(t)
  PROVE  passes[t][k] \in Pass /\ watchers \in Seq(Callbacks)
BY ElementOfSeq DEF TypeOK, Depth

LEMMA PushBackWalks ==
  ASSUME IInv, AllWalk, NEW s \in Threads, PushBack(s)
  PROVE  AllWalk'
<1>1. cb[s] \in Callbacks /\ watchers' = Append(watchers, cb[s]) /\ passes' = passes
  BY DEF PushBack, IInv, Installing
<1>2. ASSUME NEW t \in Threads, NEW k \in 1 .. Depth(t)
      PROVE  Walks(passes[t][k], Append(watchers, cb[s]))
  BY <1>1, PassOf, WalkAppend DEF AllWalk, IInv
<1> QED
  BY <1>1, <1>2 DEF AllWalk, Depth

LEMMA RemoveWalks ==
  ASSUME IInv, AllWalk, NEW s \in Threads, NEW c \in Callbacks, RemoveDest(s, Dest[c])
  PROVE  AllWalk'
<1>1. PICK i \in 1 .. Len(watchers) :
        /\ watchers' = RemoveAt(watchers, i)
        /\ Depth(s)' = Depth(s)
        /\ \A k \in 1 .. Depth(s) : passes'[s][k] = NoteRemoval(passes[s][k], i)
  BY RemovePasses
<1> SUFFICES ASSUME NEW t \in Threads, NEW k \in 1 .. Depth(t)'
             PROVE  Walks(passes'[t][k], watchers')
  BY DEF AllWalk
<1>2. t = s
  BY RemoveOthers, EmptySeq DEF InPass, Depth
<1>3. Walks(NoteRemoval(passes[s][k], i), RemoveAt(watchers, i))
  BY <1>1, <1>2, PassOf, WalkRemove DEF AllWalk, IInv
<1> QED
  BY <1>1, <1>2, <1>3

LEMMA EnterWalks ==
  ASSUME IInv, AllWalk, NEW s \in Threads, EnterPass(s)
  PROVE  AllWalk'
<1>1. watchers' = watchers /\ watchers \in Seq(Callbacks)
  BY DEF EnterPass, listVars, IInv, TypeOK
<1> SUFFICES ASSUME NEW t \in Threads, NEW k \in 1 .. Depth(t)'
             PROVE  Walks(passes'[t][k], watchers)
  BY <1>1 DEF AllWalk
<1>2. CASE k \in 1 .. Depth(t) /\ passes'[t][k] = passes[t][k]
  BY <1>2 DEF AllWalk
<1>3. CASE passes'[t][k] = NewPass
  BY <1>1, <1>3, NewWalk
<1>4. CASE t # s
  <2>1. passes'[t] = passes[t]
    BY <1>4, EnterPasses
  <2> QED
    BY <1>2, <2>1 DEF Depth
<1>5. CASE t = s
  <2>1. k \in 1 .. Depth(s) + 1 /\ Depth(s) \in Nat
    BY <1>5, EnterPasses
  <2>2. k \in 1 .. Depth(s) \/ k = Depth(s) + 1
    BY <2>1
  <2> QED
    BY <1>2, <1>3, <1>5, <2>2, EnterPasses
<1> QED
  BY <1>4, <1>5

LEMMA CallWalks ==
  ASSUME IInv, AllWalk, NEW s \in Threads, CallNext(s)
  PROVE  AllWalk'
<1> DEFINE d == Depth(s)
<1>1. watchers' = watchers /\ watchers \in Seq(Callbacks)
  BY DEF CallNext, listVars, IInv, TypeOK
<1>2. /\ d \in 1 .. d
      /\ passes'[s][d] = Advance(passes[s][d], 1)
      /\ Len(passes'[s]) = d
      /\ \A k \in 1 .. d : k # d => passes'[s][k] = passes[s][k]
      /\ \A u \in Threads : u # s => passes'[u] = passes[u]
  BY CallPasses DEF Current
<1>3. passes[s][d].i < Len(watchers)
  BY DEF CallNext, Current
<1>4. passes[s][d] \in Pass /\ Walks(passes[s][d], watchers)
  BY <1>2, PassOf DEF IInv, AllWalk
<1>5. Walks(Advance(passes[s][d], 1), watchers)
  BY <1>1, <1>3, <1>4, WalkAdvance
<1> SUFFICES ASSUME NEW t \in Threads, NEW k \in 1 .. Depth(t)'
             PROVE  Walks(passes'[t][k], watchers)
  BY <1>1 DEF AllWalk
<1>6. CASE t = s /\ k = d
  BY <1>2, <1>5, <1>6
<1>7. CASE ~(t = s /\ k = d)
  <2>1. k \in 1 .. Depth(t) /\ passes'[t][k] = passes[t][k]
    BY <1>2, <1>7 DEF Depth
  <2> QED
    BY <2>1 DEF AllWalk
<1> QED
  BY <1>6, <1>7

LEMMA LeaveWalks ==
  ASSUME IInv, AllWalk, NEW s \in Threads, InPass(s), LeavePass(s)
  PROVE  AllWalk'
<1>1. watchers' = watchers
  BY DEF LeavePass, listVars
<1> SUFFICES ASSUME NEW t \in Threads, NEW k \in 1 .. Depth(t)'
             PROVE  Walks(passes'[t][k], watchers)
  BY <1>1 DEF AllWalk
<1>2. k \in 1 .. Depth(t) /\ passes'[t][k] = passes[t][k]
  <2>1. CASE t = s
    <3>1. k \in 1 .. Depth(s) - 1 /\ Depth(s) \in Nat
      BY <2>1, LeavePasses DEF Depth
    <3>2. k \in 1 .. Depth(s)
      BY <3>1
    <3> QED
      BY <2>1, <3>1, <3>2, LeavePasses
  <2>2. CASE t # s
    BY <2>2, LeavePasses DEF Depth
  <2> QED
    BY <2>1, <2>2
<1> QED
  BY <1>2 DEF AllWalk

(* The steps that change neither the list nor the notifications. *)
LEMMA OtherWalks ==
  ASSUME AllWalk, UNCHANGED <<watchers, passes>>
  PROVE  AllWalk'
BY DEF AllWalk, Depth

LEMMA InductiveAllWalk == IInv /\ AllWalk /\ [Next]_vars => AllWalk'
<1> SUFFICES ASSUME IInv, AllWalk, [Next]_vars PROVE AllWalk'
  OBVIOUS
<1>1. CASE UNCHANGED vars
  BY <1>1, OtherWalks DEF vars, listVars
<1>2. ASSUME NEW s \in Threads, NEW c \in Callbacks,
             Install(s, c) \/ RemoveDest(s, Dest[c])
      PROVE  AllWalk'
  BY <1>2, OtherWalks, RemoveWalks DEF Install
<1>3. ASSUME NEW s \in Threads, EndPass(s) \/ Break(s)
      PROVE  AllWalk'
  <2>1. InPass(s) /\ LeavePass(s)
    BY <1>3 DEF EndPass, Break, PassDone, IInv, GateInv
  <2> QED
    BY <2>1, LeaveWalks
<1>4. ASSUME NEW s \in Threads, PushBack(s) \/ EnterPass(s) \/ CallNext(s)
      PROVE  AllWalk'
  BY <1>4, PushBackWalks, EnterWalks, CallWalks
<1>5. ASSUME NEW s \in Threads,
             \/ Grow(s) \/ Invoke(s) \/ SetNeed(s) \/ Return(s)
             \/ Block(s) \/ BlockStore(s)
             \/ Unblock(s) \/ UnblockLoad(s) \/ UnblockStore(s) \/ UnblockTest(s)
      PROVE  AllWalk'
  <2>1. UNCHANGED <<watchers, passes>>
    BY <1>5 DEF Grow, Invoke, SetNeed, Return, Block, BlockStore, Unblock,
       UnblockLoad, UnblockStore, UnblockTest, listVars
  <2> QED
    BY <2>1, OtherWalks
<1> QED
  BY <1>1, <1>2, <1>3, <1>4, <1>5 DEF Next

LEMMA EveryoneWalks == Spec => [](IInv /\ AllWalk)
<1>1. Init => IInv /\ AllWalk
  BY InitIInv, InitAllWalk
<1>2. IInv /\ AllWalk /\ [Next]_vars => (IInv /\ AllWalk)'
  BY InductiveIInv, InductiveAllWalk
<1> QED
  BY <1>1, <1>2, PTL DEF Spec

(***************************************************************************)
(* Whatever the callbacks and the other threads install and remove, however  *)
(* deep notifications nest: invoke() calls in the order of installation, and *)
(* nothing twice that was not removed meanwhile.                             *)
(***************************************************************************)
THEOREM MsgOnceInOrder == Spec => []OnceInOrder
<1>1. AllWalk => OnceInOrder
  BY DEF AllWalk, Walks, InOrder, OnceInOrder
<1> QED
  BY <1>1, EveryoneWalks, PTL

(***************************************************************************)
(* invoke() that runs to its end has called all of the list but at most one   *)
(* callback for each that was removed from inside it at or before its place.  *)
(***************************************************************************)
THEOREM MsgSkipsOnlyByRemoval == Spec => []SkipsOnlyByRemoval
<1>1. IInv /\ AllWalk => SkipsOnlyByRemoval
  <2> SUFFICES ASSUME IInv, AllWalk, NEW t \in Threads, PassDone(t)
               PROVE  Cardinality(ToSet(watchers) \ ToSet(Current(t).called))
                        <= Current(t).shifts
    BY DEF SkipsOnlyByRemoval
  <2> DEFINE p == Current(t)
  <2>1. Depth(t) \in 1 .. Depth(t)
    <3>1. passes[t] \in Seq(Pass) /\ passes[t] # <<>>
      BY DEF PassDone, IInv, GateInv, TypeOK, InPass
    <3> QED
      BY <3>1, LenProperties, EmptySeq DEF Depth
  <2>2. p \in Pass /\ Walks(p, watchers) /\ watchers \in Seq(Callbacks)
    BY <2>1, PassOf DEF IInv, AllWalk, Current
  <2>3. p.i >= Len(watchers)
    BY DEF PassDone
  <2> HIDE DEF p
  <2>4. p.i \in Nat /\ p.shifts \in Nat /\ Len(watchers) \in Nat
    BY <2>2, PassFields, LenProperties
  <2>5. ToSet(watchers) \subseteq Behind(watchers, p.i)
    BY <2>2, <2>3, <2>4, LenProperties DEF ToSet, Behind
  <2>6. Missed(p, watchers) = ToSet(watchers) \ ToSet(p.called)
    BY <2>2, <2>4, <2>5, MissedFinite DEF Missed
  <2>7. Cardinality(Missed(p, watchers)) \in Nat
    BY <2>2, <2>4, MissedFinite DEF Missed
  <2>8. Beyond(watchers, p.i) \in Nat
    BY <2>3, <2>4 DEF Beyond
  <2> QED
    BY <2>2, <2>4, <2>6, <2>7, <2>8 DEF Walks, Paid, p
<1> QED
  BY <1>1, EveryoneWalks, PTL

-------------------------------------------------------------------------------
(***************************************************************************)
(* Mutual exclusion of the gates, for any number of threads and any depth.   *)
(* The argument: until its mutex is initialised a second time, the mutex     *)
(* says exactly who is inside and how deep (Agreement); a mutex that names   *)
(* an owner names a thread that is inside, even after a re-initialisation    *)
(* (OwnerInside); and a thread gets to the mutex only through create()       *)
(* (Ordered).                                                               *)
(***************************************************************************)
Agreement ==
  inits <= 1 => \A t \in Threads :
                   Inside(t) => section = [owner |-> t, count |-> depth[t]]

OwnerInside ==
  /\ section.owner = NoThread => section.count = 0
  /\ \A t \in Threads : section.owner = t => section.count \in 1 .. depth[t]

Ordered ==
  /\ isCreated => inits >= 1
  /\ \A t \in Threads :
       /\ gatePc[t] \in {"flagE", "lock", "unlock"} => inits >= 1
       /\ gatePc[t] \in {"lock", "unlock"} => isCreated
       /\ gatePc[t] \in {"initE", "flagE", "lock"} => depth[t] < MaxDepth
       /\ gatePc[t] = "unlock" => Inside(t)
       /\ gatePc[t] \notin {"initX", "flagX"}
       /\ Inside(t) => isCreated /\ ~Creating(t)

GateIInv == GateTypeOK /\ Agreement /\ OwnerInside /\ Ordered

-------------------------------------------------------------------------------
LEMMA GateInitIInv == GateInit => GateIInv
<1> SUFFICES ASSUME GateInit PROVE GateIInv
  OBVIOUS
<1>1. GateTypeOK
  <2>1. section \in MutexOf(Threads)
    BY DEF GateInit, MutexOf, Fresh
  <2>2. depth \in [Threads -> 0 .. MaxDepth]
    BY GateAssumption, MutexAssumption DEF GateInit
  <2> QED
    BY <2>1, <2>2 DEF GateInit, GateTypeOK, GateControl
<1>2. Agreement /\ OwnerInside
  BY GateAssumption, MutexAssumption DEF GateInit, Agreement, OwnerInside, Inside, Fresh
<1>3. Ordered
  BY GateAssumption, MutexAssumption DEF GateInit, Ordered, Inside
<1> QED
  BY <1>1, <1>2, <1>3 DEF GateIInv

(***************************************************************************)
(* One level per action; each of the four parts of GateIInv is a step of it.     *)
(***************************************************************************)
LEMMA EnterStep ==
  ASSUME GateIInv, NEW t \in Threads, Enter(t)
  PROVE  GateIInv'
<1> USE GateAssumption, MutexAssumption DEF GateIInv, Enter
<1>1. GateTypeOK'
  BY DEF GateTypeOK, GateControl
<1>2. Agreement' /\ OwnerInside'
  BY DEF Agreement, OwnerInside, Inside
<1>3. Ordered'
  BY DEF Ordered, Inside, Creating, GateTypeOK
<1> QED
  BY <1>1, <1>2, <1>3

LEMMA InitSectionStep ==
  ASSUME GateIInv, NEW t \in Threads, InitSection(t)
  PROVE  GateIInv'
<1> USE GateAssumption, MutexAssumption DEF GateIInv, InitSection
<1>1. GateTypeOK'
  BY DEF GateTypeOK, MutexOf, Fresh, GateControl
<1>2. ASSUME inits' <= 1, NEW u \in Threads PROVE ~Inside(u)'
  BY <1>2 DEF Ordered, GateTypeOK, Inside
<1>3. Agreement'
  BY <1>2 DEF Agreement
<1>4. OwnerInside'
  BY DEF OwnerInside, Fresh
<1>5. Ordered'
  BY DEF Ordered, Inside, Creating, GateTypeOK
<1> QED
  BY <1>1, <1>3, <1>4, <1>5

LEMMA SetCreatedStep ==
  ASSUME GateIInv, NEW t \in Threads, SetCreated(t)
  PROVE  GateIInv'
<1> USE GateAssumption, MutexAssumption DEF GateIInv, SetCreated
<1>1. GateTypeOK'
  BY DEF GateTypeOK, GateControl
<1>2. Agreement' /\ OwnerInside'
  BY DEF Agreement, OwnerInside, Inside
<1>3. Ordered'
  BY DEF Ordered, Inside, Creating, GateTypeOK
<1> QED
  BY <1>1, <1>2, <1>3

LEMMA LockStep ==
  ASSUME GateIInv, NEW t \in Threads, Lock(t)
  PROVE  GateIInv'
<1> USE GateAssumption, MutexAssumption DEF GateIInv, Lock
<1>1. GateTypeOK'
  BY DEF GateTypeOK, MutexOf, Locked, GateControl, Ordered
<1>2. OwnerInside'
  BY DEF OwnerInside, GateTypeOK, MutexOf, Locked, CanLock
<1>3. Agreement'
  <2> SUFFICES ASSUME inits <= 1, NEW u \in Threads, Inside(u)'
               PROVE  section' = [owner |-> u, count |-> depth'[u]]
    BY DEF Agreement
  <2>1. CASE u = t
    <3>1. CASE Inside(t)
      BY <2>1, <3>1 DEF Agreement, Inside, Locked, GateTypeOK
    <3>2. CASE ~Inside(t)
      BY <2>1, <3>2 DEF OwnerInside, Inside, Locked, CanLock, GateTypeOK
    <3> QED
      BY <3>1, <3>2
  <2>2. CASE u # t
    <3>1. section.owner = u
      BY <2>2 DEF Agreement, Inside, GateTypeOK
    <3> QED
      BY <2>2, <3>1 DEF CanLock
  <2> QED
    BY <2>1, <2>2
<1>4. Ordered'
  BY DEF Ordered, Inside, Creating, GateTypeOK
<1> QED
  BY <1>1, <1>2, <1>3, <1>4

LEMMA ExitStep ==
  ASSUME GateIInv, NEW t \in Threads, Exit(t) \/ FastExit(t)
  PROVE  GateIInv'
<1> USE GateAssumption, MutexAssumption DEF GateIInv, Exit, FastExit
<1>1. GateTypeOK'
  BY DEF GateTypeOK, GateControl
<1>2. Agreement' /\ OwnerInside'
  BY DEF Agreement, OwnerInside, Inside
<1>3. Ordered'
  BY DEF Ordered, Inside, Creating, GateTypeOK
<1> QED
  BY <1>1, <1>2, <1>3

LEMMA UnlockStep ==
  ASSUME GateIInv, NEW t \in Threads, Unlock(t)
  PROVE  GateIInv'
<1> USE GateAssumption, MutexAssumption DEF GateIInv, Unlock
<1>0. depth[t] \in Nat \ {0}
  BY DEF Ordered, Inside, GateTypeOK
<1>1. GateTypeOK'
  BY <1>0 DEF GateTypeOK, MutexOf, Unlocked, Fresh, GateControl
<1>2. OwnerInside'
  BY <1>0 DEF OwnerInside, GateTypeOK, MutexOf, Unlocked, Fresh
<1>3. Agreement'
  BY <1>0 DEF Agreement, GateTypeOK, MutexOf, Inside, Unlocked, Fresh
<1>4. Ordered'
  BY <1>0 DEF Ordered, Inside, Creating, GateTypeOK
<1> QED
  BY <1>1, <1>2, <1>3, <1>4

LEMMA GateInductive == GateIInv /\ [GateNext]_gateVars => GateIInv'
<1> SUFFICES ASSUME GateIInv, [GateNext]_gateVars PROVE GateIInv'
  OBVIOUS
<1>1. CASE UNCHANGED gateVars
  BY <1>1 DEF GateIInv, GateTypeOK, Agreement, OwnerInside, Ordered, Inside, Creating, gateVars
<1>2. ASSUME NEW t \in Threads,
             \/ Enter(t) \/ InitSection(t) \/ SetCreated(t) \/ Lock(t)
             \/ Exit(t) \/ FastExit(t) \/ Unlock(t)
      PROVE  GateIInv'
  BY <1>2, EnterStep, InitSectionStep, SetCreatedStep, LockStep, ExitStep,
     UnlockStep
<1> QED
  BY <1>1, <1>2 DEF GateNext

(* The inductive invariant of a gate. *)
THEOREM GateInvariance == GateSpec => []GateIInv
  BY GateInitIInv, GateInductive, PTL DEF GateSpec

-------------------------------------------------------------------------------
(* Every variable of a gate keeps its type. *)
THEOREM GateTypeCorrect == GateSpec => []GateTypeOK
<1>1. GateIInv => GateTypeOK
  BY DEF GateIInv
<1> QED
  BY <1>1, GateInvariance, PTL

(* enter() and exit() exclude until the mutex is initialised a second time. *)
THEOREM GateExclusion == GateSpec => []ExclusionUnlessReinitialised
<1>1. GateIInv => ExclusionUnlessReinitialised
  BY DEF GateIInv, Agreement, ExclusionUnlessReinitialised
<1> QED
  BY <1>1, GateInvariance, PTL

(* exit() never has to create: whoever is inside went through enter(). *)
THEOREM GateInsideIsCreated == GateSpec => []InsideIsCreated
<1>1. GateIInv => InsideIsCreated
  BY DEF GateIInv, Ordered, InsideIsCreated
<1> QED
  BY <1>1, GateInvariance, PTL

(***************************************************************************)
(* A gate that is created, with nobody inside create(), excludes for ever.   *)
(***************************************************************************)
THEOREM GateSettledForEver == GateSpec => SettledForEver
<1>1. GateIInv /\ [GateNext]_gateVars => [Settled => Settled']_gateVars
  <2> SUFFICES ASSUME GateIInv, GateNext, Settled PROVE Settled'
    OBVIOUS
  <2> USE GateAssumption, MutexAssumption DEF GateIInv, Settled
  <2> PICK t \in Threads :
        \/ Enter(t) \/ InitSection(t) \/ SetCreated(t) \/ Lock(t)
        \/ Exit(t) \/ FastExit(t) \/ Unlock(t)
    BY DEF GateNext
  <2>1. CASE Enter(t) \/ Exit(t) \/ FastExit(t)
    BY <2>1 DEF Enter, Exit, FastExit, Creating, Inside, GateTypeOK
  <2>2. CASE InitSection(t) \/ SetCreated(t)
    BY <2>2 DEF InitSection, SetCreated, Creating
  <2>3. CASE Lock(t)
    <3>1. ASSUME NEW u \in Threads, Inside(u), u # t PROVE FALSE
      BY <2>3, <3>1 DEF Lock, CanLock
    <3>2. section' = [owner |-> t, count |-> depth'[t]]
      <4>1. CASE Inside(t)
        BY <2>3, <4>1 DEF Lock, Locked, Inside, GateTypeOK
      <4>2. CASE ~Inside(t)
        BY <2>3, <4>2 DEF Lock, Locked, CanLock, Inside, OwnerInside, GateTypeOK
      <4> QED
        BY <4>1, <4>2
    <3> QED
      BY <2>3, <3>1, <3>2 DEF Lock, Creating, Inside, GateTypeOK
  <2>4. CASE Unlock(t)
    <3>1. Inside(t) /\ section = [owner |-> t, count |-> depth[t]]
      BY <2>4 DEF Unlock, Ordered
    <3>2. ASSUME NEW u \in Threads, Inside(u), u # t PROVE FALSE
      BY <3>1, <3>2
    <3> QED
      BY <2>4, <3>1, <3>2
         DEF Unlock, Unlocked, Fresh, Creating, Inside, GateTypeOK
  <2> QED
    BY <2>1, <2>2, <2>3, <2>4
<1> QED
  BY <1>1, GateInvariance, PTL DEF GateSpec, SettledForEver

-------------------------------------------------------------------------------
(***************************************************************************)
(* Lists that trigger each other.  A gate is locked as often as its list       *)
(* occurs among the notifications its owner is inside of (GateFor), and a      *)
(* thread that comes to a gate has left a record of what it holds (UsesNoted). *)
(***************************************************************************)
Depths(c, l) == {k \in 1 .. Len(c) : c[k].list = l}

GateFor(t, l) ==
  IF gates[l].owner = t
    THEN gates[l].count = Cardinality(Depths(calls[t], l)) /\ gates[l].count > 0
    ELSE Depths(calls[t], l) = {}

UsesNoted(t) ==
  doing[t].at \in Wishes =>
    doing[t].list \in Lists /\ Held(t) \X {doing[t].list} \subseteq uses

InvokedFirst(t) ==
  /\ doing[t].at \in {"loop", "fail", "relay"} => calls[t] # <<>>
  /\ calls[t] # <<>> => ~calls[t][1].relayed

ListsInv ==
  /\ ListsTypeOK
  /\ \A l \in Lists : gates[l].owner = NoThread => gates[l].count = 0
  /\ \A t \in Threads, l \in Lists : GateFor(t, l)
  /\ \A t \in Threads : UsesNoted(t) /\ InvokedFirst(t)

LEMMA DepthsFinite ==
  ASSUME NEW c \in Seq(Call), NEW l
  PROVE  IsFiniteSet(Depths(c, l)) /\ Cardinality(Depths(c, l)) \in Nat
<1>1. Len(c) \in Nat
  OBVIOUS
<1>2. IsFiniteSet(1 .. Len(c))
  BY <1>1, FS_Interval
<1> QED
  BY <1>2, FS_Subset, FS_CardinalityType DEF Depths

LEMMA DepthsMore ==
  ASSUME NEW c \in Seq(Call), NEW e \in Call
  PROVE  /\ Append(c, e) \in Seq(Call) /\ Append(c, e) # <<>>
         /\ \A l : l # e.list => Depths(Append(c, e), l) = Depths(c, l)
         /\ Cardinality(Depths(Append(c, e), e.list)) = Cardinality(Depths(c, e.list)) + 1
         /\ Append(c, e)[1] = IF c = <<>> THEN e ELSE c[1]
<1>1. /\ Len(c) \in Nat /\ Append(c, e) \in Seq(Call) /\ Len(Append(c, e)) = Len(c) + 1
      /\ \A k \in 1 .. Len(c) : Append(c, e)[k] = c[k]
      /\ Append(c, e)[Len(c) + 1] = e
  OBVIOUS
<1>2. \A l : l # e.list => Depths(Append(c, e), l) = Depths(c, l)
  BY <1>1 DEF Depths
<1>3. /\ Depths(Append(c, e), e.list) = Depths(c, e.list) \cup {Len(c) + 1}
      /\ Len(c) + 1 \notin Depths(c, e.list)
  BY <1>1 DEF Depths
<1>4. Cardinality(Depths(Append(c, e), e.list)) = Cardinality(Depths(c, e.list)) + 1
  BY <1>3, DepthsFinite, FS_AddElement
<1>5. c # <<>> => 1 \in 1 .. Len(c)
  BY <1>1
<1>6. c = <<>> => Append(c, e)[1] = e
  <2>1. c = <<>> => Len(c) = 0
    OBVIOUS
  <2> QED
    BY <1>1, <2>1
<1>7. Append(c, e) # <<>>
  <2>1. Append(c, e) = <<>> => Len(Append(c, e)) = 0
    OBVIOUS
  <2> QED
    BY <1>1, <2>1
<1> QED
  BY <1>1, <1>2, <1>4, <1>5, <1>6, <1>7

LEMMA DepthsLess ==
  ASSUME NEW c \in Seq(Call), c # <<>>
  PROVE  /\ Front(c) \in Seq(Call) /\ Last(c) \in Call
         /\ \A l : l # Last(c).list => Depths(Front(c), l) = Depths(c, l)
         /\ Depths(c, Last(c).list) # {}
         /\ Cardinality(Depths(Front(c), Last(c).list)) = Cardinality(Depths(c, Last(c).list)) - 1
         /\ Front(c) # <<>> => Front(c)[1] = c[1]
         /\ Front(c) = <<>> => Last(c) = c[1]
<1>1. /\ Len(c) \in Nat /\ Len(c) >= 1 /\ \A k \in 1 .. Len(c) : c[k] \in Call
  OBVIOUS
<1>2. Front(c) \in Seq(Call) /\ Len(Front(c)) = Len(c) - 1
  <2>1. 1 \in Nat /\ Len(c) - 1 \in Nat /\ 1 <= 1 /\ 1 <= Len(c) - 1 + 1 /\ Len(c) - 1 <= Len(c)
    BY <1>1
  <2>2. SubSeq(c, 1, Len(c) - 1) \in Seq(Call) /\ Len(SubSeq(c, 1, Len(c) - 1)) = Len(c) - 1 - 1 + 1
    BY ONLY c \in Seq(Call), <2>1, Subsequence
  <2> QED
    BY <1>1, <2>2 DEF Front
<1>3. \A k \in 1 .. Len(c) - 1 : Front(c)[k] = c[k]
  BY <1>1 DEF Front
<1>4. Last(c) = c[Len(c)] /\ Last(c) \in Call
  BY <1>1 DEF Last
<1>5. \A l : l # Last(c).list => Depths(Front(c), l) = Depths(c, l)
  <2> SUFFICES ASSUME NEW l, l # Last(c).list
               PROVE  Depths(Front(c), l) = Depths(c, l)
    OBVIOUS
  <2>1. ASSUME NEW k PROVE k \in Depths(Front(c), l) <=> k \in Depths(c, l)
    <3>1. k \in 1 .. Len(c) <=> k \in 1 .. Len(c) - 1 \/ k = Len(c)
      BY <1>1
    <3> QED
      BY <1>2, <1>3, <1>4, <3>1 DEF Depths
  <2> QED
    BY <2>1
<1>6. /\ Depths(Front(c), Last(c).list) = Depths(c, Last(c).list) \ {Len(c)}
      /\ Len(c) \in Depths(c, Last(c).list)
  <2>1. Len(c) \in Depths(c, Last(c).list)
    BY <1>1, <1>4 DEF Depths
  <2>2. ASSUME NEW k
        PROVE  k \in Depths(Front(c), Last(c).list) <=> k \in Depths(c, Last(c).list) /\ k # Len(c)
    <3>1. k \in 1 .. Len(c) - 1 <=> k \in 1 .. Len(c) /\ k # Len(c)
      BY <1>1
    <3> QED
      BY <1>2, <1>3, <3>1 DEF Depths
  <2> QED
    BY <2>1, <2>2
<1>7. Cardinality(Depths(Front(c), Last(c).list)) = Cardinality(Depths(c, Last(c).list)) - 1
  BY <1>6, DepthsFinite, FS_RemoveElement
<1>8. Front(c) # <<>> => Front(c)[1] = c[1]
  <2>1. Front(c) # <<>> => Len(Front(c)) # 0
    BY <1>2
  <2> QED
    BY <1>1, <1>2, <1>3, <2>1
<1>9. Front(c) = <<>> => Last(c) = c[1]
  <2>1. Front(c) = <<>> => Len(Front(c)) = 0
    OBVIOUS
  <2> QED
    <3> SUFFICES ASSUME Front(c) = <<>> PROVE Len(c) = 1
      BY <1>4
    <3>1. PICK n \in Nat : n = Len(c)
      BY <1>1
    <3>2. n - 1 = 0
      BY <1>2, <2>1, <3>1
    <3>3. n = 1
      BY ONLY n \in Nat, <3>2
    <3> QED
      BY ONLY <3>1, <3>3
<1> QED
  BY <1>2, <1>4, <1>5, <1>6, <1>7, <1>8, <1>9

LEMMA HeldIs ==
  ASSUME ListsTypeOK, NEW t \in Threads, NEW l
  PROVE  l \in Held(t) <=> Depths(calls[t], l) # {}
<1>1. calls[t] \in Seq(Call)
  BY DEF ListsTypeOK
<1>2. ToSet(calls[t]) = {calls[t][k] : k \in 1 .. Len(calls[t])}
  BY <1>1 DEF ToSet
<1> QED
  BY <1>2 DEF Held, Depths

LEMMA TopInCall ==
  ASSUME ListsInv, NEW t \in Threads, doing[t].at \in {"loop", "fail", "relay"}
  PROVE  /\ calls[t] \in Seq(Call) /\ calls[t] # <<>>
         /\ Top(t) \in Call /\ Top(t) = calls[t][Len(calls[t])] /\ Len(calls[t]) \in 1 .. Len(calls[t])
<1>1. calls[t] \in Seq(Call) /\ calls[t] # <<>>
  BY DEF ListsInv, ListsTypeOK, InvokedFirst
<1>2. Len(calls[t]) \in 1 .. Len(calls[t])
  BY <1>1
<1>3. Top(t) = calls[t][Len(calls[t])]
  BY <1>1 DEF Top, Last
<1> QED
  BY <1>1, <1>2, <1>3

(* A thread that only turns to something else than a gate. *)
LEMMA TurnKeeps ==
  ASSUME ListsInv, NEW t \in Threads,
         NEW place \in {"run", "loop", "fail"}, Turn(t, place)
  PROVE  /\ doing' \in [Threads -> Doing]
         /\ \A u \in Threads : u # t => doing'[u] = doing[u]
         /\ doing'[t].at = place
<1>1. Idle(place) \in Doing /\ Idle(place).at = place
  BY DEF Idle, Doing, Node
<1> QED
  BY <1>1 DEF ListsInv, ListsTypeOK, Turn

LEMMA WantKeeps ==
  ASSUME ListsInv, NEW t \in Threads, NEW wish \in Wishes, NEW l \in Lists, NEW n \in Node,
         Want(t, wish, l, n), UNCHANGED gates,
         \A u \in Threads : Held(u)' = Held(u) /\ \A m : Depths(calls[u], m)' = Depths(calls[u], m),
         calls' \in [Threads -> Seq(Call)],
         \A u \in Threads : (calls[u]' = <<>> <=> calls[u] = <<>>)
                            /\ (calls[u] # <<>> => calls'[u][1].relayed = calls[u][1].relayed),
         wish = "relay" => calls[t] # <<>>,
         nodes' \in [Lists -> Seq(Node)], changes' \in 0 .. MaxChanges
  PROVE  ListsInv'
<1>1. [at |-> wish, list |-> l, node |-> n] \in Doing
  BY DEF Doing, Node, Wishes
<1>2. /\ doing' \in [Threads -> Doing]
      /\ \A u \in Threads : u # t => doing'[u] = doing[u]
      /\ doing'[t] = [at |-> wish, list |-> l, node |-> n]
  BY <1>1 DEF ListsInv, ListsTypeOK, Want
<1>3. Held(t) \subseteq Lists
  <2>1. calls[t] \in Seq(Call)
    BY DEF ListsInv, ListsTypeOK
  <2>2. \A k \in 1 .. Len(calls[t]) : calls[t][k] \in Call
    BY <2>1
  <2> QED
    <3> SUFFICES ASSUME NEW m, m \in Held(t) PROVE m \in Lists
      OBVIOUS
    <3>1. PICK k \in Depths(calls[t], m) : TRUE
      BY HeldIs DEF ListsInv
    <3>2. k \in 1 .. Len(calls[t]) /\ calls[t][k].list = m
      BY <3>1 DEF Depths
    <3> QED
      BY <2>2, <3>2 DEF Call
<1>4. uses' = uses \cup (Held(t) \X {l}) /\ uses' \subseteq Lists \X Lists
  BY <1>3 DEF ListsInv, ListsTypeOK, Want
<1>5. ListsTypeOK'
  BY <1>2, <1>4 DEF ListsInv, ListsTypeOK
<1>6. \A m \in Lists : gates'[m].owner = NoThread => gates'[m].count = 0
  BY DEF ListsInv
<1>7. \A u \in Threads, m \in Lists : GateFor(u, m)'
  <2> SUFFICES ASSUME NEW u \in Threads, NEW m \in Lists
               PROVE  GateFor(u, m)'
    OBVIOUS
  <2>1. GateFor(u, m)
    BY DEF ListsInv
  <2>2. Depths(calls[u], m)' = Depths(calls[u], m)
    OBVIOUS
  <2> QED
    BY <2>1, <2>2 DEF GateFor
<1>8. ASSUME NEW u \in Threads PROVE UsesNoted(u)' /\ InvokedFirst(u)'
  <2>1. UsesNoted(u) /\ InvokedFirst(u)
    BY DEF ListsInv
  <2>2. CASE u = t
    BY <1>2, <1>4, <2>1, <2>2 DEF UsesNoted, InvokedFirst, Wishes
  <2>3. CASE u # t
    BY <1>2, <1>4, <2>1, <2>3 DEF UsesNoted, InvokedFirst
  <2> QED
    BY <2>2, <2>3
<1> QED
  BY <1>5, <1>6, <1>7, <1>8 DEF ListsInv

(* A thread that goes on with neither a gate nor a call. *)
LEMMA IdleKeeps ==
  ASSUME ListsInv, NEW t \in Threads, UNCHANGED <<gates, calls, uses>>,
         doing' \in [Threads -> Doing],
         \A u \in Threads : u # t => doing'[u] = doing[u],
         doing'[t].at \in {"run", "loop", "fail"}, doing'[t].at # "run" => calls[t] # <<>>,
         nodes' \in [Lists -> Seq(Node)], changes' \in 0 .. MaxChanges
  PROVE  ListsInv'
<1>1. ListsTypeOK'
  BY DEF ListsInv, ListsTypeOK
<1>2. /\ \A m \in Lists : gates'[m].owner = NoThread => gates'[m].count = 0
      /\ \A u \in Threads, m \in Lists : GateFor(u, m)'
  BY DEF ListsInv, GateFor
<1>3. ASSUME NEW u \in Threads PROVE UsesNoted(u)' /\ InvokedFirst(u)'
  <2>1. UsesNoted(u) /\ InvokedFirst(u)
    BY DEF ListsInv
  <2>2. CASE u = t
    BY <2>1, <2>2 DEF UsesNoted, InvokedFirst, Wishes
  <2>3. CASE u # t
    BY <2>1, <2>3 DEF UsesNoted, InvokedFirst, Held
  <2> QED
    BY <2>2, <2>3
<1> QED
  BY <1>1, <1>2, <1>3 DEF ListsInv

-------------------------------------------------------------------------------
LEMMA EnterKeeps == ASSUME ListsInv, NEW t \in Threads, EnterList(t) PROVE ListsInv'
<1> DEFINE l == doing[t].list
           e == [list |-> l, i |-> 0, relayed |-> At(t, {"relay"})]
<1>1. /\ doing[t].at \in {"invoke", "relay"} /\ l \in Lists /\ CanLock(gates[l], t)
      /\ UsesNoted(t) /\ InvokedFirst(t)
  BY DEF EnterList, Gets, At, ListsInv, UsesNoted, Wishes
<1>2. e \in Call /\ e.list = l /\ (e.relayed <=> doing[t].at = "relay")
  <2>1. /\ At(t, {"relay"}) \in BOOLEAN
        /\ At(t, {"relay"}) <=> doing[t].at = "relay"
    BY DEF At
  <2>2. e \in Call
    BY <1>1, <2>1 DEF Call
  <2>3. e.list = l /\ e.relayed = At(t, {"relay"})
    OBVIOUS
  <2> QED
    BY <2>1, <2>2, <2>3, Zenon
<1>3. /\ calls' = [calls EXCEPT ![t] = Append(@, e)]
      /\ gates' = [gates EXCEPT ![l] = Locked(@, t)]
      /\ UNCHANGED <<nodes, uses, changes>>
  BY DEF EnterList
<1>4. /\ doing' \in [Threads -> Doing] /\ \A u \in Threads : u # t => doing'[u] = doing[u]
      /\ doing'[t].at = "loop"
  BY TurnKeeps DEF EnterList
<1>5. calls \in [Threads -> Seq(Call)] /\ gates \in [Lists -> MutexOf(Threads)]
  BY DEF ListsInv, ListsTypeOK
<1>6. /\ calls' \in [Threads -> Seq(Call)] /\ calls'[t] # <<>>
      /\ calls'[t][1] = IF calls[t] = <<>> THEN e ELSE calls[t][1]
      /\ \A m : m # l => Depths(calls'[t], m) = Depths(calls[t], m)
      /\ Cardinality(Depths(calls'[t], l)) = Cardinality(Depths(calls[t], l)) + 1
      /\ \A u \in Threads : u # t => calls'[u] = calls[u]
  <2>1. calls[t] \in Seq(Call) /\ calls'[t] = Append(calls[t], e)
    BY <1>3, <1>5
  <2> HIDE DEF e
  <2>2. /\ Append(calls[t], e) \in Seq(Call) /\ Append(calls[t], e) # <<>>
        /\ \A m : m # e.list => Depths(Append(calls[t], e), m) = Depths(calls[t], m)
        /\ Cardinality(Depths(Append(calls[t], e), e.list)) = Cardinality(Depths(calls[t], e.list)) + 1
        /\ Append(calls[t], e)[1] = IF calls[t] = <<>> THEN e ELSE calls[t][1]
    BY <1>2, <2>1, DepthsMore
  <2> QED
    BY <1>2, <1>3, <1>5, <2>1, <2>2
<1> HIDE DEF e, l
<1>7. /\ gates' \in [Lists -> MutexOf(Threads)] /\ \A m \in Lists : m # l => gates'[m] = gates[m]
      /\ gates'[l].owner = t /\ gates'[l].count = gates[l].count + 1 /\ gates[l].count \in Nat
  <2>1. gates[l] \in MutexOf(Threads)
    BY <1>1, <1>5
  <2>2. Locked(gates[l], t) \in MutexOf(Threads)
    BY <2>1 DEF Locked, MutexOf
  <2> QED
    BY <1>1, <1>3, <1>5, <2>1, <2>2 DEF Locked, MutexOf
<1>8. ListsTypeOK'
  BY <1>3, <1>4, <1>6, <1>7 DEF ListsInv, ListsTypeOK
<1>9. ASSUME NEW m \in Lists PROVE gates'[m].owner = NoThread => gates'[m].count = 0
  BY <1>7, MutexAssumption DEF ListsInv
<1>10. ASSUME NEW u \in Threads, NEW m \in Lists PROVE GateFor(u, m)'
  <2>1. GateFor(u, m) /\ GateFor(t, l)
    BY <1>1 DEF ListsInv
  <2>2. CASE m # l
    <3>1. Depths(calls'[u], m) = Depths(calls[u], m)
      BY <1>6, <2>2
    <3> QED
      BY <1>7, <2>1, <2>2, <3>1 DEF GateFor
  <2>3. CASE m = l /\ u # t
    <3>1. gates[l].owner # u
      BY <1>1, <2>3, MutexAssumption DEF CanLock
    <3> QED
      BY <1>6, <1>7, <2>1, <2>3, <3>1 DEF GateFor
  <2>4. CASE m = l /\ u = t
    <3>1. gates[l].count = Cardinality(Depths(calls[t], l))
      <4>1. CASE gates[l].owner = t
        BY <2>1, <4>1 DEF GateFor
      <4>2. CASE gates[l].owner = NoThread
        <5>1. gates[l].count = 0
          BY <1>1, <4>2 DEF ListsInv
        <5>2. Depths(calls[t], l) = {}
          BY <2>1, <4>2, MutexAssumption DEF GateFor
        <5> QED
          BY <5>1, <5>2, FS_EmptySet
      <4> QED
        BY <1>1, <4>1, <4>2 DEF CanLock
    <3> QED
      BY <1>6, <1>7, <2>4, <3>1 DEF GateFor
  <2> QED
    BY <2>2, <2>3, <2>4
<1>11. ASSUME NEW u \in Threads PROVE UsesNoted(u)' /\ InvokedFirst(u)'
  <2>1. UsesNoted(u) /\ InvokedFirst(u)
    BY DEF ListsInv
  <2>2. CASE u = t
    <3>1. UsesNoted(u)'
      BY <1>4, <2>2 DEF UsesNoted, Wishes
    <3>2. ~calls'[t][1].relayed
      BY <1>2, <1>6, <2>1, <2>2 DEF InvokedFirst
    <3> QED
      BY <1>6, <2>2, <3>1, <3>2 DEF InvokedFirst
  <2>3. CASE u # t
    BY <1>3, <1>4, <1>6, <2>1, <2>3 DEF UsesNoted, InvokedFirst, Held
  <2> QED
    BY <2>2, <2>3
<1> QED
  BY <1>8, <1>9, <1>10, <1>11 DEF ListsInv

LEMMA LeaveKeeps == ASSUME ListsInv, NEW t \in Threads, LeaveList(t) PROVE ListsInv'
<1>1. PICK l : l = Top(t).list
  OBVIOUS
<1>2. doing[t].at \in {"loop", "fail"}
  BY DEF LeaveList, At
<1>3. calls[t] \in Seq(Call) /\ calls[t] # <<>> /\ Top(t) \in Call /\ l \in Lists
  BY <1>1, <1>2, TopInCall DEF Call
<1>4. /\ calls' = [calls EXCEPT ![t] = Front(@)]
      /\ gates' = [gates EXCEPT ![l] = Unlocked(@, t)]
      /\ UNCHANGED <<nodes, uses, changes>>
  BY <1>1 DEF LeaveList
<1>5. /\ doing' \in [Threads -> Doing] /\ \A u \in Threads : u # t => doing'[u] = doing[u]
      /\ IF Top(t).relayed THEN doing'[t] = doing[t] ELSE doing'[t].at = "run"
  <2>1. CASE Top(t).relayed
    BY <2>1 DEF LeaveList, ListsInv, ListsTypeOK
  <2>2. CASE ~Top(t).relayed
    BY <2>2, TurnKeeps DEF LeaveList
  <2> QED
    BY <2>1, <2>2
<1>6. calls \in [Threads -> Seq(Call)] /\ gates \in [Lists -> MutexOf(Threads)]
  BY DEF ListsInv, ListsTypeOK
<1>7. /\ calls' \in [Threads -> Seq(Call)]
      /\ calls'[t] # <<>> => calls'[t][1] = calls[t][1]
      /\ calls'[t] = <<>> => Top(t) = calls[t][1]
      /\ \A m : m # l => Depths(calls'[t], m) = Depths(calls[t], m)
      /\ Cardinality(Depths(calls'[t], l)) = Cardinality(Depths(calls[t], l)) - 1
      /\ Depths(calls[t], l) # {}
      /\ \A u \in Threads : u # t => calls'[u] = calls[u]
  <2>1. calls'[t] = Front(calls[t]) /\ Top(t) = Last(calls[t])
    BY <1>4, <1>6 DEF Top
  <2> QED
    BY <1>1, <1>3, <1>4, <1>6, <2>1, DepthsLess
<1>8. /\ gates[l].owner = t /\ gates[l].count = Cardinality(Depths(calls[t], l))
      /\ gates[l].count > 0 /\ gates[l].count \in Nat
  <2>1. GateFor(t, l)
    BY <1>3 DEF ListsInv
  <2> QED
    BY <1>3, <1>6, <1>7, <2>1 DEF GateFor, MutexOf
<1>9. /\ gates' \in [Lists -> MutexOf(Threads)] /\ \A m \in Lists : m # l => gates'[m] = gates[m]
      /\ gates'[l].count = gates[l].count - 1
      /\ gates'[l].owner = IF gates[l].count = 1 THEN NoThread ELSE t
  <2>1. Unlocked(gates[l], t) = IF gates[l].count = 1 THEN Fresh ELSE [owner |-> t, count |-> gates[l].count - 1]
    BY <1>8 DEF Unlocked
  <2>2. /\ Unlocked(gates[l], t) \in MutexOf(Threads)
        /\ Unlocked(gates[l], t).count = gates[l].count - 1
        /\ Unlocked(gates[l], t).owner = IF gates[l].count = 1 THEN NoThread ELSE t
    BY <1>8, <2>1 DEF Fresh, MutexOf
  <2> QED
    BY <1>3, <1>4, <1>6, <2>2
<1>10. ListsTypeOK'
  BY <1>4, <1>5, <1>7, <1>9 DEF ListsInv, ListsTypeOK
<1>11. ASSUME NEW m \in Lists PROVE gates'[m].owner = NoThread => gates'[m].count = 0
  BY <1>8, <1>9, MutexAssumption DEF ListsInv
<1>12. ASSUME NEW u \in Threads, NEW m \in Lists PROVE GateFor(u, m)'
  <2>1. GateFor(u, m)
    BY DEF ListsInv
  <2>2. CASE m # l
    <3>1. Depths(calls'[u], m) = Depths(calls[u], m)
      BY <1>7, <2>2
    <3> QED
      BY <1>9, <2>1, <2>2, <3>1 DEF GateFor
  <2>3. CASE m = l /\ u # t
    BY <1>7, <1>8, <1>9, <2>1, <2>3, MutexAssumption DEF GateFor
  <2>4. CASE m = l /\ u = t
    <3>1. calls'[t] \in Seq(Call)
      BY <1>7
    <3>2. Cardinality(Depths(calls'[t], l)) = 0 <=> Depths(calls'[t], l) = {}
      BY <3>1, DepthsFinite, FS_EmptySet
    <3> QED
      BY <1>7, <1>8, <1>9, <2>4, <3>2, MutexAssumption DEF GateFor
  <2> QED
    BY <2>2, <2>3, <2>4
<1>13. ASSUME NEW u \in Threads PROVE UsesNoted(u)' /\ InvokedFirst(u)'
  <2>1. UsesNoted(u) /\ InvokedFirst(u)
    BY DEF ListsInv
  <2>2. CASE u = t
    <3>1. UsesNoted(u)'
      BY <1>2, <1>5, <2>2 DEF UsesNoted, Wishes
    <3>2. calls'[t] # <<>> => ~calls'[t][1].relayed
      BY <1>3, <1>7, <2>1, <2>2 DEF InvokedFirst
    <3>3. doing'[t].at \in {"loop", "fail", "relay"} => calls'[t] # <<>>
      BY <1>3, <1>5, <1>7, <2>1, <2>2 DEF InvokedFirst
    <3> QED
      BY <2>2, <3>1, <3>2, <3>3 DEF InvokedFirst
  <2>3. CASE u # t
    BY <1>4, <1>5, <1>7, <2>1, <2>3 DEF UsesNoted, InvokedFirst, Held
  <2> QED
    BY <2>2, <2>3
<1> QED
  BY <1>10, <1>11, <1>12, <1>13 DEF ListsInv

LEMMA CallNodeKeeps == ASSUME ListsInv, NEW t \in Threads, CallNode(t) PROVE ListsInv'
<1> DEFINE d == Len(calls[t])
<1>1. doing[t].at = "loop" /\ Top(t).i < Len(nodes[Top(t).list])
  BY DEF CallNode, At
<1>2. /\ calls[t] \in Seq(Call) /\ calls[t] # <<>> /\ Top(t) \in Call
      /\ Top(t) = calls[t][d] /\ d \in 1 .. d /\ d \in Nat
  BY <1>1, TopInCall
<1>n. PICK n : n = nodes[Top(t).list][Top(t).i + 1]
  OBVIOUS
<1>3. n \in Node
  <2>1. Top(t).list \in Lists /\ Top(t).i \in Nat
    BY <1>2 DEF Call
  <2>2. nodes[Top(t).list] \in Seq(Node)
    BY <2>1 DEF ListsInv, ListsTypeOK
  <2> QED
    BY <1>1, <1>n, <2>1, <2>2
<1>4. PICK c : c = [calls[t] EXCEPT ![d].i = @ + 1]
  OBVIOUS
<1>5. calls \in [Threads -> Seq(Call)] /\ calls' = [calls EXCEPT ![t] = c] /\ UNCHANGED <<nodes, gates, changes>>
  BY <1>4 DEF ListsInv, ListsTypeOK, CallNode
<1>6. /\ c \in Seq(Call) /\ Len(c) = d /\ c # <<>>
      /\ \A k \in 1 .. d : c[k].list = calls[t][k].list /\ c[k].relayed = calls[t][k].relayed
  <2>1. \A k \in 1 .. d : calls[t][k] \in Call
    BY <1>2
  <2>2. [calls[t][d] EXCEPT !.i = @ + 1] \in Call
        /\ [calls[t][d] EXCEPT !.i = @ + 1].list = calls[t][d].list
        /\ [calls[t][d] EXCEPT !.i = @ + 1].relayed = calls[t][d].relayed
    BY <1>2, <2>1 DEF Call
  <2>3. c = [calls[t] EXCEPT ![d] = [calls[t][d] EXCEPT !.i = @ + 1]]
    BY <1>4
  <2>4. c \in Seq(Call) /\ Len(c) = d
    BY <1>2, <2>2, <2>3
  <2>5. c # <<>>
    BY <1>2, <2>4
  <2> QED
    BY <1>2, <2>2, <2>3, <2>4, <2>5
<1>7. \A m : Depths(c, m) = Depths(calls[t], m)
  BY <1>6 DEF Depths
<1>8. calls' \in [Threads -> Seq(Call)] /\ calls'[t] = c /\ \A u \in Threads : u # t => calls'[u] = calls[u]
  BY <1>5, <1>6
<1>9. \A u \in Threads : Held(u)' = Held(u) /\ \A m : Depths(calls[u], m)' = Depths(calls[u], m)
  <2>1. \A k \in 1 .. d : calls'[t][k].list = calls[t][k].list /\ Len(calls'[t]) = d
    BY <1>6, <1>8
  <2>2. ToSet(calls[t]) = {calls[t][k] : k \in 1 .. d} /\ ToSet(calls'[t]) = {calls'[t][k] : k \in 1 .. d}
    BY <1>2, <1>6, <1>8 DEF ToSet
  <2>3. Held(t)' = Held(t)
    BY <2>1, <2>2 DEF Held
  <2> QED
    BY <1>7, <1>8, <2>3 DEF Held
<1>10. \A u \in Threads :
         /\ calls'[u] = <<>> <=> calls[u] = <<>>
         /\ calls[u] # <<>> => calls'[u][1].relayed = calls[u][1].relayed
  <2>1. 1 \in 1 .. d
    BY <1>2
  <2> QED
    BY <1>2, <1>6, <1>8, <2>1
<1>11. CASE n # Plain /\ Want(t, "relay", n, Plain)
  <2>1. n \in Lists /\ Plain \in Node /\ "relay" \in Wishes
    BY <1>3, <1>11 DEF Node, Wishes
  <2>2. nodes' \in [Lists -> Seq(Node)] /\ changes' \in 0 .. MaxChanges /\ UNCHANGED gates
    BY <1>5 DEF ListsInv, ListsTypeOK
  <2> HIDE DEF d
  <2> QED
    BY <1>2, <1>8, <1>9, <1>10, <1>11, <2>1, <2>2, WantKeeps
<1>12. CASE UNCHANGED uses /\ (Turn(t, "run") \/ UNCHANGED doing)
  <2>1. /\ doing' \in [Threads -> Doing] /\ \A u \in Threads : u # t => doing'[u] = doing[u]
        /\ doing'[t].at \in {"run", "loop"}
    <3>1. CASE Turn(t, "run")
      BY <3>1, TurnKeeps
    <3>2. CASE UNCHANGED doing
      BY <1>1, <3>2 DEF ListsInv, ListsTypeOK
    <3> QED
      BY <1>12, <3>1, <3>2
  <2>2. ListsTypeOK'
    BY <1>5, <1>8, <1>12, <2>1 DEF ListsInv, ListsTypeOK
  <2>3. \A m \in Lists : gates'[m].owner = NoThread => gates'[m].count = 0
    BY <1>5 DEF ListsInv
  <2>4. \A u \in Threads, m \in Lists : GateFor(u, m)'
    BY <1>5, <1>9 DEF ListsInv, GateFor
  <2>5. ASSUME NEW u \in Threads PROVE UsesNoted(u)' /\ InvokedFirst(u)'
    <3>1. UsesNoted(u) /\ InvokedFirst(u)
      BY DEF ListsInv
    <3>2. InvokedFirst(u)'
      <4>1. calls'[u] = <<>> <=> calls[u] = <<>>
        BY <1>10
      <4>2. doing'[u].at \in {"loop", "fail", "relay"} => calls[u] # <<>>
        BY <1>2, <2>1, <3>1 DEF InvokedFirst
      <4>3. calls[u] # <<>> => ~calls'[u][1].relayed
        BY <1>10, <3>1 DEF InvokedFirst
      <4> QED
        BY <4>1, <4>2, <4>3 DEF InvokedFirst
    <3>3. UsesNoted(u)'
      BY <1>9, <1>12, <2>1, <3>1 DEF UsesNoted, Wishes
    <3> QED
      BY <3>2, <3>3
  <2> QED
    BY <2>2, <2>3, <2>4, <2>5 DEF ListsInv
<1> QED
  BY <1>n, <1>11, <1>12 DEF CallNode

LEMMA ListsInductive == ASSUME ListsInv, [ListsNext]_listsVars PROVE ListsInv'
<1> USE DEF ListsInv
<1>0. /\ ListsTypeOK /\ \A u \in Threads : calls[u] \in Seq(Call)
  BY DEF ListsTypeOK
<1>1. ASSUME NEW t \in Threads, NEW l \in Lists, NEW n \in Node, NEW wish \in {"install", "remove", "invoke"},
             Want(t, wish, l, n), UNCHANGED <<nodes, gates, calls>>, changes' \in 0 .. MaxChanges
      PROVE  ListsInv'
  <2>1. \A u \in Threads : Held(u)' = Held(u) /\ \A m : Depths(calls[u], m)' = Depths(calls[u], m)
    BY <1>1 DEF Held
  <2>2. calls' \in [Threads -> Seq(Call)] /\ nodes' \in [Lists -> Seq(Node)]
    BY <1>0, <1>1 DEF ListsTypeOK
  <2>3. wish \in Wishes /\ wish # "relay"
    BY DEF Wishes
  <2> HIDE DEF ListsInv
  <2> QED
    BY <1>1, <2>1, <2>2, <2>3, WantKeeps
<1>2. ASSUME NEW t \in Threads, NEW l \in Lists, NEW n \in Node, InstallNode(t, l, n) \/ RemoveNode(t, l, n)
      PROVE  ListsInv'
  <2>1. changes' \in 0 .. MaxChanges
    BY <1>0, <1>2, ListsAssumption DEF ListsTypeOK, InstallNode, RemoveNode
  <2>2. CASE InstallNode(t, l, n)
    BY <1>1, <2>1, <2>2 DEF InstallNode
  <2>3. CASE RemoveNode(t, l, n)
    BY <1>1, <2>1, <2>3 DEF RemoveNode
  <2> QED
    BY <1>2, <2>2, <2>3
<1>3. ASSUME NEW t \in Threads, NEW l \in Lists, InvokeList(t, l) PROVE ListsInv'
  <2>1. changes' \in 0 .. MaxChanges /\ Plain \in Node
    BY <1>0, <1>3 DEF ListsTypeOK, InvokeList, Node
  <2> QED
    BY <1>1, <1>3, <2>1 DEF InvokeList
<1>4. ASSUME NEW t \in Threads, Store(t) \/ Erase(t) PROVE ListsInv'
  <2>1. doing[t].at \in {"install", "remove"} /\ Turn(t, "run") /\ UNCHANGED <<gates, calls, uses, changes>>
    BY <1>4 DEF Store, Erase, Gets, At
  <2>2. doing[t].list \in Lists /\ doing[t].node \in Node
    BY <1>0, <2>1 DEF UsesNoted, Wishes, ListsTypeOK, Doing
  <2>3. nodes[doing[t].list] \in Seq(Node)
    BY <1>0, <2>2 DEF ListsTypeOK
  <2>4. nodes' \in [Lists -> Seq(Node)]
    <3>1. CASE Store(t)
      <4>1. Append(nodes[doing[t].list], doing[t].node) \in Seq(Node)
        BY <2>2, <2>3
      <4> QED
        BY <1>0, <3>1, <4>1 DEF Store, ListsTypeOK
    <3>2. CASE Erase(t)
      <4>1. PICK i : i = SelectInSeq(nodes[doing[t].list], LAMBDA n : n = doing[t].node)
        OBVIOUS
      <4>2. nodes' = [nodes EXCEPT ![doing[t].list] = IF i = 0 THEN @ ELSE RemoveAt(@, i)]
        BY <3>2, <4>1 DEF Erase
      <4>3. i \in 0 .. Len(nodes[doing[t].list])
        <5>1. PICK I : I = {k \in 1 .. Len(nodes[doing[t].list]) : nodes[doing[t].list][k] = doing[t].node}
          OBVIOUS
        <5>2. i = IF I # {} THEN Min(I) ELSE 0
          BY <4>1, <5>1 DEF SelectInSeq
        <5>3. Len(nodes[doing[t].list]) \in Nat
          BY <2>3
        <5>4. I \subseteq Nat /\ I \subseteq 1 .. Len(nodes[doing[t].list])
          BY <5>1, <5>3
        <5>5. I # {} => Min(I) \in I
          BY <5>4, LeastNumber DEF Min
        <5>6. PICK n : n = Len(nodes[doing[t].list])
          OBVIOUS
        <5>7. I # {} => i \in 1 .. n
          BY ONLY <5>2, <5>4, <5>5, <5>6
        <5>8. I = {} => i = 0
          BY ONLY <5>2
        <5> QED
          BY ONLY <5>3, <5>6, <5>7, <5>8
      <4>4. i # 0 => RemoveAt(nodes[doing[t].list], i) \in Seq(Node)
        BY <2>3, <4>3, RemoveAtProperties
      <4> QED
        BY <1>0, <2>3, <4>2, <4>4 DEF ListsTypeOK
    <3> QED
      BY <1>4, <3>1, <3>2
  <2>5. /\ doing' \in [Threads -> Doing] /\ \A u \in Threads : u # t => doing'[u] = doing[u]
        /\ doing'[t].at = "run"
    BY <2>1, TurnKeeps
  <2>6. changes' \in 0 .. MaxChanges /\ UNCHANGED <<gates, calls, uses>>
    BY <1>0, <2>1 DEF ListsTypeOK
  <2> HIDE DEF ListsInv
  <2> QED
    BY <2>4, <2>5, <2>6, IdleKeeps
<1>5. ASSUME NEW t \in Threads, CallReturns(t) PROVE ListsInv'
  <2>1. /\ doing' \in [Threads -> Doing] /\ \A u \in Threads : u # t => doing'[u] = doing[u]
        /\ doing'[t].at \in {"loop", "fail"}
    BY <1>5, TurnKeeps DEF CallReturns
  <2>2. calls[t] # <<>> /\ UNCHANGED <<gates, calls, uses>>
        /\ nodes' \in [Lists -> Seq(Node)] /\ changes' \in 0 .. MaxChanges
    BY <1>0, <1>5 DEF CallReturns, ListsTypeOK
  <2> HIDE DEF ListsInv
  <2> QED
    BY <2>1, <2>2, IdleKeeps
<1>6. CASE UNCHANGED listsVars
  <2>1. UNCHANGED <<nodes, gates, calls, doing, uses, changes>>
    BY <1>6 DEF listsVars
  <2>2. ListsTypeOK'
    BY <1>0, <2>1 DEF ListsTypeOK
  <2>3. ASSUME NEW t \in Threads, NEW l \in Lists PROVE GateFor(t, l)'
    BY <2>1 DEF GateFor
  <2>4. ASSUME NEW t \in Threads PROVE UsesNoted(t)' /\ InvokedFirst(t)'
    BY <2>1 DEF UsesNoted, InvokedFirst, Held
  <2> QED
    BY <2>1, <2>2, <2>3, <2>4
<1> HIDE DEF ListsInv
<1> QED
  BY <1>2, <1>3, <1>4, <1>5, <1>6, EnterKeeps, LeaveKeeps, CallNodeKeeps DEF ListsNext

LEMMA ListsInitInv == ASSUME ListsInit PROVE ListsInv
<1>1. /\ nodes = [l \in Lists |-> <<>>] /\ gates = [l \in Lists |-> Fresh]
      /\ calls = [t \in Threads |-> <<>>] /\ doing = [t \in Threads |-> Idle("run")]
      /\ uses = {} /\ changes = 0
  BY DEF ListsInit
<1>2. <<>> \in Seq(Node) /\ <<>> \in Seq(Call) /\ Fresh \in MutexOf(Threads) /\ Idle("run") \in Doing
  BY DEF Fresh, MutexOf, Idle, Doing, Node
<1>3. ListsTypeOK
  BY <1>1, <1>2, ListsAssumption DEF ListsTypeOK
<1>4. \A l : Depths(<<>>, l) = {}
  BY DEF Depths
<1>5. \A t \in Threads, l \in Lists : GateFor(t, l)
  BY <1>1, <1>4, MutexAssumption DEF GateFor, Fresh
<1>6. \A t \in Threads : UsesNoted(t) /\ InvokedFirst(t)
  BY <1>1 DEF UsesNoted, InvokedFirst, Idle, Wishes
<1>7. \A l \in Lists : gates[l].count = 0
  BY <1>1 DEF Fresh
<1> QED
  BY <1>3, <1>5, <1>6, <1>7 DEF ListsInv

(***************************************************************************)
(* The gates agree with the notifications, and what is used is recorded.      *)
(***************************************************************************)
THEOREM ListsInvariance == ListsSpec => []ListsInv
<1>1. ListsInit => ListsInv
  BY ListsInitInv
<1>2. ListsInv /\ [ListsNext]_listsVars => ListsInv'
  BY ListsInductive
<1> QED
  BY <1>1, <1>2, PTL DEF ListsSpec

(***************************************************************************)
(* The lists, their gates and the notifications keep their types.            *)
(***************************************************************************)
THEOREM ListsTypeCorrect == ListsSpec => []ListsTypeOK
<1>1. ListsInv => ListsTypeOK
  BY DEF ListsInv
<1> QED
  BY <1>1, ListsInvariance, PTL

(***************************************************************************)
(* Whoever is inside of a notification of a list, and nobody else, has its    *)
(* gate.                                                                    *)
(***************************************************************************)
THEOREM NotifierHoldsAlways == ListsSpec => []NotifierHolds
<1>1. ASSUME ListsInv, NEW l \in Lists, NEW t \in Threads
      PROVE  gates[l].owner = t <=> l \in Held(t)
  <2>1. ListsTypeOK /\ GateFor(t, l) /\ calls[t] \in Seq(Call)
    BY <1>1 DEF ListsInv, ListsTypeOK
  <2>2. l \in Held(t) <=> Depths(calls[t], l) # {}
    BY <2>1, HeldIs
  <2>3. Depths(calls[t], l) = {} => Cardinality(Depths(calls[t], l)) = 0
    BY FS_EmptySet
  <2> QED
    BY <2>1, <2>2, <2>3 DEF GateFor
<1>2. ListsInv => NotifierHolds
  BY <1>1 DEF NotifierHolds
<1> QED
  BY <1>2, ListsInvariance, PTL

(* Of the threads in a circle, the one that waits for the last list in the order waits
   for a thread that waits for a later one. *)
LEMMA OrderLeadsOut ==
  ASSUME ListsInv, NotifierHolds, InAnOrder,
         NEW circle \in SUBSET Threads, circle # {}, \A t \in circle : WaitsFor(t) \in circle
  PROVE  FALSE
<1>1. PICK N : N = Cardinality(Lists)
  OBVIOUS
<1>2. N \in Nat
  BY <1>1, ListsAssumption, FS_CardinalityType
<1>3. PICK rank \in [Lists -> 1 .. N] :
        \A use \in uses : use[1] # use[2] => rank[use[1]] < rank[use[2]]
  BY <1>1 DEF InAnOrder
<1>4. ASSUME NEW t \in circle
      PROVE  /\ WaitsFor(t) \in circle /\ doing[t].list \in Lists /\ doing[t].at \in Wishes
             /\ gates[doing[t].list].owner = WaitsFor(t) /\ WaitsFor(t) # t
             /\ Held(t) \X {doing[t].list} \subseteq uses
  <2>1. WaitsFor(t) \in circle /\ WaitsFor(t) # NoThread
    BY <1>4, MutexAssumption
  <2>2. /\ doing[t].at \in Wishes /\ ~CanLock(gates[doing[t].list], t)
        /\ gates[doing[t].list].owner = WaitsFor(t)
    BY <2>1 DEF WaitsFor, At
  <2>3. UsesNoted(t)
    BY DEF ListsInv
  <2> QED
    BY <2>1, <2>2, <2>3 DEF UsesNoted, CanLock
<1>5. ASSUME NEW t \in circle
      PROVE  /\ doing[WaitsFor(t)].list # doing[t].list
             /\ <<doing[t].list, doing[WaitsFor(t)].list>> \in uses
  <2>1. PICK u, l, m : u = WaitsFor(t) /\ l = doing[t].list /\ m = doing[u].list
    OBVIOUS
  <2>2. u \in circle /\ u \in Threads /\ l \in Lists /\ gates[l].owner = u
    BY <1>4, <2>1
  <2>3. l \in Held(u)
    BY <2>2 DEF NotifierHolds
  <2>4. gates[m].owner # u /\ Held(u) \X {m} \subseteq uses
    BY <1>4, <2>1, <2>2
  <2> QED
    BY <2>1, <2>2, <2>3, <2>4
<1>6. ASSUME NEW t \in circle
      PROVE  /\ rank[doing[t].list] \in 1 .. N /\ rank[doing[WaitsFor(t)].list] \in 1 .. N
             /\ rank[doing[t].list] < rank[doing[WaitsFor(t)].list]
  BY <1>3, <1>4, <1>5
<1>7. PICK T : T = {rank[doing[t].list] : t \in circle}
  OBVIOUS
<1>8. T \subseteq 1 .. N /\ T # {}
  BY <1>6, <1>7
<1>9. Max(T) \in T /\ \A y \in T : y <= Max(T)
  BY <1>2, <1>8, GreatestNumber
<1>10. PICK t \in circle : Max(T) = rank[doing[t].list]
  BY <1>7, <1>9
<1>11. rank[doing[WaitsFor(t)].list] \in T
  BY <1>4, <1>7
<1> QED
  BY <1>6, <1>9, <1>10, <1>11

(***************************************************************************)
(* Threads that use the lists inside each other in some order never wait for  *)
(* each other in a circle, however many they are and however the lists        *)
(* trigger each other and change meanwhile.                                  *)
(***************************************************************************)
THEOREM NoCircleEver == ListsSpec => []NoCircle
<1>1. ListsInv /\ NotifierHolds => NoCircle
  BY OrderLeadsOut DEF NoCircle
<1> QED
  BY <1>1, ListsInvariance, NotifierHoldsAlways, PTL

(***************************************************************************)
(* A gate serves one thread at a time and, used in an order, all of them.      *)
(***************************************************************************)
THEOREM ListsRightAlways == ListsSpec => []ListsRight
<1>1. NotifierHolds /\ NoCircle => ListsRight
  BY DEF ListsRight
<1> QED
  BY <1>1, NotifierHoldsAlways, NoCircleEver, PTL

-------------------------------------------------------------------------------
(***************************************************************************)
(* Copies of lists.  Whatever the copies do, two lists that are no copies have  *)
(* no callback in common (OwnersApart); and while the originals outlive their    *)
(* copies, who has a callback of an original is a copy of it (CopiesFollow).      *)
(***************************************************************************)
OwnersApart ==
  \A o \in objects : ~isCopy[o] =>
    /\ held[o] \subseteq heap /\ held[o] \cap loose = {}
    /\ \A p \in objects \ {o} : ~isCopy[p] => held[o] \cap held[p] = {}

CopiesFollow ==
  \A o \in objects :
    /\ held[o] \subseteq heap /\ held[o] \cap loose = {}
    /\ \A p \in objects \ {o}, c \in held[o] :
         ~isCopy[o] /\ c \in held[p] => isCopy[p] /\ original[p] = o

CopiesInv ==
  /\ CopiesTypeOK
  /\ NothingLost
  /\ "taken" \notin mishaps => "twice" \notin mishaps /\ loose \subseteq heap /\ OwnersApart
  /\ {"outlived", "taken"} \cap mishaps = {} => CopiesFollow

LEMMA ConstructKeeps == ASSUME CopiesInv, NEW o \in Objects, Construct(o) PROVE CopiesInv'
<1>0. CopiesTypeOK
  BY DEF CopiesInv
<1>1. /\ o \notin objects /\ objects' = objects \cup {o}
      /\ held'[o] = {} /\ \A p \in objects : held'[p] = held[p]
      /\ ~isCopy'[o] /\ \A p \in objects : isCopy'[p] = isCopy[p] /\ original'[p] = original[p]
      /\ UNCHANGED <<heap, loose, inCopies, mishaps>>
  BY <1>0 DEF Construct, CopiesTypeOK
<1>2. CopiesTypeOK'
  BY <1>0, <1>1 DEF Construct, CopiesTypeOK
<1>3. NothingLost'
  BY <1>1 DEF CopiesInv, NothingLost
<1>4. ASSUME OwnersApart PROVE OwnersApart'
  BY <1>1, <1>4 DEF OwnersApart
<1>5. ASSUME CopiesFollow PROVE CopiesFollow'
  BY <1>1, <1>5 DEF CopiesFollow
<1> QED
  BY <1>1, <1>2, <1>3, <1>4, <1>5 DEF CopiesInv

(* What clearing a list takes away: nothing that another list would delete. *)
LEMMA ClearListTakes ==
  ASSUME CopiesInv, NEW o \in objects, ClearList(o)
  PROVE  /\ heap' \subseteq heap /\ heap' = heap \ Clears(o)
         /\ Clears(o) \cap loose # {} => "taken" \in mishaps
         /\ mishaps \subseteq mishaps' /\ mishaps' \subseteq {"outlived", "taken", "twice"}
         /\ "taken" \in mishaps' => "taken" \in mishaps
         /\ "taken" \notin mishaps =>
              /\ "twice" \notin mishaps'
              /\ \A p \in objects \ {o} : ~isCopy[p] => held[p] \cap Clears(o) = {}
         /\ {"outlived", "taken"} \cap mishaps' = {} =>
              \A p \in objects \ {o} : held[p] \cap Clears(o) = {}
<1>1. /\ heap' = heap \ Clears(o) /\ Clears(o) = IF isCopy[o] THEN {} ELSE held[o]
      /\ mishaps' = mishaps
           \cup (IF ~isCopy[o] /\ \E p \in objects \ {o} : isCopy[p] /\ original[p] = o THEN {"outlived"} ELSE {})
           \cup (IF ~(Clears(o) \subseteq heap) THEN {"twice"} ELSE {})
  BY DEF ClearList, Clears, Note
<1>2. mishaps' \subseteq {"outlived", "taken", "twice"}
  BY <1>1 DEF CopiesInv, CopiesTypeOK
<1>3. ASSUME "taken" \notin mishaps
      PROVE  /\ Clears(o) \subseteq heap /\ Clears(o) \cap loose = {} /\ "twice" \notin mishaps
             /\ \A p \in objects \ {o} : ~isCopy[p] => held[p] \cap Clears(o) = {}
  BY <1>1, <1>3 DEF CopiesInv, OwnersApart
<1>4. ASSUME {"outlived", "taken"} \cap mishaps' = {}, NEW p \in objects \ {o}
      PROVE  held[p] \cap Clears(o) = {}
  <2>1. CopiesFollow
    BY <1>1, <1>4 DEF CopiesInv
  <2>2. ~isCopy[o] => ~(isCopy[p] /\ original[p] = o)
    BY <1>1, <1>4
  <2> QED
    BY <1>1, <1>4, <2>1, <2>2 DEF CopiesFollow
<1> QED
  BY <1>1, <1>2, <1>3, <1>4

LEMMA DestroyKeeps == ASSUME CopiesInv, NEW o \in Objects, Destroy(o) PROVE CopiesInv'
<1>0. CopiesTypeOK
  BY DEF CopiesInv
<1>1. /\ o \in objects /\ objects' = objects \ {o}
      /\ \A p \in objects' : p \in objects /\ p # o /\ held'[p] = held[p]
      /\ UNCHANGED <<isCopy, original, loose, inCopies>>
  BY <1>0 DEF Destroy, CopiesTypeOK
<1>2. /\ heap' \subseteq heap /\ heap' = heap \ Clears(o)
      /\ Clears(o) \cap loose # {} => "taken" \in mishaps
      /\ mishaps \subseteq mishaps' /\ mishaps' \subseteq {"outlived", "taken", "twice"}
      /\ "taken" \in mishaps' => "taken" \in mishaps
      /\ "taken" \notin mishaps =>
           /\ "twice" \notin mishaps'
           /\ \A p \in objects \ {o} : ~isCopy[p] => held[p] \cap Clears(o) = {}
      /\ {"outlived", "taken"} \cap mishaps' = {} =>
           \A p \in objects \ {o} : held[p] \cap Clears(o) = {}
  BY <1>1, ClearListTakes DEF Destroy
<1>3. CopiesTypeOK'
  BY <1>0, <1>1, <1>2 DEF Destroy, CopiesTypeOK
<1>4. NothingLost'
  <2> SUFFICES ASSUME NEW c \in heap', c \notin loose, c \notin inCopies
               PROVE  \E p \in objects' : ~isCopy'[p] /\ c \in held'[p]
    BY <1>1 DEF NothingLost
  <2>1. PICK p \in objects : ~isCopy[p] /\ c \in held[p]
    BY <1>2 DEF CopiesInv, NothingLost
  <2>2. p # o
    BY <1>2, <2>1 DEF Clears
  <2> QED
    BY <1>1, <2>1, <2>2
<1>5. ASSUME "taken" \notin mishaps PROVE OwnersApart'
  BY <1>1, <1>2, <1>5 DEF CopiesInv, OwnersApart
<1>6. ASSUME {"outlived", "taken"} \cap mishaps' = {} PROVE CopiesFollow'
  BY <1>1, <1>2, <1>6 DEF CopiesInv, CopiesFollow
<1>7. "taken" \notin mishaps => loose' \subseteq heap'
  BY <1>1, <1>2 DEF CopiesInv
<1> QED
  BY <1>1, <1>2, <1>3, <1>4, <1>5, <1>6, <1>7 DEF CopiesInv

LEMMA BecomesCopyIs ==
  ASSUME CopiesTypeOK, NEW o \in Objects, NEW p \in Objects, NEW callbacks \in SUBSET Observers,
         BecomesCopy(o, p, callbacks)
  PROVE  /\ held' \in [Objects -> SUBSET Observers] /\ isCopy' \in [Objects -> BOOLEAN]
         /\ original' \in [Objects -> Objects]
         /\ held'[o] = callbacks /\ isCopy'[o]
         /\ original'[o] = IF isCopy[p] THEN original[p] ELSE p
         /\ \A q \in Objects \ {o} :
              held'[q] = held[q] /\ isCopy'[q] = isCopy[q] /\ original'[q] = original[q]
BY DEF BecomesCopy, CopiesTypeOK

LEMMA CopyConstructKeeps ==
  ASSUME CopiesInv, NEW o \in Objects, NEW p \in Objects, CopyConstruct(o, p) PROVE CopiesInv'
<1>0. CopiesTypeOK /\ held[p] \in SUBSET Observers
  BY DEF CopiesInv, CopiesTypeOK
<1>1. /\ o \notin objects /\ p \in objects /\ o # p /\ objects' = objects \cup {o}
      /\ UNCHANGED <<heap, loose, inCopies, mishaps>>
      /\ BecomesCopy(o, p, held[p])
  BY DEF CopyConstruct
<1>2. /\ held' \in [Objects -> SUBSET Observers] /\ isCopy' \in [Objects -> BOOLEAN]
      /\ original' \in [Objects -> Objects]
      /\ held'[o] = held[p] /\ isCopy'[o]
      /\ original'[o] = IF isCopy[p] THEN original[p] ELSE p
      /\ \A q \in Objects \ {o} :
           held'[q] = held[q] /\ isCopy'[q] = isCopy[q] /\ original'[q] = original[q]
  BY <1>0, <1>1, BecomesCopyIs
<1>3. CopiesTypeOK' /\ objects \subseteq Objects \ {o}
  BY <1>0, <1>1, <1>2 DEF CopiesTypeOK
<1>4. NothingLost'
  BY <1>1, <1>2, <1>3 DEF CopiesInv, NothingLost
<1>5. ASSUME OwnersApart PROVE OwnersApart'
  BY <1>1, <1>2, <1>3, <1>5 DEF OwnersApart
<1>6. ASSUME CopiesFollow PROVE CopiesFollow'
  <2> SUFFICES ASSUME NEW q \in objects'
               PROVE  /\ held'[q] \subseteq heap /\ held'[q] \cap loose = {}
                      /\ \A r \in objects' \ {q}, c \in held'[q] :
                           ~isCopy'[q] /\ c \in held'[r] => isCopy'[r] /\ original'[r] = q
    BY <1>1 DEF CopiesFollow
  <2>1. held'[q] \subseteq heap /\ held'[q] \cap loose = {}
    BY <1>1, <1>2, <1>3, <1>6 DEF CopiesFollow
  <2>2. ASSUME NEW r \in objects' \ {q}, NEW c \in held'[q], ~isCopy'[q], c \in held'[r]
        PROVE  isCopy'[r] /\ original'[r] = q
    <3>1. q # o /\ q \in objects /\ ~isCopy[q] /\ c \in held[q]
      BY <1>1, <1>2, <1>3, <2>2
    <3>2. CASE r # o
      BY <1>1, <1>2, <1>3, <1>6, <2>2, <3>1, <3>2 DEF CopiesFollow
    <3>3. CASE r = o
      <4>1. c \in held[p] /\ isCopy'[r]
        BY <1>2, <2>2, <3>3
      <4>2. p # q => isCopy[p] /\ original[p] = q
        BY <1>1, <1>6, <3>1, <4>1 DEF CopiesFollow
      <4> QED
        BY <1>2, <3>1, <3>3, <4>1, <4>2
    <3> QED
      BY <3>2, <3>3
  <2> QED
    BY <2>1, <2>2
<1> QED
  BY <1>1, <1>3, <1>4, <1>5, <1>6 DEF CopiesInv

LEMMA AssignKeeps ==
  ASSUME CopiesInv, NEW o \in Objects, NEW p \in Objects, Assign(o, p) PROVE CopiesInv'
<1>0. CopiesTypeOK
  BY DEF CopiesInv
<1>1. PICK callbacks : callbacks = IF o = p THEN {} ELSE held[p]
  OBVIOUS
<1>2. /\ o \in objects /\ p \in objects /\ ClearList(o)
      /\ UNCHANGED <<objects, loose, inCopies>>
      /\ BecomesCopy(o, p, callbacks) /\ callbacks \in SUBSET Observers
  BY <1>0, <1>1 DEF Assign, CopiesTypeOK
<1>3. /\ held' \in [Objects -> SUBSET Observers] /\ isCopy' \in [Objects -> BOOLEAN]
      /\ original' \in [Objects -> Objects]
      /\ held'[o] = callbacks /\ isCopy'[o]
      /\ original'[o] = IF isCopy[p] THEN original[p] ELSE p
      /\ \A q \in Objects \ {o} :
           held'[q] = held[q] /\ isCopy'[q] = isCopy[q] /\ original'[q] = original[q]
  BY <1>0, <1>2, BecomesCopyIs
<1>4. /\ heap' \subseteq heap /\ heap' = heap \ Clears(o)
      /\ Clears(o) \cap loose # {} => "taken" \in mishaps
      /\ mishaps \subseteq mishaps' /\ mishaps' \subseteq {"outlived", "taken", "twice"}
      /\ "taken" \in mishaps' => "taken" \in mishaps
      /\ "taken" \notin mishaps =>
           /\ "twice" \notin mishaps'
           /\ \A q \in objects \ {o} : ~isCopy[q] => held[q] \cap Clears(o) = {}
      /\ {"outlived", "taken"} \cap mishaps' = {} =>
           \A q \in objects \ {o} : held[q] \cap Clears(o) = {}
  BY <1>2, ClearListTakes
<1>5. CopiesTypeOK' /\ objects \subseteq Objects
  BY <1>0, <1>2, <1>3, <1>4 DEF CopiesTypeOK
<1>6. NothingLost'
  <2> SUFFICES ASSUME NEW c \in heap', c \notin loose, c \notin inCopies
               PROVE  \E q \in objects : ~isCopy'[q] /\ c \in held'[q]
    BY <1>2 DEF NothingLost
  <2>1. PICK q \in objects : ~isCopy[q] /\ c \in held[q]
    BY <1>4 DEF CopiesInv, NothingLost
  <2>2. q # o
    BY <1>4, <2>1 DEF Clears
  <2> QED
    BY <1>3, <1>5, <2>1, <2>2
<1>7. ASSUME "taken" \notin mishaps PROVE OwnersApart'
  <2>1. OwnersApart
    BY <1>7 DEF CopiesInv
  <2> SUFFICES ASSUME NEW q \in objects, ~isCopy'[q]
               PROVE  /\ held'[q] \subseteq heap' /\ held'[q] \cap loose = {}
                      /\ \A r \in objects \ {q} : ~isCopy'[r] => held'[q] \cap held'[r] = {}
    BY <1>2 DEF OwnersApart
  <2>2. q # o /\ ~isCopy[q] /\ held'[q] = held[q]
    BY <1>3, <1>5
  <2>3. held[q] \subseteq heap /\ held[q] \cap loose = {} /\ held[q] \cap Clears(o) = {}
    BY <1>4, <1>7, <2>1, <2>2 DEF OwnersApart
  <2>4. \A r \in objects \ {q} : ~isCopy'[r] => held[q] \cap held'[r] = {}
    BY <1>3, <1>5, <2>1, <2>2 DEF OwnersApart
  <2> QED
    BY <1>4, <2>2, <2>3, <2>4
<1>8. ASSUME {"outlived", "taken"} \cap mishaps' = {} PROVE CopiesFollow'
  <2>1. CopiesFollow
    BY <1>4, <1>8 DEF CopiesInv
  <2> SUFFICES ASSUME NEW q \in objects
               PROVE  /\ held'[q] \subseteq heap' /\ held'[q] \cap loose = {}
                      /\ \A r \in objects \ {q}, c \in held'[q] :
                           ~isCopy'[q] /\ c \in held'[r] => isCopy'[r] /\ original'[r] = q
    BY <1>2 DEF CopiesFollow
  <2>2. held'[q] \subseteq heap' /\ held'[q] \cap loose = {}
    <3>1. \A r \in objects \ {o} :
            held[r] \subseteq heap' /\ held[r] \cap loose = {}
      BY <1>4, <1>8, <2>1 DEF CopiesFollow
    <3>2. CASE q # o
      BY <1>3, <1>5, <3>1, <3>2
    <3>3. CASE q = o
      BY <1>1, <1>2, <1>3, <3>1, <3>3
    <3> QED
      BY <3>2, <3>3
  <2>3. ASSUME NEW r \in objects \ {q}, NEW c \in held'[q], ~isCopy'[q], c \in held'[r]
        PROVE  isCopy'[r] /\ original'[r] = q
    <3>1. q # o /\ ~isCopy[q] /\ c \in held[q]
      BY <1>3, <1>5, <2>3
    <3>2. CASE r # o
      BY <1>3, <1>5, <2>1, <2>3, <3>1, <3>2 DEF CopiesFollow
    <3>3. CASE r = o
      <4>1. c \in held[p] /\ isCopy'[r]
        BY <1>1, <1>3, <2>3, <3>3
      <4>2. p # q => isCopy[p] /\ original[p] = q
        BY <1>2, <2>1, <3>1, <4>1 DEF CopiesFollow
      <4> QED
        BY <1>3, <3>1, <3>3, <4>1, <4>2
    <3> QED
      BY <3>2, <3>3
  <2> QED
    BY <2>2, <2>3
<1>9. "taken" \notin mishaps => loose' \subseteq heap'
  BY <1>2, <1>4 DEF CopiesInv
<1> QED
  BY <1>4, <1>5, <1>6, <1>7, <1>8, <1>9 DEF CopiesInv

LEMMA InstallInKeeps ==
  ASSUME CopiesInv, NEW o \in Objects, NEW c \in Observers, InstallIn(o, c) PROVE CopiesInv'
<1>0. CopiesTypeOK
  BY DEF CopiesInv
<1>1. /\ o \in objects /\ (c \in loose \/ c \notin heap) /\ UNCHANGED <<objects, isCopy, original, mishaps>>
      /\ held'[o] = held[o] \cup {c} /\ \A p \in objects \ {o} : held'[p] = held[p]
      /\ heap' = heap \cup {c} /\ loose' = loose \ {c}
      /\ inCopies' = IF isCopy[o] THEN inCopies \cup {c} ELSE inCopies \ {c}
  BY <1>0 DEF InstallIn, CopiesTypeOK
<1>2. CopiesTypeOK'
  BY <1>0, <1>1 DEF InstallIn, CopiesTypeOK
<1>3. NothingLost'
  <2> SUFFICES ASSUME NEW d \in heap', d \notin loose', d \notin inCopies'
               PROVE  \E p \in objects : ~isCopy[p] /\ d \in held'[p]
    BY <1>1 DEF NothingLost
  <2>1. CASE d = c
    BY <1>1, <2>1
  <2>2. CASE d # c
    <3>1. PICK p \in objects : ~isCopy[p] /\ d \in held[p]
      BY <1>1, <2>2 DEF CopiesInv, NothingLost
    <3> QED
      BY <1>1, <3>1
  <2> QED
    BY <2>1, <2>2
<1>4. ASSUME "taken" \notin mishaps PROVE loose' \subseteq heap' /\ OwnersApart'
  <2>1. OwnersApart /\ loose \subseteq heap
    BY <1>4 DEF CopiesInv
  <2>2. \A p \in objects : ~isCopy[p] => c \notin held[p]
    BY <1>1, <2>1 DEF OwnersApart
  <2>3. loose' \subseteq heap'
    BY <1>1, <2>1
  <2>4. ASSUME NEW q \in objects, ~isCopy[q]
        PROVE  held'[q] \subseteq heap' /\ held'[q] \cap loose' = {}
    <3>1. held[q] \subseteq heap /\ held[q] \cap loose = {}
      BY <2>1, <2>4 DEF OwnersApart
    <3> QED
      BY <1>1, <2>4, <3>1
  <2>5. ASSUME NEW q \in objects, ~isCopy[q], NEW r \in objects \ {q}, ~isCopy[r]
        PROVE  held'[q] \cap held'[r] = {}
    <3>1. held[q] \cap held[r] = {}
      BY <2>1, <2>5 DEF OwnersApart
    <3> QED
      BY <1>1, <2>2, <2>5, <3>1
  <2> QED
    BY <1>1, <2>3, <2>4, <2>5 DEF OwnersApart
<1>5. ASSUME {"outlived", "taken"} \cap mishaps = {} PROVE CopiesFollow'
  <2>1. CopiesFollow
    BY <1>5 DEF CopiesInv
  <2>2. \A p \in objects : c \notin held[p]
    BY <1>1, <2>1 DEF CopiesFollow
  <2>3. ASSUME NEW q \in objects
        PROVE  held'[q] \subseteq heap' /\ held'[q] \cap loose' = {}
    <3>1. held[q] \subseteq heap /\ held[q] \cap loose = {}
      BY <2>1 DEF CopiesFollow
    <3> QED
      BY <1>1, <3>1
  <2>4. ASSUME NEW q \in objects, ~isCopy[q], NEW r \in objects \ {q}, NEW d \in held'[q], d \in held'[r]
        PROVE  isCopy[r] /\ original[r] = q
    <3>1. d # c /\ d \in held[q] /\ d \in held[r]
      BY <1>1, <2>2, <2>4
    <3> QED
      BY <2>1, <2>4, <3>1 DEF CopiesFollow
  <2> QED
    BY <1>1, <2>3, <2>4 DEF CopiesFollow
<1> QED
  BY <1>1, <1>2, <1>3, <1>4, <1>5 DEF CopiesInv

LEMMA RemoveFromKeeps ==
  ASSUME CopiesInv, NEW o \in Objects, NEW c \in Observers, RemoveFrom(o, c) PROVE CopiesInv'
<1>0. CopiesTypeOK
  BY DEF CopiesInv
<1>1. /\ o \in objects /\ held[o] \subseteq heap /\ c \in held[o] /\ UNCHANGED <<objects, isCopy, original, heap>>
      /\ held'[o] = held[o] \ {c} /\ \A p \in objects \ {o} : held'[p] = held[p]
      /\ loose' = loose \cup {c} /\ inCopies' = inCopies \ {c}
      /\ mishaps' = mishaps \cup (IF \E p \in objects \ {o} : c \in held[p] THEN {"taken"} ELSE {})
  BY <1>0 DEF RemoveFrom, CopiesTypeOK, Note
<1>2. CopiesTypeOK'
  BY <1>0, <1>1 DEF RemoveFrom, CopiesTypeOK
<1>3. NothingLost'
  <2> SUFFICES ASSUME NEW d \in heap, d \notin loose', d \notin inCopies'
               PROVE  \E p \in objects : ~isCopy[p] /\ d \in held'[p]
    BY <1>1 DEF NothingLost
  <2>1. d # c /\ d \notin loose /\ d \notin inCopies
    BY <1>1
  <2>2. PICK p \in objects : ~isCopy[p] /\ d \in held[p]
    BY <2>1 DEF CopiesInv, NothingLost
  <2> QED
    BY <1>1, <2>1, <2>2
<1>4. "taken" \notin mishaps' => "taken" \notin mishaps /\ \A p \in objects \ {o} : c \notin held[p]
  BY <1>1
<1>5. ASSUME "taken" \notin mishaps' PROVE "twice" \notin mishaps' /\ loose' \subseteq heap' /\ OwnersApart'
  <2>1. OwnersApart /\ loose \subseteq heap /\ "twice" \notin mishaps
    BY <1>4, <1>5 DEF CopiesInv
  <2>2. ASSUME NEW q \in objects, ~isCopy[q]
        PROVE  held'[q] \subseteq heap /\ held'[q] \cap loose' = {}
    <3>1. held[q] \subseteq heap /\ held[q] \cap loose = {}
      BY <2>1, <2>2 DEF OwnersApart
    <3> QED
      BY <1>1, <1>4, <1>5, <3>1
  <2>3. ASSUME NEW q \in objects, ~isCopy[q], NEW r \in objects \ {q}, ~isCopy[r]
        PROVE  held'[q] \cap held'[r] = {}
    <3>1. held[q] \cap held[r] = {}
      BY <2>1, <2>3 DEF OwnersApart
    <3> QED
      BY <1>1, <3>1
  <2>4. OwnersApart'
    BY <1>1, <2>2, <2>3 DEF OwnersApart
  <2> QED
    BY <1>1, <2>1, <2>4
<1>6. ASSUME {"outlived", "taken"} \cap mishaps' = {} PROVE CopiesFollow'
  <2>1. CopiesFollow
    BY <1>1, <1>6 DEF CopiesInv
  <2>2. ASSUME NEW q \in objects
        PROVE  held'[q] \subseteq heap /\ held'[q] \cap loose' = {}
    <3>1. held[q] \subseteq heap /\ held[q] \cap loose = {}
      BY <2>1 DEF CopiesFollow
    <3> QED
      BY <1>1, <1>4, <1>6, <3>1
  <2>3. ASSUME NEW q \in objects, ~isCopy[q], NEW r \in objects \ {q}, NEW d \in held'[q], d \in held'[r]
        PROVE  isCopy[r] /\ original[r] = q
    <3>1. d \in held[q] /\ d \in held[r]
      BY <1>1, <2>3
    <3> QED
      BY <2>1, <2>3, <3>1 DEF CopiesFollow
  <2> QED
    BY <1>1, <2>2, <2>3 DEF CopiesFollow
<1> QED
  BY <1>2, <1>3, <1>5, <1>6 DEF CopiesInv

LEMMA DeleteLooseKeeps ==
  ASSUME CopiesInv, NEW c \in Observers, DeleteLoose(c) PROVE CopiesInv'
<1>1. /\ c \in loose /\ loose' = loose \ {c} /\ heap' = heap \ {c}
      /\ UNCHANGED <<objects, held, isCopy, original, inCopies, mishaps>>
  BY DEF DeleteLoose
<1>2. CopiesTypeOK' /\ NothingLost'
  BY <1>1 DEF CopiesInv, CopiesTypeOK, NothingLost
<1>3. ASSUME OwnersApart PROVE OwnersApart'
  BY <1>1, <1>3 DEF OwnersApart
<1>4. ASSUME CopiesFollow PROVE CopiesFollow'
  BY <1>1, <1>4 DEF CopiesFollow
<1>5. loose \subseteq heap => loose' \subseteq heap'
  BY <1>1
<1> QED
  BY <1>1, <1>2, <1>3, <1>4, <1>5 DEF CopiesInv

LEMMA CopiesInductive == ASSUME CopiesInv, [CopiesNext]_copiesVars PROVE CopiesInv'
<1>1. CASE UNCHANGED copiesVars
  <2>1. UNCHANGED <<objects, held, isCopy, original, heap, loose, inCopies, mishaps>>
    BY <1>1 DEF copiesVars
  <2>2. CopiesTypeOK' = CopiesTypeOK /\ NothingLost' = NothingLost
    BY <2>1 DEF CopiesTypeOK, NothingLost
  <2>3. OwnersApart' = OwnersApart /\ CopiesFollow' = CopiesFollow
    BY <2>1 DEF OwnersApart, CopiesFollow
  <2> QED
    BY <2>1, <2>2, <2>3 DEF CopiesInv
<1> QED
  BY <1>1, ConstructKeeps, DestroyKeeps, CopyConstructKeeps, AssignKeeps, InstallInKeeps,
     RemoveFromKeeps, DeleteLooseKeeps DEF CopiesNext

(***************************************************************************)
(* Lists, copies and callbacks keep their types; the originals stay apart from  *)
(* each other, and their callbacks among their copies.                        *)
(***************************************************************************)
THEOREM CopiesInvariance == CopiesSpec => []CopiesInv
<1>1. CopiesInit => CopiesInv
  BY DEF CopiesInit, CopiesInv, CopiesTypeOK, NothingLost, OwnersApart, CopiesFollow
<1>2. CopiesInv /\ [CopiesNext]_copiesVars => CopiesInv'
  BY CopiesInductive
<1> QED
  BY <1>1, <1>2, PTL DEF CopiesSpec

(***************************************************************************)
(* The variables of copied lists keep their types.                           *)
(***************************************************************************)
THEOREM CopiesTypeCorrect == CopiesSpec => []CopiesTypeOK
<1>1. CopiesInv => CopiesTypeOK
  BY DEF CopiesInv
<1> QED
  BY <1>1, CopiesInvariance, PTL

(***************************************************************************)
(* Lists call callbacks that there are, while originals outlive their copies    *)
(* and what remove() handed out was in one list only.                          *)
(***************************************************************************)
THEOREM CopiesCallLive == CopiesSpec => []CallsLive
<1>1. CopiesInv => CallsLive
  BY DEF CopiesInv, CallsLive, CopiesFollow
<1> QED
  BY <1>1, CopiesInvariance, PTL

(***************************************************************************)
(* Lists do not delete a callback twice, in whatever order originals and copies *)
(* go.                                                                      *)
(***************************************************************************)
THEOREM CopiesDeleteOnce == CopiesSpec => []DeletedOnce
<1>1. CopiesInv => DeletedOnce
  BY DEF CopiesInv, DeletedOnce
<1> QED
  BY <1>1, CopiesInvariance, PTL

(***************************************************************************)
(* Every callback has somebody who will delete it, unless it was installed in a *)
(* copy.                                                                    *)
(***************************************************************************)
THEOREM CopiesLoseNothing == CopiesSpec => []NothingLost
<1>1. CopiesInv => NothingLost
  BY DEF CopiesInv
<1> QED
  BY <1>1, CopiesInvariance, PTL

(***************************************************************************)
(* Every callback is deleted by one list, and is there for those that call it.  *)
(***************************************************************************)
THEOREM CopiesRightAlways == CopiesSpec => []CopiesRight
<1>1. CallsLive /\ DeletedOnce /\ NothingLost => CopiesRight
  BY DEF CopiesRight
<1> QED
  BY <1>1, CopiesCallLive, CopiesDeleteOnce, CopiesLoseNothing, PTL
===============================================================================
