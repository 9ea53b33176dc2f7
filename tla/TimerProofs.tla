----------------------------- MODULE TimerProofs -----------------------------
(***************************************************************************)
(* Proofs about the two sides of GOTimer.  Of GOTimer, for any number of      *)
(* events, receivers and requests and any time: who has an event's callback,  *)
(* what is no longer called, and what is called when.  Of TimerThread, for    *)
(* any number of users and POSIX threads: what holds as long as nobody was    *)
(* hasty.                                                                   *)
(***************************************************************************)
EXTENDS GOTimer, TimerThread, SequenceFacts

IdsOf(q) == {q[i].id : i \in 1 .. Len(q)}

Distinct(q) == \A i, j \in 1 .. Len(q) : q[i].id = q[j].id => i = j

(* r has the events of q, some of them perhaps gone. *)
Within(r, q) == \A k \in 1 .. Len(r) : \E j \in 1 .. Len(q) : r[k] = q[j]

-------------------------------------------------------------------------------
(***************************************************************************)
(* What the operations on the queue do to the events in it.                   *)
(***************************************************************************)
LEMMA InsertFacts ==
  ASSUME NEW q \in Seq(Event), NEW e \in Event, NEW r \in Inserted(q, e)
  PROVE  /\ r \in Seq(Event) /\ r # <<>>
         /\ IdsOf(r) = IdsOf(q) \cup {e.id}
         /\ Distinct(q) /\ e.id \notin IdsOf(q) => Distinct(r)
         /\ \A k \in 1 .. Len(r) : r[k] = e \/ \E j \in 1 .. Len(q) : r[k] = q[j]
<1>1. PICK i \in 1 .. Len(q) + 1 : r = InsertAt(q, i, e)
  BY DEF Inserted, Places
<1>2. r \in Seq(Event) /\ Len(r) = Len(q) + 1
  BY <1>1, InsertAtLength
<1>3. \A k \in 1 .. Len(q) + 1 :
        r[k] = IF k < i THEN q[k] ELSE IF k = i THEN e ELSE q[k - 1]
  BY <1>1, InsertAtElements
<1>4. Len(q) \in Nat /\ i \in Int
  BY LenProperties
<1>5. r # <<>>
  BY <1>2, <1>4, EmptySeq
<1>6. ASSUME NEW k \in 1 .. Len(r)
      PROVE  r[k] = e \/ \E j \in 1 .. Len(q) : r[k] = q[j]
  <2>1. CASE k < i
    BY <1>2, <1>3, <1>4, <2>1
  <2>2. CASE k = i
    BY <1>2, <1>3, <1>4, <2>2
  <2>3. CASE k > i
    <3>1. k \in 1 .. Len(q) + 1 /\ k - 1 \in 1 .. Len(q) /\ r[k] = q[k - 1]
      BY <1>2, <1>3, <1>4, <2>3
    <3> QED
      BY <3>1
  <2>4. k < i \/ k = i \/ k > i
    BY <1>4
  <2> QED
    BY <2>1, <2>2, <2>3, <2>4
<1>7. \A j \in 1 .. Len(q) : \E k \in 1 .. Len(r) : r[k] = q[j]
  <2> SUFFICES ASSUME NEW j \in 1 .. Len(q) PROVE \E k \in 1 .. Len(r) : r[k] = q[j]
    OBVIOUS
  <2>1. CASE j < i
    BY <1>2, <1>3, <1>4, <2>1
  <2>2. CASE ~(j < i)
    <3>1. j + 1 \in 1 .. Len(r) /\ r[j + 1] = q[j]
      BY <1>2, <1>3, <1>4, <2>2
    <3> QED
      BY <3>1
  <2> QED
    BY <2>1, <2>2
<1>8. i \in 1 .. Len(r) /\ r[i] = e
  BY <1>2, <1>3, <1>4
<1>9. IdsOf(r) = IdsOf(q) \cup {e.id}
  <2>1. ASSUME NEW x \in IdsOf(r) PROVE x \in IdsOf(q) \cup {e.id}
    BY <1>6, <2>1 DEF IdsOf
  <2>2. ASSUME NEW x \in IdsOf(q) PROVE x \in IdsOf(r)
    <3>1. PICK j \in 1 .. Len(q) : x = q[j].id
      BY <2>2 DEF IdsOf
    <3>2. PICK k \in 1 .. Len(r) : r[k] = q[j]
      BY <1>7
    <3> QED
      BY <3>1, <3>2 DEF IdsOf
  <2>3. e.id \in IdsOf(r)
    BY <1>8 DEF IdsOf
  <2> QED
    BY <2>1, <2>2, <2>3
<1>10. ASSUME Distinct(q), e.id \notin IdsOf(q) PROVE Distinct(r)
  <2> SUFFICES ASSUME NEW k \in 1 .. Len(r), NEW l \in 1 .. Len(r), r[k].id = r[l].id
               PROVE  k = l
    BY DEF Distinct
  <2> DEFINE At(m) == IF m < i THEN m ELSE m - 1
  <2>1. \A m \in 1 .. Len(r) : m # i => At(m) \in 1 .. Len(q) /\ r[m] = q[At(m)]
    BY <1>2, <1>3, <1>4
  <2>2. k = i <=> l = i
    BY <1>8, <1>10, <2>1 DEF IdsOf
  <2>3. CASE k # i
    <3>1. At(k) = At(l)
      BY <1>10, <2>1, <2>2, <2>3 DEF Distinct
    <3> QED
      BY <1>4, <2>2, <2>3, <3>1
  <2> QED
    BY <2>2, <2>3
<1> QED
  BY <1>2, <1>5, <1>6, <1>9, <1>10

LEMMA RemoveFacts ==
  ASSUME NEW q \in Seq(Event), NEW i \in 1 .. Len(q)
  PROVE  LET r == RemoveAt(q, i) IN
           /\ r \in Seq(Event)
           /\ Within(r, q)
           /\ Distinct(q) => Distinct(r) /\ IdsOf(r) = IdsOf(q) \ {q[i].id}
<1> DEFINE r == RemoveAt(q, i)
<1>1. /\ r \in Seq(Event) /\ Len(r) = Len(q) - 1
      /\ \A k \in 1 .. Len(q) - 1 : r[k] = IF k < i THEN q[k] ELSE q[k + 1]
  BY RemoveAtProperties, RemoveAtElements
<1>2. Len(q) \in Nat /\ i \in Int
  BY LenProperties
<1> HIDE DEF r
<1> DEFINE From(k) == IF k < i THEN k ELSE k + 1
<1>3. \A k \in 1 .. Len(r) : From(k) \in 1 .. Len(q) \ {i} /\ r[k] = q[From(k)]
  BY <1>1, <1>2
<1>4. \A k, l \in 1 .. Len(r) : From(k) = From(l) => k = l
  BY <1>2
<1>5. \A j \in 1 .. Len(q) \ {i} : \E k \in 1 .. Len(r) : From(k) = j
  <2> SUFFICES ASSUME NEW j \in 1 .. Len(q) \ {i}
               PROVE  \E k \in 1 .. Len(r) : From(k) = j
    OBVIOUS
  <2>1. CASE j < i
    BY <1>1, <1>2, <2>1
  <2>2. CASE j > i
    <3>1. j - 1 \in 1 .. Len(r) /\ From(j - 1) = j
      BY <1>1, <1>2, <2>2
    <3> QED
      BY <3>1
  <2> QED
    BY <1>2, <2>1, <2>2
<1> HIDE DEF From
<1>6. Within(r, q)
  BY <1>3 DEF Within
<1>7. ASSUME Distinct(q) PROVE Distinct(r)
  BY <1>3, <1>4, <1>7 DEF Distinct
<1>8. ASSUME Distinct(q) PROVE IdsOf(r) = IdsOf(q) \ {q[i].id}
  <2>1. ASSUME NEW x \in IdsOf(r) PROVE x \in IdsOf(q) \ {q[i].id}
    BY <1>3, <1>8, <2>1 DEF IdsOf, Distinct
  <2>2. ASSUME NEW x \in IdsOf(q) \ {q[i].id} PROVE x \in IdsOf(r)
    BY <1>3, <1>5, <2>2 DEF IdsOf
  <2> QED
    BY <2>1, <2>2
<1> QED
  BY <1>1, <1>6, <1>7, <1>8 DEF r

LEMMA TailFacts ==
  ASSUME NEW q \in Seq(Event), q # <<>>
  PROVE  /\ Tail(q) \in Seq(Event) /\ Head(q) \in Event
         /\ Within(Tail(q), q)
         /\ \E j \in 1 .. Len(q) : Head(q) = q[j]
         /\ Head(q).id \in IdsOf(q)
         /\ Distinct(q) =>
              Distinct(Tail(q)) /\ IdsOf(Tail(q)) = IdsOf(q) \ {Head(q).id}
<1>1. /\ Head(q) \in Event /\ Tail(q) \in Seq(Event) /\ Len(Tail(q)) = Len(q) - 1
      /\ \A k \in 1 .. Len(Tail(q)) : Tail(q)[k] = q[k + 1]
  BY HeadTailProperties
<1>2. Len(q) \in Nat \ {0} /\ Head(q) = q[1] /\ 1 \in 1 .. Len(q)
  BY EmptySeq
<1>3. \A k \in 1 .. Len(Tail(q)) : k + 1 \in 1 .. Len(q) /\ k + 1 # 1
  BY <1>1, <1>2
<1>4. \A j \in 1 .. Len(q) \ {1} : j - 1 \in 1 .. Len(Tail(q)) /\ q[j] = Tail(q)[j - 1]
  BY <1>1, <1>2
<1>5. Within(Tail(q), q)
  BY <1>1, <1>3 DEF Within
<1>6. Head(q).id \in IdsOf(q)
  BY <1>2 DEF IdsOf
<1>7. ASSUME Distinct(q) PROVE Distinct(Tail(q))
  BY <1>1, <1>3, <1>7 DEF Distinct
<1>8. ASSUME Distinct(q) PROVE IdsOf(Tail(q)) = IdsOf(q) \ {Head(q).id}
  <2>1. ASSUME NEW x \in IdsOf(Tail(q)) PROVE x \in IdsOf(q) \ {Head(q).id}
    BY <1>1, <1>2, <1>3, <1>8, <2>1 DEF IdsOf, Distinct
  <2>2. ASSUME NEW x \in IdsOf(q) \ {Head(q).id} PROVE x \in IdsOf(Tail(q))
    BY <1>2, <1>4, <2>2 DEF IdsOf
  <2> QED
    BY <2>1, <2>2
<1> QED
  BY <1>1, <1>2, <1>5, <1>6, <1>7, <1>8

LEMMA StoppedFacts ==
  ASSUME NEW q \in Seq(Event), NEW d \in Dests
  PROVE  LET r == Stopped(q, d) IN
           /\ r \in Seq(Event) /\ Len(r) = Len(q)
           /\ IdsOf(r) = IdsOf(q)
           /\ Distinct(q) => Distinct(r)
           /\ \A k \in 1 .. Len(r) :
                /\ r[k] \in Event
                /\ \/ r[k].tm = 0
                   \/ r[k].dest # d /\ (\E j \in 1 .. Len(q) : r[k] = q[j])
                /\ \E j \in 1 .. Len(q) : r[k].delay = q[j].delay /\ r[k].due = q[j].due
<1> DEFINE r == Stopped(q, d)
<1>1. Len(q) \in Nat /\ \A k \in 1 .. Len(q) : q[k] \in Event
  BY LenProperties, ElementOfSeq
<1>2. \A k \in 1 .. Len(q) : r[k] = IF q[k].dest = d THEN Halted(q[k]) ELSE q[k]
  BY DEF Stopped
<1>3. \A k \in 1 .. Len(q) : Halted(q[k]) \in Event /\ Halted(q[k]).tm = 0 /\ Halted(q[k]).id = q[k].id
  BY <1>1 DEF Halted, Event
<1>4. r \in [1 .. Len(q) -> Event] /\ DOMAIN r = 1 .. Len(q)
  BY <1>1, <1>2, <1>3 DEF Stopped
<1>5. r \in Seq(Event) /\ Len(r) = Len(q)
  <2>1. r \in Seq(Event)
    BY <1>1, <1>4, SeqDef
  <2> HIDE DEF r
  <2>2. Len(r) \in Nat /\ DOMAIN r = 1 .. Len(r)
    BY <2>1, LenProperties
  <2> QED
    BY <1>1, <1>4, <2>1, <2>2
<1> HIDE DEF r
<1>6. \A k \in 1 .. Len(q) : r[k].id = q[k].id /\ r[k] \in Event
  BY <1>1, <1>2, <1>3
<1>7. IdsOf(r) = IdsOf(q) /\ (Distinct(q) => Distinct(r))
  BY <1>5, <1>6 DEF IdsOf, Distinct
<1>8. ASSUME NEW k \in 1 .. Len(q) PROVE r[k].delay = q[k].delay /\ r[k].due = q[k].due
  <2>1. Halted(q[k]).delay = q[k].delay /\ Halted(q[k]).due = q[k].due
    BY DEF Halted
  <2> QED
    BY <1>2, <2>1
<1>9. \A k \in 1 .. Len(q) : r[k].tm = 0 \/ (r[k].dest # d /\ r[k] = q[k])
  BY <1>2, <1>3
<1> QED
  BY <1>5, <1>6, <1>7, <1>8, <1>9 DEF r

(* A new time is a number, and the rest is kept. *)
LEMMA ScheduledFacts ==
  ASSUME boot \in Boots, NEW r, r.dest \in Dests, r.delay \in Nat,
         r.oneshot \in BOOLEAN, NEW id \in Nat, NEW t \in Nat
  PROVE  /\ Scheduled(r, id, t) \in Event
         /\ Scheduled(r, id, t).id = id
         /\ Scheduled(r, id, t).dest = r.dest
<1>1. Cycle \in Nat \ {0} /\ boot \in Nat
  BY TimerAssumption DEF MinDelay
<1>2. Clamped(r.delay) \in Nat
  BY DEF Clamped, MinDelay
<1>3. Clock(t) \in Nat
  BY <1>1 DEF Clock
<1>4. (Clock(t) + Clamped(r.delay)) % Cycle \in Nat /\ t + Clamped(r.delay) \in Nat
  BY <1>1, <1>2, <1>3
<1> QED
  BY <1>2, <1>4 DEF Scheduled, Event

-------------------------------------------------------------------------------
(***************************************************************************)
(* The invariant.                                                            *)
(*                                                                         *)
(* Of an unnotified destination there are only stopped events in the queue.   *)
(* An event that was unnotified by its id is among the dead, or neither in    *)
(* the queue nor being delivered; and if it is among the dead while the first *)
(* event is looked at, it was put there after that look began.               *)
(***************************************************************************)
Silenced ==
  \A d \in Dests : quiet[d] = "yes" =>
    \A i \in 1 .. Len(queue) : queue[i].dest = d => queue[i].tm = 0

DeadOrGone ==
  \A id \in Ids : after[id] # -1 => id \in dead \/ id \notin Queued \cup InCall

Fresh == at = "pick" => \A id \in dead : after[id] = 0

NonEmpty == at = "pick" => queue # <<>>

Unborn == \A id \in Ids : id >= ticker => after[id] = -1

IInv ==
  /\ TypeOK /\ Custody /\ QuietAfterUnnotify /\ OneMoreAtMost
  /\ Silenced /\ DeadOrGone /\ Fresh /\ NonEmpty /\ Unborn

(* Custody and the others in terms of a queue, for the queue before and after
   a step. *)
Held(q, c, del, n) ==
  /\ Distinct(q)
  /\ IdsOf(q) \cap c = {} /\ del \cap (IdsOf(q) \cup c) = {}
  /\ del \cup IdsOf(q) \cup c = 1 .. n - 1

Hushed(q, f) ==
  \A d \in Dests : f[d] = "yes" => \A i \in 1 .. Len(q) : q[i].dest = d => q[i].tm = 0

LEMMA Unprimed ==
  /\ Custody <=> Held(queue, InCall, deleted, ticker)
  /\ Silenced <=> Hushed(queue, quiet)
  /\ Queued = IdsOf(queue)
BY DEF Custody, Held, Distinct, Queued, IdsOf, Silenced, Hushed

LEMMA Primed ==
  /\ Custody' <=> Held(queue', InCall', deleted', ticker')
  /\ Silenced' <=> Hushed(queue', quiet')
  /\ Queued' = IdsOf(queue')
BY DEF Custody, Held, Distinct, Queued, IdsOf, Silenced, Hushed

(* An operator of the queue keeps what is in it quiet. *)
LEMMA HushedWithin ==
  ASSUME NEW q, NEW r, NEW f, Hushed(q, f), Within(r, q)
  PROVE  Hushed(r, f)
BY DEF Hushed, Within

LEMMA MuddledType == Watch => muddled' \in BOOLEAN
BY DEF Watch

-------------------------------------------------------------------------------
(* The steps of others than the timer's thread. *)
LEMMA NotifyStep ==
  ASSUME IInv, Watch, NEW r \in Requests, Notify(r)
  PROVE  IInv'
<1> DEFINE e == Scheduled(r, ticker, time)
<1>0. /\ queue' \in Inserted(queue, e) /\ queue \in Seq(Event)
      /\ ticker \in Nat /\ ticker' = ticker + 1 /\ ticker \in 1 .. MaxEvents
      /\ r.dest \in Dests /\ MaxEvents \in Nat
  BY TimerAssumption DEF Notify, IInv, TypeOK
<1>1. e \in Event /\ e.id = ticker /\ e.dest = r.dest
  <2>1. r.dest \in Dests /\ r.delay \in Nat /\ r.oneshot \in BOOLEAN
    BY TimerAssumption
  <2> QED
    BY <1>0, <2>1, ScheduledFacts DEF IInv, TypeOK
<1> HIDE DEF e
<1>2. /\ queue' \in Seq(Event) /\ queue' # <<>>
      /\ IdsOf(queue') = IdsOf(queue) \cup {ticker}
      /\ Distinct(queue) /\ ticker \notin IdsOf(queue) => Distinct(queue')
      /\ \A k \in 1 .. Len(queue') :
           queue'[k] = e \/ \E j \in 1 .. Len(queue) : queue'[k] = queue[j]
  BY <1>0, <1>1, InsertFacts
<1>3. TypeOK'
  BY <1>0, <1>2, MuddledType DEF Notify, IInv, TypeOK
<1>4. InCall' = InCall /\ deleted' = deleted
  BY DEF Notify, InCall
<1>5. Custody'
  <2>1. Held(queue, InCall, deleted, ticker)
    BY Unprimed DEF IInv
  <2>2. ticker \notin 1 .. ticker - 1 /\ 1 .. (ticker + 1) - 1 = (1 .. ticker - 1) \cup {ticker}
    BY <1>0
  <2> QED
    BY <1>0, <1>2, <1>4, <2>1, <2>2, Primed DEF Held
<1>6. quiet' = [quiet EXCEPT ![r.dest] = "no"] /\ quiet \in [Dests -> {"no", "yes", "own"}]
  BY DEF Notify, IInv, TypeOK
<1>7. Silenced'
  <2>1. Hushed(queue, quiet)
    BY Unprimed DEF IInv
  <2> QED
    BY <1>0, <1>1, <1>2, <1>6, <2>1, Primed DEF Hushed
<1>8. QuietAfterUnnotify' /\ OneMoreAtMost'
  BY <1>6 DEF Notify, IInv, QuietAfterUnnotify, OneMoreAtMost
<1>9. DeadOrGone'
  <2>1. Queued' = Queued \cup {ticker}
    BY <1>2, Primed, Unprimed
  <2>2. after[ticker] = -1
    BY <1>0 DEF IInv, Unborn, Ids
  <2> QED
    BY <1>4, <2>1, <2>2 DEF Notify, IInv, DeadOrGone
<1>10. Fresh' /\ NonEmpty' /\ Unborn'
  BY <1>0 DEF Notify, GateOpen, IInv, Fresh, NonEmpty, Unborn, Ids
<1> QED
  BY <1>3, <1>5, <1>7, <1>8, <1>9, <1>10 DEF IInv

LEMMA UnnotifyStep ==
  ASSUME IInv, Watch, NEW id \in Ids, Unnotify(id)
  PROVE  IInv'
<1> USE DEF Unnotify, IInv
<1>1. TypeOK'
  BY MuddledType DEF TypeOK
<1>2. InCall' = InCall /\ Queued' = Queued
  BY DEF InCall, Queued
<1>3. Custody' /\ Silenced' /\ QuietAfterUnnotify' /\ NonEmpty'
  BY <1>2 DEF Custody, Silenced, QuietAfterUnnotify, NonEmpty
<1>4. \A i \in Ids : after'[i] = IF i = id THEN 0 ELSE after[i]
  BY DEF TypeOK
<1>5. OneMoreAtMost' /\ DeadOrGone' /\ Fresh'
  BY <1>2, <1>4 DEF OneMoreAtMost, DeadOrGone, Fresh, TypeOK
<1>6. Unborn'
  BY <1>4 DEF Unborn, TypeOK, Ids
<1> QED
  BY <1>1, <1>3, <1>5, <1>6

LEMMA UnnotifyDestStep ==
  ASSUME IInv, Watch, NEW d \in Dests, UnnotifyDest(d)
  PROVE  IInv'
<1>0. queue' = Stopped(queue, d) /\ queue \in Seq(Event)
  BY DEF UnnotifyDest, IInv, TypeOK
<1>1. /\ queue' \in Seq(Event)
      /\ IdsOf(queue') = IdsOf(queue)
      /\ Distinct(queue) => Distinct(queue')
      /\ \A k \in 1 .. Len(queue') :
           \/ queue'[k].tm = 0
           \/ queue'[k].dest # d /\ (\E j \in 1 .. Len(queue) : queue'[k] = queue[j])
  BY <1>0, StoppedFacts
<1>2. /\ quiet \in [Dests -> {"no", "yes", "own"}]
      /\ quiet' = [quiet EXCEPT ![d] = IF at = "call" /\ cur.dest = d THEN "own" ELSE "yes"]
  BY DEF UnnotifyDest, Quieten, IInv, TypeOK
<1>3. TypeOK'
  BY <1>1, <1>2, MuddledType DEF UnnotifyDest, IInv, TypeOK
<1>4. InCall' = InCall /\ Queued' = Queued
  BY <1>1, Primed, Unprimed DEF UnnotifyDest, InCall
<1>5. Custody'
  <2>1. Held(queue, InCall, deleted, ticker)
    BY Unprimed DEF IInv
  <2> QED
    BY <1>1, <1>4, <2>1, Primed DEF Held, UnnotifyDest
<1>6. Silenced'
  <2>1. Hushed(queue, quiet)
    BY Unprimed DEF IInv
  <2> QED
    BY <1>1, <1>2, <2>1, Primed DEF Hushed
<1>7. QuietAfterUnnotify'
  BY <1>2 DEF UnnotifyDest, IInv, QuietAfterUnnotify, TypeOK, Event
<1>8. OneMoreAtMost' /\ DeadOrGone' /\ Fresh' /\ NonEmpty' /\ Unborn'
  BY <1>4 DEF UnnotifyDest, GateOpen, IInv, OneMoreAtMost, DeadOrGone, Fresh, NonEmpty, Unborn
<1> QED
  BY <1>3, <1>5, <1>6, <1>7, <1>8 DEF IInv

LEMMA ClearStep ==
  ASSUME IInv, Watch, Clear
  PROVE  IInv'
<1>1. queue' = <<>> /\ <<>> \in Seq(Event) /\ Len(queue') = 0
  BY EmptySeq DEF Clear
<1>2. IdsOf(queue') = {} /\ Distinct(queue') /\ InCall' = InCall
  BY <1>1 DEF IdsOf, Distinct, Clear, InCall
<1>3. Held(queue, InCall, deleted, ticker) /\ Queued = IdsOf(queue)
  BY Unprimed DEF IInv
<1>4. Custody'
  <2>1. deleted' = deleted \cup IdsOf(queue) /\ ticker' = ticker
    BY <1>3 DEF Clear
  <2> QED
    BY <1>2, <1>3, <2>1, Primed DEF Held
<1>5. TypeOK'
  <2>1. IdsOf(queue) \subseteq Ids
    <3>1. 1 .. ticker - 1 \subseteq Ids
      BY TimerAssumption DEF IInv, TypeOK, Ids
    <3> QED
      BY <1>3, <3>1 DEF Held
  <2> QED
    BY <1>1, <1>3, <2>1, MuddledType DEF Clear, IInv, TypeOK
<1>6. Silenced' /\ DeadOrGone'
  <2>1. Queued' = {}
    BY <1>2, Primed
  <2> QED
    BY <1>1, <1>2, <2>1 DEF Silenced, DeadOrGone, Clear, IInv
<1>7. QuietAfterUnnotify' /\ OneMoreAtMost' /\ Fresh' /\ NonEmpty' /\ Unborn'
  BY DEF Clear, GateOpen, IInv, QuietAfterUnnotify, OneMoreAtMost, Fresh, NonEmpty, Unborn
<1> QED
  BY <1>4, <1>5, <1>6, <1>7 DEF IInv

(* What changes neither the queue nor who has the callbacks. *)
LEMMA StillStep ==
  ASSUME IInv, Watch, SetDone \/ Tick \/ Enter \/ Leave \/ Loop \/ Buried \/ Sleep
  PROVE  IInv'
<1>1. /\ UNCHANGED <<boot, queue, ticker, cur, since, deleted, after, quiet, dead>>
      /\ (at # "call" /\ at' # "call") \/ at' = at
      /\ at' = "pick" => at = "pick" \/ (dead = {} /\ queue # <<>>)
  BY DEF SetDone, Tick, Enter, Leave, Loop, Buried, Sleep, Go
<1>2. time' \in Nat /\ done' \in BOOLEAN /\ at' \in Control
  BY DEF SetDone, Tick, Enter, Leave, Loop, Buried, Sleep, Go, IInv, TypeOK, Control
<1>3. TypeOK'
  BY <1>1, <1>2, MuddledType DEF IInv, TypeOK
<1>4. InCall' = InCall /\ Queued' = Queued
  BY <1>1 DEF InCall, Queued
<1>5. Custody' /\ Silenced' /\ QuietAfterUnnotify' /\ OneMoreAtMost'
  BY <1>1, <1>4 DEF IInv, Custody, Silenced, QuietAfterUnnotify, OneMoreAtMost
<1>6. DeadOrGone' /\ Fresh' /\ NonEmpty' /\ Unborn'
  BY <1>1, <1>4 DEF IInv, DeadOrGone, Fresh, NonEmpty, Unborn
<1> QED
  BY <1>3, <1>5, <1>6 DEF IInv

-------------------------------------------------------------------------------
(* The steps of the timer's thread. *)
LEMMA BuryStep ==
  ASSUME IInv, Watch, NEW id \in Ids, Bury(id)
  PROVE  IInv'
<1>0. /\ queue \in Seq(Event) /\ Held(queue, InCall, deleted, ticker)
      /\ Queued = IdsOf(queue) /\ Hushed(queue, quiet)
  BY Unprimed DEF IInv, TypeOK
<1>1. /\ at = "sweep" /\ dead' = dead \ {id}
      /\ UNCHANGED <<boot, time, done, ticker, at, cur, since, after, quiet>>
      /\ InCall = {} /\ InCall' = {}
  BY DEF Bury, InCall
<1>2. /\ queue' \in Seq(Event) /\ Within(queue', queue) /\ Distinct(queue')
      /\ IdsOf(queue') = IdsOf(queue) \ {id}
      /\ deleted' = deleted \cup (IdsOf(queue) \cap {id})
  <2>1. CASE id \notin Queued
    <3>1. queue' = queue /\ deleted' = deleted
      BY <1>0, <2>1 DEF Bury, IdsOf
    <3> QED
      BY <1>0, <2>1, <3>1 DEF Held, Within
  <2>2. CASE id \in Queued
    <3>1. PICK i \in 1 .. Len(queue) :
            queue[i].id = id /\ queue' = RemoveAt(queue, i) /\ deleted' = deleted \cup {id}
      BY <2>2 DEF Bury
    <3>2. Distinct(queue)
      BY <1>0 DEF Held
    <3> QED
      BY <1>0, <2>2, <3>1, <3>2, RemoveFacts
  <2> QED
    BY <2>1, <2>2
<1>3. TypeOK'
  BY <1>1, <1>2, MuddledType DEF IInv, TypeOK
<1>4. Custody'
  BY <1>0, <1>1, <1>2, Primed DEF Held
<1>5. Silenced'
  BY <1>0, <1>1, <1>2, HushedWithin, Primed
<1>6. Queued' = Queued \ {id}
  BY <1>0, <1>2, Primed
<1>7. DeadOrGone' /\ Fresh' /\ NonEmpty' /\ Unborn' /\ QuietAfterUnnotify' /\ OneMoreAtMost'
  BY <1>1, <1>6
     DEF IInv, DeadOrGone, Fresh, NonEmpty, Unborn, QuietAfterUnnotify, OneMoreAtMost
<1> QED
  BY <1>3, <1>4, <1>5, <1>7 DEF IInv

(* The first event leaves the queue: for the three steps that take it. *)
LEMMA FirstLeaves ==
  ASSUME IInv, at = "pick"
  PROVE  /\ Tail(queue) \in Seq(Event) /\ First \in Event
         /\ \E j \in 1 .. Len(queue) : First = queue[j]
         /\ Distinct(Tail(queue)) /\ Within(Tail(queue), queue)
         /\ First.id \in IdsOf(queue) /\ First.id \in Ids
         /\ IdsOf(Tail(queue)) = IdsOf(queue) \ {First.id}
         /\ Held(queue, {}, deleted, ticker) /\ Queued = IdsOf(queue)
         /\ Hushed(queue, quiet) /\ InCall = {}
<1>1. /\ queue \in Seq(Event) /\ queue # <<>> /\ InCall = {}
      /\ Held(queue, InCall, deleted, ticker) /\ Queued = IdsOf(queue)
      /\ Hushed(queue, quiet)
  BY Unprimed DEF IInv, TypeOK, NonEmpty, InCall
<1>2. Distinct(queue)
  BY <1>1 DEF Held
<1>3. 1 .. ticker - 1 \subseteq Ids
  BY TimerAssumption DEF IInv, TypeOK, Ids
<1>4. IdsOf(queue) \subseteq Ids
  BY <1>1, <1>3 DEF Held
<1> QED
  BY <1>1, <1>2, <1>4, TailFacts DEF First

LEMMA DropStep ==
  ASSUME IInv, Watch, Drop
  PROVE  IInv'
<1>1. /\ at = "pick" /\ at' = "top" /\ queue' = Tail(queue)
      /\ deleted' = deleted \cup {First.id}
      /\ UNCHANGED <<boot, time, dead, done, ticker, cur, since, after, quiet>>
      /\ InCall' = {}
  BY DEF Drop, Ripe, Go, InCall
<1>2. TypeOK'
  BY <1>1, FirstLeaves, MuddledType DEF IInv, TypeOK, Control
<1>3. Custody'
  BY <1>1, FirstLeaves, Primed DEF Held
<1>4. Silenced'
  BY <1>1, FirstLeaves, HushedWithin, Primed
<1>5. Queued' = Queued \ {First.id}
  BY <1>1, FirstLeaves, Primed
<1>6. DeadOrGone' /\ Fresh' /\ NonEmpty' /\ Unborn' /\ QuietAfterUnnotify' /\ OneMoreAtMost'
  BY <1>1, <1>5
     DEF IInv, DeadOrGone, Fresh, NonEmpty, Unborn, QuietAfterUnnotify, OneMoreAtMost
<1> QED
  BY <1>2, <1>3, <1>4, <1>6 DEF IInv

LEMMA PutBackStep ==
  ASSUME IInv, Watch, PutBack
  PROVE  IInv'
<1>1. /\ at = "pick" /\ at' = "out" /\ queue' \in Inserted(Tail(queue), First)
      /\ UNCHANGED <<boot, time, dead, done, ticker, cur, since, deleted, after, quiet>>
      /\ InCall' = {}
  BY DEF PutBack, Ripe, Go, InCall
<1>2. /\ queue' \in Seq(Event) /\ Distinct(queue')
      /\ IdsOf(queue') = IdsOf(queue)
      /\ \A k \in 1 .. Len(queue') :
           queue'[k] = First \/ \E j \in 1 .. Len(Tail(queue)) : queue'[k] = Tail(queue)[j]
  <2> DEFINE q == Tail(queue)
             e == First
  <2>1. /\ q \in Seq(Event) /\ e \in Event /\ queue' \in Inserted(q, e)
        /\ Distinct(q) /\ e.id \notin IdsOf(q) /\ IdsOf(q) \cup {e.id} = IdsOf(queue)
    BY <1>1, FirstLeaves
  <2> HIDE DEF q, e
  <2>2. /\ queue' \in Seq(Event)
        /\ IdsOf(queue') = IdsOf(q) \cup {e.id}
        /\ Distinct(q) /\ e.id \notin IdsOf(q) => Distinct(queue')
        /\ \A k \in 1 .. Len(queue') :
             queue'[k] = e \/ \E j \in 1 .. Len(q) : queue'[k] = q[j]
    BY <2>1, InsertFacts
  <2>3. Distinct(queue') /\ IdsOf(queue') = IdsOf(queue)
    BY <2>1, <2>2
  <2> QED
    BY <2>2, <2>3 DEF q, e
<1>3. Within(queue', queue)
  BY <1>1, <1>2, FirstLeaves DEF Within
<1>4. TypeOK'
  BY <1>1, <1>2, MuddledType DEF IInv, TypeOK, Control
<1>5. Custody'
  BY <1>1, <1>2, FirstLeaves, Primed DEF Held
<1>6. Silenced'
  BY <1>1, <1>3, FirstLeaves, HushedWithin, Primed
<1>7. Queued' = Queued /\ InCall = {}
  BY <1>1, <1>2, FirstLeaves, Primed
<1>8. DeadOrGone' /\ Fresh' /\ NonEmpty' /\ Unborn' /\ QuietAfterUnnotify' /\ OneMoreAtMost'
  BY <1>1, <1>7
     DEF IInv, DeadOrGone, Fresh, NonEmpty, Unborn, QuietAfterUnnotify, OneMoreAtMost
<1> QED
  BY <1>4, <1>5, <1>6, <1>8 DEF IInv

LEMMA CallStep ==
  ASSUME IInv, Watch, Call
  PROVE  IInv'
<1>1. /\ at = "pick" /\ at' = "call" /\ queue' = Tail(queue)
      /\ cur' = First /\ since' = time /\ First.tm # 0
      /\ after' = [after EXCEPT ![First.id] =
                     IF after[First.id] \in {0, 1} THEN after[First.id] + 1 ELSE after[First.id]]
      /\ UNCHANGED <<boot, time, dead, done, ticker, deleted, quiet>>
      /\ InCall' = {First.id}
  BY DEF Call, Ripe, Begin, Go, InCall
<1>2. after \in [Ids -> -1 .. 2] /\ First.id \in Ids
  BY <1>1, FirstLeaves DEF IInv, TypeOK
<1>3. after[First.id] = -1 \/ (after[First.id] = 0 /\ First.id \in dead)
  BY <1>1, <1>2, FirstLeaves DEF IInv, DeadOrGone, Fresh
<1>4. /\ after' \in [Ids -> -1 .. 2]
      /\ \A id \in Ids : after'[id] =
           IF id = First.id /\ after[id] = 0 THEN 1 ELSE after[id]
  BY <1>1, <1>2, <1>3
<1>5. TypeOK'
  BY <1>1, <1>4, FirstLeaves, MuddledType DEF IInv, TypeOK, Control
<1>6. Custody'
  BY <1>1, FirstLeaves, Primed DEF Held
<1>7. Silenced'
  BY <1>1, FirstLeaves, HushedWithin, Primed
<1>8. QuietAfterUnnotify'
  <2>1. quiet[First.dest] # "yes"
    BY <1>1, FirstLeaves DEF Hushed, Event
  <2> QED
    BY <1>1, <2>1 DEF QuietAfterUnnotify
<1>9. Queued' \cup InCall' = Queued \cup InCall
  BY <1>1, FirstLeaves, Primed
<1>10. OneMoreAtMost' /\ DeadOrGone'
  BY <1>1, <1>3, <1>4, <1>9 DEF IInv, OneMoreAtMost, DeadOrGone
<1>11. Fresh' /\ NonEmpty'
  BY <1>1 DEF Fresh, NonEmpty
<1>12. Unborn'
  BY <1>1, <1>4 DEF IInv, Unborn
<1> QED
  BY <1>5, <1>6, <1>7, <1>8, <1>10, <1>11, <1>12 DEF IInv

(* The callback has returned: the event goes back into the queue, or it goes. *)
LEMMA BlankIsEvent == Blank \in Event
BY TimerAssumption DEF Blank, Event, MinDelay

LEMMA RepeatStep ==
  ASSUME IInv, Watch, Repeat
  PROVE  IInv'
<1> DEFINE e == Scheduled(cur, cur.id, since)
<1>1. /\ at = "call" /\ at' = "top" /\ queue' \in Inserted(queue, e)
      /\ cur' = Blank /\ since' = 0
      /\ UNCHANGED <<boot, time, dead, done, ticker, deleted, after, quiet>>
      /\ InCall = {cur.id} /\ InCall' = {}
  BY DEF Repeat, Again, Forget, Go, InCall
<1>2. e \in Event /\ e.id = cur.id /\ e.dest = cur.dest
  <2>1. /\ cur.dest \in Dests /\ cur.delay \in Nat /\ cur.oneshot \in BOOLEAN
        /\ cur.id \in Nat /\ since \in Nat /\ boot \in Boots
    BY DEF IInv, TypeOK, Event
  <2> QED
    BY <2>1, ScheduledFacts
<1> HIDE DEF e
<1>3. /\ queue \in Seq(Event) /\ Held(queue, {cur.id}, deleted, ticker)
      /\ Queued = IdsOf(queue) /\ Hushed(queue, quiet)
  BY <1>1, Unprimed DEF IInv, TypeOK
<1>4. Distinct(queue) /\ cur.id \notin IdsOf(queue)
  BY <1>3 DEF Held
<1>5. /\ queue' \in Seq(Event) /\ Distinct(queue')
      /\ IdsOf(queue') = IdsOf(queue) \cup {cur.id}
      /\ \A k \in 1 .. Len(queue') :
           queue'[k] = e \/ \E j \in 1 .. Len(queue) : queue'[k] = queue[j]
  BY <1>1, <1>2, <1>3, <1>4, InsertFacts
<1>6. TypeOK'
  BY <1>1, <1>5, BlankIsEvent, MuddledType DEF IInv, TypeOK, Control
<1>7. Custody'
  BY <1>1, <1>3, <1>5, Primed DEF Held
<1>8. quiet[cur.dest] # "yes"
  BY <1>1 DEF IInv, QuietAfterUnnotify
<1>9. Silenced'
  BY <1>1, <1>2, <1>3, <1>5, <1>8, Primed DEF Hushed
<1>10. Queued' = Queued \cup InCall
  BY <1>1, <1>3, <1>5, Primed
<1>11. DeadOrGone' /\ Fresh' /\ NonEmpty' /\ Unborn' /\ QuietAfterUnnotify' /\ OneMoreAtMost'
  BY <1>1, <1>10
     DEF IInv, DeadOrGone, Fresh, NonEmpty, Unborn, QuietAfterUnnotify, OneMoreAtMost
<1> QED
  BY <1>6, <1>7, <1>9, <1>11 DEF IInv

LEMMA ExpireStep ==
  ASSUME IInv, Watch, Expire
  PROVE  IInv'
<1>1. /\ at = "call" /\ at' = "top" /\ cur' = Blank /\ since' = 0
      /\ deleted' = deleted \cup {cur.id}
      /\ UNCHANGED <<boot, time, queue, dead, done, ticker, after, quiet>>
      /\ InCall = {cur.id} /\ InCall' = {} /\ Queued' = Queued
  BY DEF Expire, Forget, Go, InCall, Queued
<1>2. Held(queue, {cur.id}, deleted, ticker)
  BY <1>1, Unprimed DEF IInv
<1>3. cur.id \in Ids
  <2>1. cur.id \in 1 .. ticker - 1
    BY <1>2 DEF Held
  <2> QED
    BY <2>1, TimerAssumption DEF IInv, TypeOK, Ids
<1>4. TypeOK'
  BY <1>1, <1>3, BlankIsEvent, MuddledType DEF IInv, TypeOK, Control
<1>5. Custody'
  BY <1>1, <1>2, Primed DEF Held
<1>6. Silenced' /\ DeadOrGone' /\ Fresh' /\ NonEmpty' /\ Unborn'
  BY <1>1 DEF IInv, Silenced, DeadOrGone, Fresh, NonEmpty, Unborn
<1>7. QuietAfterUnnotify' /\ OneMoreAtMost'
  BY <1>1 DEF IInv, QuietAfterUnnotify, OneMoreAtMost
<1> QED
  BY <1>4, <1>5, <1>6, <1>7 DEF IInv

-------------------------------------------------------------------------------
LEMMA InitHolds == Init => IInv
<1> SUFFICES ASSUME Init PROVE IInv
  OBVIOUS
<1>1. <<>> \in Seq(Event) /\ Len(queue) = 0
  BY EmptySeq DEF Init
<1>2. TypeOK
  <2>1. boot \in Boots /\ time \in Nat /\ queue \in Seq(Event) /\ cur \in Event
    BY <1>1, BlankIsEvent DEF Init
  <2>2. ticker \in 1 .. MaxEvents + 1
    BY TimerAssumption DEF Init
  <2>3. after \in [Ids -> -1 .. 2] /\ quiet \in [Dests -> {"no", "yes", "own"}]
    BY DEF Init
  <2>4. dead \subseteq Ids /\ deleted \subseteq Ids /\ since \in Nat /\ at \in Control
    BY DEF Init, Control
  <2>5. done \in BOOLEAN /\ muddled \in BOOLEAN
    BY DEF Init
  <2> QED
    BY <2>1, <2>2, <2>3, <2>4, <2>5 DEF TypeOK
<1>3. Queued = {} /\ InCall = {} /\ 1 .. ticker - 1 = {}
  BY <1>1 DEF Init, Queued, InCall
<1>4. Custody
  BY <1>1, <1>3 DEF Init, Custody
<1>5. QuietAfterUnnotify /\ OneMoreAtMost /\ Silenced
  BY <1>1 DEF Init, QuietAfterUnnotify, OneMoreAtMost, Silenced
<1>6. DeadOrGone /\ Fresh /\ NonEmpty /\ Unborn
  BY <1>3 DEF Init, DeadOrGone, Fresh, NonEmpty, Unborn
<1> QED
  BY <1>2, <1>4, <1>5, <1>6 DEF IInv

LEMMA Invariance == Spec => []IInv
<1>1. IInv /\ [Next]_vars => IInv'
  <2> SUFFICES ASSUME IInv, [Next]_vars PROVE IInv'
    OBVIOUS
  <2>1. CASE Outside /\ Watch
    BY <2>1, NotifyStep, UnnotifyStep, UnnotifyDestStep, ClearStep, StillStep DEF Outside
  <2>2. CASE Action /\ Watch
    BY <2>2, StillStep, BuryStep, DropStep, PutBackStep, CallStep, RepeatStep, ExpireStep
       DEF Action
  <2>3. CASE UNCHANGED vars
    <3>1. InCall' = InCall /\ Queued' = Queued
      BY <2>3 DEF vars, code, InCall, Queued
    <3>2. TypeOK'
      BY <2>3 DEF vars, code, IInv, TypeOK
    <3> QED
      BY <2>3, <3>1, <3>2 DEF vars, code, IInv, Custody, QuietAfterUnnotify, OneMoreAtMost,
        Silenced, DeadOrGone, Fresh, NonEmpty, Unborn
  <2> QED
    BY <2>1, <2>2, <2>3 DEF Next
<1> QED
  BY <1>1, InitHolds, PTL DEF Spec

(* The types of the timer, of its queue and of the events in it. *)
THEOREM TimerTypeCorrect == Spec => []TypeOK
<1>1. IInv => TypeOK
  BY DEF IInv
<1> QED
  BY <1>1, Invariance, PTL

(***************************************************************************)
(* The timer owns the callbacks it was given: each is in the queue, running   *)
(* or deleted, whatever is notified, unnotified or cleared, from wherever.    *)
(***************************************************************************)
THEOREM TimerCustody == Spec => []Custody
<1>1. IInv => Custody
  BY DEF IInv
<1> QED
  BY <1>1, Invariance, PTL

(***************************************************************************)
(* unnotify(dest) from outside of dest's callbacks is final: a receiver may   *)
(* be destroyed when it has returned.                                         *)
(***************************************************************************)
THEOREM TimerQuiet == Spec => []QuietAfterUnnotify
<1>1. IInv => QuietAfterUnnotify
  BY DEF IInv
<1> QED
  BY <1>1, Invariance, PTL

(* unnotify(id) lets one delivery pass at most. *)
THEOREM TimerOneMore == Spec => []OneMoreAtMost
<1>1. IInv => OneMoreAtMost
  BY DEF IInv
<1> QED
  BY <1>1, Invariance, PTL

-------------------------------------------------------------------------------
(***************************************************************************)
(* The clock.  What it shows is the true time modulo Cycle, and differences   *)
(* below half of Cycle survive the subtraction.                              *)
(***************************************************************************)
LEMMA Division ==
  ASSUME NEW x \in Int, NEW C \in Nat \ {0}
  PROVE  x = C * (x \div C) + (x % C) /\ x % C \in 0 .. C - 1 /\ x \div C \in Int
OBVIOUS

LEMMA Remainder ==
  ASSUME NEW r \in Int, NEW k \in Int, NEW C \in Nat \ {0}, 0 <= r, r < C
  PROVE  (C * k + r) % C = r
OBVIOUS

LEMMA OneQuotient ==
  ASSUME NEW q \in Int, NEW p \in Int, NEW s \in Int, NEW r \in Int, NEW C \in Nat \ {0},
         0 <= r, r < C, 0 <= s, s < C, C * q + r = C * p + s
  PROVE  q = p /\ r = s
OBVIOUS

LEMMA Difference ==
  ASSUME NEW x \in Int, NEW y \in Int, NEW C \in Nat \ {0}, 0 <= x - y, x - y < C
  PROVE  ((x % C) - (y % C)) % C = x - y
<1> DEFINE qx == x \div C
           rx == x % C
           qy == y \div C
           ry == y % C
<1>1. x = C * qx + rx /\ rx \in 0 .. C - 1 /\ qx \in Int
  BY Division
<1>2. y = C * qy + ry /\ ry \in 0 .. C - 1 /\ qy \in Int
  BY Division
<1> HIDE DEF qx, rx, qy, ry
<1>3. CASE rx >= ry
  <2>1. rx - ry \in Int /\ 0 <= rx - ry /\ rx - ry < C /\ qx - qy \in Int
    BY <1>1, <1>2, <1>3
  <2>2. C * (qx - qy) + (rx - ry) = C * 0 + (x - y)
    BY <1>1, <1>2
  <2>3. rx - ry = x - y
    BY <2>1, <2>2, OneQuotient
  <2>4. (C * 0 + (rx - ry)) % C = rx - ry
    <3>1. 0 \in Int
      OBVIOUS
    <3> QED
      BY <2>1, <3>1, Remainder
  <2>5. C * 0 + (rx - ry) = rx - ry
    BY <2>1
  <2> QED
    BY <2>3, <2>4, <2>5 DEF rx, ry
<1>4. CASE rx < ry
  <2>1. /\ rx - ry + C \in Int /\ 0 <= rx - ry + C /\ rx - ry + C < C
        /\ qx - qy - 1 \in Int /\ -1 \in Int
    BY <1>1, <1>2, <1>4
  <2>2. C * (qx - qy - 1) + (rx - ry + C) = C * 0 + (x - y)
    BY <1>1, <1>2
  <2>3. rx - ry + C = x - y
    BY <2>1, <2>2, OneQuotient
  <2>4. (C * (-1) + (rx - ry + C)) % C = rx - ry + C
    BY <2>1, Remainder
  <2>5. C * (-1) + (rx - ry + C) = rx - ry
    BY <1>1, <1>2
  <2> QED
    BY <2>3, <2>4, <2>5 DEF rx, ry
<1> QED
  BY <1>1, <1>2, <1>3, <1>4

LEMMA SumOfRemainder ==
  ASSUME NEW x \in Int, NEW d \in Int, NEW C \in Nat \ {0}
  PROVE  ((x % C) + d) % C = (x + d) % C
<1> DEFINE q == x \div C
           r == x % C
           p == (r + d) \div C
           s == (r + d) % C
<1>1. x = C * q + r /\ r \in 0 .. C - 1 /\ q \in Int
  BY Division
<1>2. r + d = C * p + s /\ s \in 0 .. C - 1 /\ p \in Int
  <2>1. r + d \in Int
    BY <1>1
  <2> HIDE DEF r
  <2> QED
    BY <2>1, Division
<1> HIDE DEF q, p, s
<1>3. x + d = C * (q + p) + s /\ q + p \in Int /\ s \in Int /\ 0 <= s /\ s < C
  BY <1>1, <1>2
<1>4. (C * (q + p) + s) % C = s
  BY <1>3, Remainder
<1> QED
  BY <1>3, <1>4 DEF s

(* What Remaining computes of an event that is not due for more than the
   threshold. *)
LEMMA EarlyRemains ==
  ASSUME boot \in Boots, NEW t \in Nat, NEW due \in Nat,
         Threshold < due - t, due <= t + MaxDelay
  PROVE  Remaining((boot + due) % Cycle, t) > Threshold
<1>1. Cycle \in Nat \ {0} /\ boot \in Int /\ MaxDelay \in Nat /\ 2 * MaxDelay < Cycle
  BY TimerAssumption DEF MinDelay
<1> DEFINE x == boot + due
           y == boot + t
<1>2. x \in Int /\ y \in Int /\ x - y = due - t /\ 0 <= x - y /\ x - y < Cycle
  BY <1>1 DEF Threshold
<1>3. ((x % Cycle) - (y % Cycle)) % Cycle = x - y
  <2> HIDE DEF x, y
  <2> QED
    BY <1>1, <1>2, Difference
<1>4. 2 * (due - t) < Cycle /\ due - t \in Int
  BY <1>1
<1> QED
  BY <1>2, <1>3, <1>4 DEF Remaining, Clock

(* An event that was scheduled is due within MaxDelay, and its time says when. *)
LEMMA ScheduledPunctual ==
  ASSUME boot \in Boots, NEW r, r.delay \in Nat, r.delay <= MaxDelay, NEW id, NEW t \in Nat
  PROVE  /\ Scheduled(r, id, t).delay <= MaxDelay
         /\ Scheduled(r, id, t).due <= t + MaxDelay
         /\ Scheduled(r, id, t).tm = (boot + Scheduled(r, id, t).due) % Cycle
<1> DEFINE d == Clamped(r.delay)
<1>1. Cycle \in Nat \ {0} /\ boot \in Int /\ MaxDelay \in Nat /\ MinDelay <= MaxDelay
  BY TimerAssumption DEF MinDelay
<1>2. d \in Nat /\ d <= MaxDelay
  BY <1>1 DEF Clamped, MinDelay
<1> HIDE DEF d
<1>3. boot + t \in Int /\ d \in Int /\ (boot + t) + d = boot + (t + d)
  BY <1>1, <1>2
<1>4. (((boot + t) % Cycle) + d) % Cycle = ((boot + t) + d) % Cycle
  BY <1>1, <1>3, SumOfRemainder
<1>5. t + d <= t + MaxDelay
  BY <1>1, <1>2
<1> QED
  BY <1>2, <1>3, <1>4, <1>5 DEF Scheduled, Clock, d

-------------------------------------------------------------------------------
(***************************************************************************)
(* What is true of the times in the queue.                                   *)
(*                                                                         *)
(* An event that is not stopped says when it is due, and that is not further  *)
(* away than MaxDelay: so half of Cycle tells early from late.  With no       *)
(* stopped event among them, now or since the queue was last empty, the times *)
(* are in order.                                                            *)
(***************************************************************************)
Punctual(e, b, t) ==
  /\ e.delay <= MaxDelay /\ e.due <= t + MaxDelay
  /\ e.tm = 0 \/ e.tm = (b + e.due) % Cycle

OnSchedule(q, b, t) == \A i \in 1 .. Len(q) : Punctual(q[i], b, t)

NoneStopped(q) == \A i \in 1 .. Len(q) : q[i].tm # 0

InOrder(q) == \A i, j \in 1 .. Len(q) : i < j => q[i].tm <= q[j].tm

Delivering ==
  at = "call" =>
    cur.delay <= MaxDelay /\ since <= time /\ cur.due <= since + Threshold

Ordered == ~muddled => InOrder(queue) /\ NoneStopped(queue)

TInv == OnSchedule(queue, boot, time) /\ Delivering /\ Ordered

LEMMA ScheduleWithin ==
  ASSUME NEW q, NEW r, NEW b, NEW t, OnSchedule(q, b, t), Within(r, q)
  PROVE  OnSchedule(r, b, t)
BY DEF OnSchedule, Within

LEMMA ScheduleLater ==
  ASSUME NEW q \in Seq(Event), NEW b, NEW t \in Nat, OnSchedule(q, b, t)
  PROVE  OnSchedule(q, b, t + 1)
<1> SUFFICES ASSUME NEW i \in 1 .. Len(q) PROVE q[i].due <= t + 1 + MaxDelay
  BY DEF OnSchedule, Punctual
<1>1. q[i] \in Event
  BY ElementOfSeq
<1>2. q[i].due \in Nat /\ MaxDelay \in Nat
  BY <1>1, TimerAssumption DEF Event
<1>3. q[i].due <= t + MaxDelay
  BY DEF OnSchedule, Punctual
<1> QED
  BY <1>2, <1>3

LEMMA ScheduleInserted ==
  ASSUME NEW q \in Seq(Event), NEW e \in Event, NEW r \in Inserted(q, e),
         NEW b, NEW t, OnSchedule(q, b, t), Punctual(e, b, t)
  PROVE  OnSchedule(r, b, t)
<1>1. \A k \in 1 .. Len(r) : r[k] = e \/ \E j \in 1 .. Len(q) : r[k] = q[j]
  BY InsertFacts
<1> QED
  BY <1>1 DEF OnSchedule

LEMMA OrderInserted ==
  ASSUME NEW q \in Seq(Event), NEW e \in Event, NEW r \in Inserted(q, e),
         InOrder(q), NoneStopped(q), NoneStopped(r)
  PROVE  InOrder(r)
<1>1. PICK i \in 1 .. Len(q) + 1 : i \in Places(q, e) /\ r = InsertAt(q, i, e)
  BY DEF Inserted, Places
<1>2. i \in Int /\ Len(q) \in Nat
  BY LenProperties
<1>3. /\ r \in Seq(Event) /\ Len(r) = Len(q) + 1
      /\ \A k \in 1 .. Len(q) + 1 :
           r[k] = IF k < i THEN q[k] ELSE IF k = i THEN e ELSE q[k - 1]
  BY <1>1, InsertAtLength, InsertAtElements
<1>4. e.tm \in Nat /\ e.tm # 0 /\ \A k \in 1 .. Len(q) : q[k].tm \in Nat
  <2>1. i \in 1 .. Len(r) /\ r[i] = e
    BY <1>2, <1>3
  <2>2. e.tm # 0
    BY <2>1 DEF NoneStopped
  <2>3. \A k \in 1 .. Len(q) : q[k] \in Event
    BY ElementOfSeq
  <2> QED
    BY <2>2, <2>3 DEF Event
<1>5. i > 1 => q[i - 1].tm <= e.tm
  <2> SUFFICES ASSUME i > 1 PROVE q[i - 1].tm <= e.tm
    OBVIOUS
  <2>1. ~Before(e, q[i - 1]) /\ i - 1 \in 1 .. Len(q)
    BY <1>1, <1>2 DEF Places
  <2> QED
    BY <1>4, <2>1 DEF Before
<1>6. i <= Len(q) => e.tm <= q[i].tm
  <2> SUFFICES ASSUME i <= Len(q) PROVE e.tm <= q[i].tm
    OBVIOUS
  <2>1. Before(e, q[i]) /\ i \in 1 .. Len(q)
    BY <1>1, <1>2 DEF Places
  <2> QED
    BY <1>4, <2>1 DEF Before
<1>7. \A k \in 1 .. Len(q) : k < i => q[k].tm <= e.tm
  <2> SUFFICES ASSUME NEW k \in 1 .. Len(q), k < i PROVE q[k].tm <= e.tm
    OBVIOUS
  <2>1. i - 1 \in 1 .. Len(q) /\ i > 1 /\ (k = i - 1 \/ k < i - 1)
    BY <1>2
  <2>2. q[k].tm <= q[i - 1].tm
    BY <1>4, <2>1 DEF InOrder
  <2> QED
    BY <1>4, <1>5, <2>1, <2>2
<1>8. \A k \in 1 .. Len(q) : k >= i => e.tm <= q[k].tm
  <2> SUFFICES ASSUME NEW k \in 1 .. Len(q), k >= i PROVE e.tm <= q[k].tm
    OBVIOUS
  <2>1. i \in 1 .. Len(q) /\ i <= Len(q) /\ (k = i \/ i < k)
    BY <1>2
  <2>2. q[i].tm <= q[k].tm
    BY <1>4, <2>1 DEF InOrder
  <2> QED
    BY <1>4, <1>6, <2>1, <2>2
<1> SUFFICES ASSUME NEW k \in 1 .. Len(r), NEW l \in 1 .. Len(r), k < l
             PROVE  r[k].tm <= r[l].tm
  BY DEF InOrder
<1>9. CASE k < i /\ l < i
  BY <1>2, <1>3, <1>9 DEF InOrder
<1>10. CASE k < i /\ l = i
  BY <1>2, <1>3, <1>7, <1>10
<1>11. CASE k < i /\ i < l
  <2>1. k \in 1 .. Len(q) /\ l - 1 \in 1 .. Len(q) /\ k < l - 1 /\ l # i /\ ~(l < i)
    BY <1>2, <1>3, <1>11
  <2> QED
    BY <1>3, <1>11, <2>1 DEF InOrder
<1>12. CASE k = i
  <2>1. l - 1 \in 1 .. Len(q) /\ l - 1 >= i /\ l # i /\ ~(l < i) /\ ~(k < i)
    BY <1>2, <1>3, <1>12
  <2> QED
    BY <1>3, <1>8, <1>12, <2>1
<1>13. CASE i < k
  <2>1. /\ k - 1 \in 1 .. Len(q) /\ l - 1 \in 1 .. Len(q) /\ k - 1 < l - 1
        /\ k # i /\ l # i /\ ~(k < i) /\ ~(l < i)
    BY <1>2, <1>3, <1>13
  <2> QED
    BY <1>3, <2>1 DEF InOrder
<1>14. k < i \/ k = i \/ i < k
  BY <1>2
<1>15. l < i \/ l = i \/ i < l
  BY <1>2
<1> QED
  BY <1>9, <1>10, <1>11, <1>12, <1>13, <1>14, <1>15

LEMMA OrderRemoved ==
  ASSUME NEW q \in Seq(Event), NEW i \in 1 .. Len(q), InOrder(q)
  PROVE  InOrder(RemoveAt(q, i))
<1> DEFINE r == RemoveAt(q, i)
<1>1. /\ r \in Seq(Event) /\ Len(r) = Len(q) - 1
      /\ \A k \in 1 .. Len(q) - 1 : r[k] = IF k < i THEN q[k] ELSE q[k + 1]
  BY RemoveAtProperties, RemoveAtElements
<1>2. Len(q) \in Nat /\ i \in Int
  BY LenProperties
<1> HIDE DEF r
<1> DEFINE From(k) == IF k < i THEN k ELSE k + 1
<1>3. \A k \in 1 .. Len(r) : From(k) \in 1 .. Len(q) /\ r[k] = q[From(k)]
  BY <1>1, <1>2
<1>4. \A k, l \in 1 .. Len(r) : k < l => From(k) < From(l)
  BY <1>2
<1> HIDE DEF From
<1>5. InOrder(r)
  BY <1>3, <1>4 DEF InOrder
<1> QED
  BY <1>5 DEF r

LEMMA OrderTail ==
  ASSUME NEW q \in Seq(Event), q # <<>>, InOrder(q)
  PROVE  InOrder(Tail(q))
<1>1. /\ Tail(q) \in Seq(Event) /\ Len(Tail(q)) = Len(q) - 1
      /\ \A k \in 1 .. Len(Tail(q)) : Tail(q)[k] = q[k + 1]
  BY HeadTailProperties
<1>2. Len(q) \in Nat
  BY LenProperties
<1>3. \A k \in 1 .. Len(Tail(q)) : k + 1 \in 1 .. Len(q)
  BY <1>1, <1>2
<1>4. \A k, l \in 1 .. Len(Tail(q)) : k < l => k + 1 < l + 1
  BY <1>1, <1>2
<1> QED
  BY <1>1, <1>3, <1>4 DEF InOrder

-------------------------------------------------------------------------------
(* Where the queue is kept or only loses events, and time stands still. *)
LEMMA TimesFewer ==
  ASSUME IInv, TInv, Watch, UNCHANGED <<boot, time>>, queue' \in Seq(Event),
         Within(queue', queue), InOrder(queue) => InOrder(queue'), Delivering'
  PROVE  TInv'
<1>1. OnSchedule(queue', boot', time')
  BY ScheduleWithin DEF TInv
<1>2. Ordered'
  <2> SUFFICES ASSUME ~muddled' PROVE InOrder(queue') /\ NoneStopped(queue')
    BY DEF Ordered
  <2>1. CASE queue' = <<>>
    BY <2>1, EmptySeq DEF InOrder, NoneStopped
  <2>2. CASE queue' # <<>>
    <3>1. ~muddled /\ NoneStopped(queue')
      BY <2>2 DEF Watch, NoneStopped
    <3> QED
      BY <3>1 DEF TInv, Ordered
  <2> QED
    BY <2>1, <2>2
<1> QED
  BY <1>1, <1>2 DEF TInv

(* Where an event is put into the queue q, which is the queue or its tail. *)
LEMMA TimesInserted ==
  ASSUME IInv, TInv, Watch, UNCHANGED <<boot, time>>, NEW q \in Seq(Event),
         Within(q, queue), InOrder(queue) => InOrder(q),
         NEW e \in Event, queue' \in Inserted(q, e), Punctual(e, boot, time), Delivering'
  PROVE  TInv'
<1>1. OnSchedule(queue', boot', time')
  BY ScheduleWithin, ScheduleInserted DEF TInv
<1>2. Ordered'
  <2> SUFFICES ASSUME ~muddled' PROVE InOrder(queue') /\ NoneStopped(queue')
    BY DEF Ordered
  <2>1. queue' # <<>>
    BY InsertFacts
  <2>2. ~muddled /\ NoneStopped(queue')
    BY <2>1 DEF Watch, NoneStopped
  <2>3. InOrder(q) /\ NoneStopped(q)
    BY <2>2 DEF TInv, Ordered, NoneStopped, Within
  <2> QED
    BY <2>2, <2>3, OrderInserted
<1> QED
  BY <1>1, <1>2 DEF TInv

(* What Scheduled makes of a request or of an event is punctual. *)
LEMMA PunctualScheduled ==
  ASSUME IInv, NEW r, r.dest \in Dests, r.delay \in Nat, r.oneshot \in BOOLEAN,
         r.delay <= MaxDelay, NEW id \in Nat, NEW t \in Nat, t <= time
  PROVE  /\ Scheduled(r, id, t) \in Event
         /\ Punctual(Scheduled(r, id, t), boot, time)
<1> DEFINE e == Scheduled(r, id, t)
<1>1. boot \in Boots /\ time \in Nat /\ MaxDelay \in Nat
  BY TimerAssumption DEF IInv, TypeOK
<1>2. e \in Event
  BY <1>1, ScheduledFacts
<1>3. e.delay <= MaxDelay /\ e.due <= t + MaxDelay /\ e.tm = (boot + e.due) % Cycle
  BY <1>1, ScheduledPunctual
<1>4. e.due \in Nat
  BY <1>2 DEF Event
<1> HIDE DEF e
<1>5. e.due <= time + MaxDelay
  BY <1>1, <1>3, <1>4
<1>6. e \in Event /\ Punctual(e, boot, time)
  BY <1>2, <1>3, <1>5 DEF Punctual
<1> QED
  BY <1>6 DEF e

LEMMA NotifyTimes ==
  ASSUME IInv, TInv, Watch, NEW r \in Requests, Notify(r)
  PROVE  TInv'
<1> DEFINE e == Scheduled(r, ticker, time)
<1>1. /\ r.dest \in Dests /\ r.delay \in Nat /\ r.oneshot \in BOOLEAN /\ r.delay <= MaxDelay
      /\ ticker \in Nat /\ time \in Nat /\ time <= time
  BY TimerAssumption DEF Notify, IInv, TypeOK
<1>2. e \in Event /\ Punctual(e, boot, time)
  BY <1>1, PunctualScheduled
<1>3. /\ queue \in Seq(Event) /\ Within(queue, queue) /\ queue' \in Inserted(queue, e)
      /\ UNCHANGED <<boot, time>> /\ Delivering'
  BY DEF Notify, IInv, TypeOK, Within, TInv, Delivering
<1> HIDE DEF e
<1> QED
  BY <1>2, <1>3, TimesInserted

LEMMA UnnotifyDestTimes ==
  ASSUME IInv, TInv, Watch, NEW d \in Dests, UnnotifyDest(d)
  PROVE  TInv'
<1>1. queue' = Stopped(queue, d) /\ queue \in Seq(Event)
  BY DEF UnnotifyDest, IInv, TypeOK
<1>2. /\ queue' \in Seq(Event)
      /\ \A k \in 1 .. Len(queue') :
           /\ queue'[k].tm = 0 \/ (\E j \in 1 .. Len(queue) : queue'[k] = queue[j])
           /\ \E j \in 1 .. Len(queue) :
                queue'[k].delay = queue[j].delay /\ queue'[k].due = queue[j].due
  BY <1>1, StoppedFacts
<1>3. UNCHANGED <<boot, time>> /\ Delivering'
  BY DEF UnnotifyDest, TInv, Delivering
<1>4. OnSchedule(queue', boot', time')
  <2> SUFFICES ASSUME NEW k \in 1 .. Len(queue') PROVE Punctual(queue'[k], boot, time)
    BY <1>3 DEF OnSchedule
  <2>1. OnSchedule(queue, boot, time)
    BY DEF TInv
  <2>2. CASE queue'[k].tm = 0
    BY <1>2, <2>1, <2>2 DEF OnSchedule, Punctual
  <2>3. CASE queue'[k].tm # 0
    BY <1>2, <2>1, <2>3 DEF OnSchedule
  <2> QED
    BY <2>2, <2>3
<1>5. Ordered'
  <2> SUFFICES ASSUME ~muddled' PROVE InOrder(queue') /\ NoneStopped(queue')
    BY DEF Ordered
  <2>1. CASE queue' = <<>>
    BY <2>1, EmptySeq DEF InOrder, NoneStopped
  <2>2. CASE queue' # <<>>
    <3>1. ~muddled /\ NoneStopped(queue')
      BY <2>2 DEF Watch, NoneStopped
    <3>2. Len(queue') = Len(queue) /\ \A k \in 1 .. Len(queue) :
            queue'[k] = IF queue[k].dest = d THEN Halted(queue[k]) ELSE queue[k]
      <4>1. Len(queue') = Len(queue)
        BY <1>1, StoppedFacts
      <4> QED
        BY <1>1, <4>1 DEF Stopped
    <3>3. ASSUME NEW k \in 1 .. Len(queue) PROVE queue'[k] = queue[k]
      <4>1. Halted(queue[k]).tm = 0
        BY DEF Halted
      <4>2. queue'[k].tm # 0
        BY <3>1, <3>2 DEF NoneStopped
      <4> QED
        BY <3>2, <4>1, <4>2
    <3> QED
      BY <3>1, <3>2, <3>3 DEF TInv, Ordered, InOrder
  <2> QED
    BY <2>1, <2>2
<1> QED
  BY <1>3, <1>4, <1>5 DEF TInv

LEMMA TickTimes ==
  ASSUME IInv, TInv, Watch, Tick
  PROVE  TInv'
<1>1. /\ queue \in Seq(Event) /\ time \in Nat /\ since \in Nat /\ time' = time + 1
      /\ UNCHANGED <<boot, queue, at, cur, since>>
  BY DEF Tick, IInv, TypeOK
<1>2. OnSchedule(queue', boot', time')
  BY <1>1, ScheduleLater DEF TInv
<1>3. Delivering'
  BY <1>1 DEF TInv, Delivering
<1>4. muddled' = muddled \/ queue = <<>>
  <2>1. CASE muddled
    BY <1>1, <2>1 DEF Watch, IInv, TypeOK
  <2>2. CASE ~muddled
    <3>1. NoneStopped(queue)
      BY <2>2 DEF TInv, Ordered
    <3> QED
      BY <1>1, <2>2, <3>1 DEF Watch, NoneStopped, IInv, TypeOK
  <2> QED
    BY <2>1, <2>2
<1>5. Ordered'
  <2>1. CASE queue = <<>>
    BY <1>1, <2>1, EmptySeq DEF Ordered, InOrder, NoneStopped
  <2>2. CASE muddled' = muddled
    BY <1>1, <2>2 DEF TInv, Ordered
  <2> QED
    BY <1>4, <2>1, <2>2
<1> QED
  BY <1>2, <1>3, <1>5 DEF TInv

(* The steps that leave the queue as it is. *)
LEMMA StillTimes ==
  ASSUME IInv, TInv, Watch,
         \/ SetDone \/ Enter \/ Leave \/ Loop \/ Buried \/ Sleep \/ Expire
         \/ (\E id \in Ids : Unnotify(id))
  PROVE  TInv'
<1>1. /\ UNCHANGED <<boot, time, queue>>
      /\ UNCHANGED <<at, cur, since>> \/ at' # "call"
  BY DEF SetDone, Enter, Leave, Loop, Buried, Sleep, Expire, Unnotify, Go
<1>2. queue' \in Seq(Event) /\ Within(queue', queue)
  BY <1>1 DEF IInv, TypeOK, Within
<1>3. Delivering'
  BY <1>1 DEF TInv, Delivering
<1> QED
  BY <1>1, <1>2, <1>3, TimesFewer

(* The steps that only take events out of the queue. *)
LEMMA FewerTimes ==
  ASSUME IInv, TInv, Watch, Clear \/ Drop \/ (\E id \in Ids : Bury(id))
  PROVE  TInv'
<1>1. queue \in Seq(Event)
  BY DEF IInv, TypeOK
<1>2. /\ queue' \in Seq(Event) /\ Within(queue', queue)
      /\ InOrder(queue) => InOrder(queue')
  <2>1. CASE Clear
    BY <2>1, EmptySeq DEF Clear, Within, InOrder
  <2>2. CASE Drop
    <3>1. at = "pick" /\ queue' = Tail(queue) /\ queue # <<>>
      BY <2>2 DEF Drop, Ripe, IInv, NonEmpty
    <3> QED
      BY <1>1, <3>1, FirstLeaves, OrderTail
  <2>3. CASE \E id \in Ids : Bury(id)
    <3>1. queue' = queue \/ \E i \in 1 .. Len(queue) : queue' = RemoveAt(queue, i)
      BY <2>3 DEF Bury
    <3>2. CASE queue' = queue
      BY <1>1, <3>2 DEF Within
    <3>3. CASE \E i \in 1 .. Len(queue) : queue' = RemoveAt(queue, i)
      BY <1>1, <3>3, RemoveFacts, OrderRemoved
    <3> QED
      BY <3>1, <3>2, <3>3
  <2> QED
    BY <2>1, <2>2, <2>3
<1>3. UNCHANGED <<boot, time>> /\ Delivering'
  BY DEF Clear, Drop, Ripe, Bury, Go, TInv, Delivering
<1> QED
  BY <1>2, <1>3, TimesFewer

LEMMA PutBackTimes ==
  ASSUME IInv, TInv, Watch, PutBack
  PROVE  TInv'
<1>1. /\ at = "pick" /\ queue \in Seq(Event) /\ queue # <<>>
      /\ queue' \in Inserted(Tail(queue), First)
      /\ UNCHANGED <<boot, time>> /\ Delivering'
  BY DEF PutBack, Ripe, Go, IInv, TypeOK, NonEmpty, Delivering
<1>2. /\ Tail(queue) \in Seq(Event) /\ Within(Tail(queue), queue)
      /\ InOrder(queue) => InOrder(Tail(queue))
      /\ First \in Event
  BY <1>1, FirstLeaves, OrderTail
<1>3. Punctual(First, boot, time)
  BY <1>1, FirstLeaves DEF TInv, OnSchedule
<1> QED
  BY <1>1, <1>2, <1>3, TimesInserted

LEMMA CallTimes ==
  ASSUME IInv, TInv, Watch, Call
  PROVE  TInv'
<1>1. /\ at = "pick" /\ queue \in Seq(Event) /\ queue # <<>> /\ queue' = Tail(queue)
      /\ cur' = First /\ since' = time /\ First.tm # 0
      /\ Remaining(First.tm, time) <= Threshold
      /\ UNCHANGED <<boot, time>>
      /\ boot \in Boots /\ time \in Nat /\ MaxDelay \in Nat
  BY TimerAssumption DEF Call, Ripe, Begin, Go, IInv, TypeOK, NonEmpty
<1>2. Punctual(First, boot, time) /\ First \in Event
  BY <1>1, FirstLeaves DEF TInv, OnSchedule
<1>3. First.due \in Nat /\ First.due <= time + MaxDelay /\ First.delay <= MaxDelay
      /\ First.tm = (boot + First.due) % Cycle
  BY <1>1, <1>2 DEF Event, Punctual
<1>4. First.due <= time + Threshold
  <2> SUFFICES ASSUME ~(First.due <= time + Threshold) PROVE FALSE
    OBVIOUS
  <2> DEFINE due == First.due
             rest == Remaining((boot + due) % Cycle, time)
  <2>1. due \in Nat /\ due <= time + MaxDelay
    BY <1>3
  <2>2. Threshold < due - time
    BY <1>1, <1>3 DEF Threshold
  <2>3. rest <= Threshold
    BY <1>1, <1>3
  <2>4. rest \in Int
    <3>1. Cycle \in Nat \ {0} /\ boot \in Int
      BY <1>1, TimerAssumption DEF MinDelay
    <3>2. Clock(time) \in Int /\ (boot + due) % Cycle \in Int
      BY <1>1, <2>1, <3>1 DEF Clock
    <3>3. (((boot + due) % Cycle) - Clock(time)) % Cycle \in Int
      BY <3>1, <3>2
    <3> QED
      BY <3>1, <3>3 DEF Remaining
  <2> HIDE DEF due
  <2>5. rest > Threshold
    BY <1>1, <2>1, <2>2, EarlyRemains
  <2> HIDE DEF rest
  <2> QED
    BY <2>3, <2>4, <2>5 DEF Threshold
<1>5. Delivering'
  BY <1>1, <1>3, <1>4 DEF Delivering
<1>6. /\ queue' \in Seq(Event) /\ Within(queue', queue)
      /\ InOrder(queue) => InOrder(queue')
  BY <1>1, FirstLeaves, OrderTail
<1> QED
  BY <1>1, <1>5, <1>6, TimesFewer

LEMMA RepeatTimes ==
  ASSUME IInv, TInv, Watch, Repeat
  PROVE  TInv'
<1> DEFINE e == Scheduled(cur, cur.id, since)
<1>1. /\ at = "call" /\ queue' \in Inserted(queue, e)
      /\ queue \in Seq(Event) /\ Within(queue, queue)
      /\ UNCHANGED <<boot, time>> /\ Delivering'
  BY DEF Repeat, Again, Go, IInv, TypeOK, Within, Delivering
<1>2. /\ cur.dest \in Dests /\ cur.delay \in Nat /\ cur.oneshot \in BOOLEAN
      /\ cur.id \in Nat /\ since \in Nat
      /\ cur.delay <= MaxDelay /\ since <= time
  BY <1>1 DEF IInv, TypeOK, Event, TInv, Delivering
<1>3. e \in Event /\ Punctual(e, boot, time)
  BY <1>2, PunctualScheduled
<1> HIDE DEF e
<1> QED
  BY <1>1, <1>3, TimesInserted

LEMMA TimesInvariance == Spec => []TInv
<1>1. Init => TInv
  <2> SUFFICES ASSUME Init PROVE TInv
    OBVIOUS
  <2>1. Len(queue) = 0 /\ at # "call"
    BY EmptySeq DEF Init
  <2> QED
    BY <2>1 DEF TInv, OnSchedule, Delivering, Ordered, InOrder, NoneStopped
<1>2. IInv /\ TInv /\ [Next]_vars => TInv'
  <2> SUFFICES ASSUME IInv, TInv, [Next]_vars PROVE TInv'
    OBVIOUS
  <2>1. CASE Outside /\ Watch
    BY <2>1, NotifyTimes, UnnotifyDestTimes, TickTimes, StillTimes, FewerTimes DEF Outside
  <2>2. CASE Action /\ Watch
    BY <2>2, StillTimes, FewerTimes, PutBackTimes, CallTimes, RepeatTimes DEF Action
  <2>3. CASE UNCHANGED vars
    BY <2>3 DEF vars, code, TInv, Delivering, Ordered
  <2> QED
    BY <2>1, <2>2, <2>3 DEF Next
<1> QED
  BY <1>1, <1>2, Invariance, PTL DEF Spec

(***************************************************************************)
(* No receiver is called before its time, wherever the clock stands: for      *)
(* delays shorter than half of the clock's cycle.                            *)
(***************************************************************************)
THEOREM TimerNeverEarly == Spec => []NeverEarly
<1>1. IInv /\ TInv => NeverEarly
  <2> SUFFICES ASSUME IInv, TInv, at = "call" PROVE since + Threshold >= cur.due
    BY DEF NeverEarly
  <2>1. since \in Nat /\ cur.due \in Nat /\ cur.due <= since + Threshold
    BY DEF IInv, TypeOK, Event, TInv, Delivering
  <2> QED
    BY <2>1 DEF Threshold
<1> QED
  BY <1>1, Invariance, TimesInvariance, PTL

(* Within one turn of the clock, times are in the order of what they stand for. *)
LEMMA TimesTellOrder ==
  ASSUME NEW x \in Int, NEW y \in Int, NEW C \in Nat \ {0},
         x \div C = y \div C, x % C <= y % C
  PROVE  x <= y
<1> DEFINE qx == x \div C
           rx == x % C
           ry == y % C
<1>1. x = C * qx + rx /\ rx \in 0 .. C - 1 /\ qx \in Int
  BY Division
<1>2. y = C * qx + ry /\ ry \in 0 .. C - 1
  BY Division
<1>3. rx <= ry
  OBVIOUS
<1> HIDE DEF qx, rx, ry
<1>4. C * qx \in Int
  BY <1>1
<1> QED
  BY <1>1, <1>2, <1>3, <1>4

(* The first event is the earliest, unless the queue was disturbed. *)
THEOREM TimerFirstIsEarliest == Spec => []FirstIsEarliest
<1>1. IInv /\ TInv => FirstIsEarliest
  <2> SUFFICES ASSUME IInv, TInv, ~muddled, OneTurn, NEW i \in 1 .. Len(queue)
               PROVE  queue[1].due <= queue[i].due
    BY DEF FirstIsEarliest
  <2> DEFINE e == queue[1]
             f == queue[i]
  <2>1. /\ queue \in Seq(Event) /\ 1 \in 1 .. Len(queue) /\ i \in Int
        /\ InOrder(queue) /\ NoneStopped(queue) /\ OnSchedule(queue, boot, time)
    <3>1. queue \in Seq(Event) /\ Len(queue) \in Nat
      BY LenProperties DEF IInv, TypeOK
    <3> QED
      BY <3>1 DEF TInv, Ordered
  <2>2. e \in Event /\ f \in Event
    BY <2>1, ElementOfSeq
  <2>3. e.tm = (boot + e.due) % Cycle /\ f.tm = (boot + f.due) % Cycle
    BY <2>1 DEF NoneStopped, OnSchedule, Punctual
  <2>4. (boot + e.due) \div Cycle = (boot + f.due) \div Cycle
    BY <2>1 DEF OneTurn, Turn
  <2>5. i = 1 \/ e.tm <= f.tm
    BY <2>1 DEF InOrder
  <2>6. e.due \in Nat /\ f.due \in Nat /\ boot \in Int /\ Cycle \in Nat \ {0}
    <3>1. boot \in Boots
      BY DEF IInv, TypeOK
    <3>2. boot \in Int /\ Cycle \in Nat \ {0}
      BY <3>1, TimerAssumption DEF MinDelay
    <3> HIDE DEF e, f
    <3>3. e.due \in Nat /\ f.due \in Nat
      BY <2>2 DEF Event
    <3> QED
      BY <3>2, <3>3
  <2>7. CASE i = 1
    BY <2>6, <2>7
  <2>8. CASE e.tm <= f.tm
    <3> HIDE DEF e, f
    <3>1. boot + e.due \in Int /\ boot + f.due \in Int
      BY <2>6
    <3>2. boot + e.due <= boot + f.due
      BY <2>3, <2>4, <2>6, <2>8, <3>1, TimesTellOrder
    <3>3. e.due <= f.due
      BY <2>6, <3>2
    <3> QED
      BY <3>3 DEF e, f
  <2> QED
    BY <2>5, <2>7, <2>8
<1> QED
  BY <1>1, Invariance, TimesInvariance, PTL

-------------------------------------------------------------------------------
(* start() and stop() of a timer, and its thread (TimerThread). *)
(* An operation under way determines whether there is a thread. *)
ThreadPlaces(u) ==
  /\ pc[u] \in {"start", "create", "store"} => wanted
  /\ pc[u] \in {"join", "cancel", "wait", "stop"} => ~wanted
  /\ pc[u] \in {"start", "join", "wait"} => \A h \in Handles : os[h] # "new"
  /\ pc[u] \in {"create", "cancel", "stop"} => Running = {}
  /\ pc[u] = "store" => mine[u] \in Running
  /\ pc[u] \in {"join", "cancel", "wait"} => handle \in Handles
  /\ pc[u] = "wait" => mine[u] = handle

Order ==
  /\ ~ub
  /\ \A u, v \in Users : pc[u] # "idle" /\ pc[v] # "idle" => u = v
  /\ wanted => ~timerDone
  /\ isActive <=> \E h \in Handles : os[h] \in {"begun", "body", "asleep", "closing"}
  /\ \A g, h \in Running : g = h
  /\ Running \cap canceled = {}
  /\ \A h \in Handles : os[h] = "closing" => timerDone
  /\ \A h \in Running : handle = h \/ \E u \in Users : pc[u] = "store" /\ mine[u] = h
  /\ Idle => (wanted <=> Running # {})
  /\ \A u \in Users : ThreadPlaces(u)

TimerThreadInv == TimerThreadTypeOK /\ (hasty \/ Order)

Rest == UNCHANGED <<timerDone, wanted, hasty>>

LEMMA TypeStep == TimerThreadTypeOK /\ [TimerThreadNext]_timerThreadVars => TimerThreadTypeOK'
<1> SUFFICES ASSUME TimerThreadTypeOK, [TimerThreadNext]_timerThreadVars PROVE TimerThreadTypeOK'
  OBVIOUS
<1> USE DEF TimerThreadTypeOK, ThreadTypeOK, ThreadControl, OSThread, GoTo
<1>1. ASSUME NEW u \in Users, TimerStart(u) PROVE TimerThreadTypeOK'
  BY <1>1 DEF TimerStart
<1>2. ASSUME NEW u \in Users, TimerStop(u) PROVE TimerThreadTypeOK'
  BY <1>2 DEF TimerStop
<1>3. ASSUME NEW u \in Users, User(u), Rest PROVE TimerThreadTypeOK'
  <2>1. CASE StartTest(u)
    BY <1>3, <2>1 DEF StartTest, Rest
  <2>2. ASSUME NEW h \in Handles, Create(u, h) PROVE TimerThreadTypeOK'
    BY <1>3, <2>2 DEF Create, Rest
  <2>3. CASE Store(u)
    BY <1>3, <2>3 DEF Store, Rest
  <2>4. CASE JoinTest(u)
    BY <1>3, <2>4 DEF JoinTest, Rest
  <2>5. CASE JoinCancel(u)
    BY <1>3, <2>5 DEF JoinCancel, Rest, Running
  <2>6. CASE JoinWait(u)
    BY <1>3, <2>6 DEF JoinWait, Rest
  <2>7. CASE Stop(u)
    BY <1>3, <2>7 DEF Stop, Rest, Running
  <2> QED
    BY <1>3, <2>1, <2>2, <2>3, <2>4, <2>5, <2>6, <2>7 DEF User
<1>4. ASSUME NEW h \in Handles, Run(h), Rest PROVE TimerThreadTypeOK'
  BY <1>4 DEF Run, ThreadBegin, ActionBegins, TimerProcSleeps, FallAsleep, WakeUp,
    TimerProcReturns, ActionReturns, End, Abort, Rest
<1>5. CASE UNCHANGED timerThreadVars
  BY <1>5 DEF timerThreadVars, threadVars
<1> QED
  BY <1>1, <1>2, <1>3, <1>4, <1>5 DEF TimerThreadNext, Rest

LEMMA OrderStep == TimerThreadTypeOK /\ TimerThreadTypeOK' /\ Order /\ [TimerThreadNext]_timerThreadVars => (hasty \/ Order)'
<1> SUFFICES ASSUME TimerThreadTypeOK, TimerThreadTypeOK', Order, [TimerThreadNext]_timerThreadVars, ~hasty' PROVE Order'
  OBVIOUS
<1> USE ThreadAssumption DEF TimerThreadTypeOK, ThreadTypeOK, GoTo, Running, ThreadPlaces, Idle
<1>1. ASSUME NEW u \in Users, TimerStart(u) PROVE Order'
  <2>1. ~InHaste
    BY <1>1 DEF TimerStart
  <2>2. /\ \A v \in Users : pc[v] = "idle"
        /\ \A h \in Handles : os[h] # "new"
    BY <2>1 DEF InHaste
  <2> QED
    BY <1>1, <2>2 DEF TimerStart, Order
<1>2. ASSUME NEW u \in Users, TimerStop(u) PROVE Order'
  <2>1. ~InHaste /\ wanted
    BY <1>2 DEF TimerStop
  <2>2. /\ \A v \in Users : pc[v] = "idle"
        /\ \A h \in Handles : os[h] # "new"
    BY <2>1 DEF InHaste
  <2> QED
    BY <1>2, <2>1, <2>2 DEF TimerStop, Order
<1>3. ASSUME NEW u \in Users, User(u), Rest PROVE Order'
  <2>1. CASE StartTest(u)
    BY <1>3, <2>1 DEF StartTest, Rest, Order
  <2>2. ASSUME NEW h \in Handles, Create(u, h) PROVE Order'
    BY <1>3, <2>2 DEF Create, Rest, Order
  <2>3. CASE Store(u)
    BY <1>3, <2>3 DEF Store, Rest, Order
  <2>4. CASE JoinTest(u)
    BY <1>3, <2>4 DEF JoinTest, Rest, Order
  <2>5. CASE JoinCancel(u)
    BY <1>3, <2>5 DEF JoinCancel, Rest, Order
  <2>6. CASE JoinWait(u)
    BY <1>3, <2>6 DEF JoinWait, Rest, Order
  <2>7. CASE Stop(u)
    BY <1>3, <2>7 DEF Stop, Rest, Order
  <2> QED
    BY <1>3, <2>1, <2>2, <2>3, <2>4, <2>5, <2>6, <2>7 DEF User
<1>4. ASSUME NEW h \in Handles, Run(h), Rest PROVE Order'
  <2>1. CASE ThreadBegin(h)
    BY <1>4, <2>1 DEF ThreadBegin, Rest, Order
  <2>2. CASE TimerProcReturns(h)
    BY <1>4, <2>2 DEF TimerProcReturns, ActionReturns, Rest, Order
  <2>3. CASE End(h)
    BY <1>4, <2>3 DEF End, Rest, Order
  <2>4. CASE Abort(h)
    BY <1>4, <2>4 DEF Abort, Rest, Order
  <2>5. CASE ActionBegins(h)
    BY <1>4, <2>5 DEF ActionBegins, Rest, Order
  <2>6. CASE TimerProcSleeps(h)
    BY <1>4, <2>6 DEF TimerProcSleeps, FallAsleep, Rest, Order
  <2>7. CASE WakeUp(h)
    BY <1>4, <2>7 DEF WakeUp, Rest, Order
  <2> QED
    BY <1>4, <2>1, <2>2, <2>3, <2>4, <2>5, <2>6, <2>7 DEF Run
<1>5. CASE UNCHANGED timerThreadVars
  BY <1>5 DEF timerThreadVars, threadVars, Order
<1> QED
  BY <1>1, <1>2, <1>3, <1>4, <1>5 DEF TimerThreadNext, Rest

(* Init, Next and the invariant. *)
LEMMA TimerThreadInvariance == TimerThreadSpec => []TimerThreadInv
<1>1. TimerThreadInit => TimerThreadInv
  BY ThreadAssumption DEF TimerThreadInit, ThreadInit, TimerThreadInv, TimerThreadTypeOK, ThreadTypeOK, ThreadControl,
    OSThread, Order, Running, Idle, ThreadPlaces
<1>2. TimerThreadInv /\ [TimerThreadNext]_timerThreadVars => TimerThreadInv'
  <2> SUFFICES ASSUME TimerThreadInv, [TimerThreadNext]_timerThreadVars PROVE TimerThreadInv'
    OBVIOUS
  <2>1. TimerThreadTypeOK'
    BY TypeStep DEF TimerThreadInv
  <2>2. hasty => hasty'
    BY DEF TimerThreadInv, TimerThreadTypeOK, TimerThreadNext, TimerStart, TimerStop, timerThreadVars, threadVars
  <2> QED
    BY <2>1, <2>2, OrderStep DEF TimerThreadInv
<1> QED
  BY <1>1, <1>2, PTL DEF TimerThreadSpec

-------------------------------------------------------------------------------
(* The types, whatever the users do: Thread and GOTimer's start and stop. *)
THEOREM TimerThreadTypeCorrect == TimerThreadSpec => []TimerThreadTypeOK
<1>1. TimerThreadInv => TimerThreadTypeOK
  BY DEF TimerThreadInv
<1> QED
  BY <1>1, TimerThreadInvariance, PTL

(***************************************************************************)
(* Without haste there is one thread at most for timer_proc(), for any number *)
(* of users: _isActive and the handle, which nothing guards, name it.         *)
(***************************************************************************)
THEOREM TimerThreadOneServer == TimerThreadSpec => []OneServer
<1>1. TimerThreadInv => OneServer
  BY DEF TimerThreadInv, Order, OneServer
<1> QED
  BY <1>1, TimerThreadInvariance, PTL

(***************************************************************************)
(* Without haste a started timer has its thread, and a stopped one has none:  *)
(* what stop() followed by clear() in the destructor relies on.              *)
(***************************************************************************)
THEOREM TimerThreadServedOrOver == TimerThreadSpec => []ServedOrOver
<1>1. TimerThreadInv => ServedOrOver
  BY DEF TimerThreadInv, Order, ServedOrOver, Idle
<1> QED
  BY <1>1, TimerThreadInvariance, PTL

(* Without haste join() cancels no handle that is not one, nor one that runs. *)
THEOREM TimerThreadDefined == TimerThreadSpec => []DefinedUnlessHasty
<1>1. TimerThreadInv => DefinedUnlessHasty
  BY DEF TimerThreadInv, Order, DefinedUnlessHasty
<1> QED
  BY <1>1, TimerThreadInvariance, PTL
===============================================================================
