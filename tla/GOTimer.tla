-------------------------------- MODULE GOTimer --------------------------------
(***************************************************************************)
(* GOTimer (gotimer.cpp) and its TimedEvents (timedevent.cpp): a queue ordered *)
(* by the time an event is due, from which timer_proc() calls the receivers.  *)
(*                                                                         *)
(* The gate is held for the whole of action(), callbacks included; nothing    *)
(* that lives longer depends on which thread runs it, so the one variable at  *)
(* stands for all threads that are in timer_proc() (TimerThread says how many *)
(* there are).  As the gate is recursive, a callback may use the timer.       *)
(*                                                                         *)
(* The clock is 32 bits of milliseconds since the first call, here modulo     *)
(* Cycle; time is the true time, which no code sees.                          *)
(***************************************************************************)
EXTENDS Integers, FiniteSets, Sequences, SequencesExt

CONSTANTS
  Dests,       \* receivers of callbacks
  Requests,    \* what notify() is called with: destination, delay, oneshot
  Cycle,       \* the clock's modulus, 2^32
  Boots,       \* what the clock may show when the timer is constructed
  MaxDelay,    \* MAX_TIMER_DELAY
  Horizon,     \* bound: the time that is modelled
  MaxEvents    \* bound: calls of notify()

MinDelay == 2    \* MIN_TIMER_DELAY
Threshold == 1   \* the default of trigger()

ASSUME TimerAssumption ==
  /\ Requests \subseteq [dest : Dests, delay : Nat, oneshot : BOOLEAN]
  /\ Cycle \in Nat /\ MaxDelay \in Nat /\ MinDelay <= MaxDelay
  /\ 2 * MaxDelay < Cycle
  /\ Boots \subseteq 0 .. Cycle - 1
  /\ Horizon \in Nat /\ MaxEvents \in Nat
  /\ Dests # {}

VARIABLES
  boot,     \* the clock at time 0
  time,     \* milliseconds since the timer was constructed
  queue,    \* _events, a multiset in the order of operator<
  dead,     \* _dead_timers
  done,     \* _done
  ticker,   \* _event_ticker
  at,       \* where the thread that has the gate is inside action()
  cur,      \* evt: the event that is being delivered ...
  since,    \* ... and now: when it was found to be due
  deleted,  \* observer: the events whose callback was deleted
  after,    \* observer: deliveries since unnotify(id), -1 before it
  quiet,    \* observer: was unnotify(dest) called, from where
  muddled   \* observer: a stopped event has been in the queue

code == <<boot, time, queue, dead, done, ticker, at, cur, since>>
vars == <<code, deleted, after, quiet, muddled>>

(* "out": nobody has the gate.  "top": the head of the loop; "sweep": inside
   remove_the_dead(); "pick": the first event is looked at; "call": inside its
   callback. *)
Control == {"out", "top", "sweep", "pick", "call"}

Ids == 1 .. MaxEvents

(* A TimedEvent, and when it is due in true time (an observer). *)
Event ==
  [id : Nat, dest : Dests, delay : Nat, oneshot : BOOLEAN, tm : Nat, due : Nat]

TypeOK ==
  /\ boot \in Boots
  /\ time \in Nat
  /\ queue \in Seq(Event)
  /\ dead \subseteq Ids
  /\ done \in BOOLEAN
  /\ ticker \in 1 .. MaxEvents + 1
  /\ at \in Control
  /\ cur \in Event
  /\ since \in Nat
  /\ deleted \subseteq Ids
  /\ after \in [Ids -> -1 .. 2]
  /\ quiet \in [Dests -> {"no", "yes", "own"}]
  /\ muddled \in BOOLEAN

Blank == [id |-> 0, dest |-> CHOOSE d \in Dests : TRUE, delay |-> MinDelay,
          oneshot |-> FALSE, tm |-> MinDelay, due |-> MinDelay]

Init ==
  /\ boot \in Boots
  /\ time = 0
  /\ queue = <<>>
  /\ dead = {}
  /\ done = FALSE
  /\ ticker = 1
  /\ at = "out"
  /\ cur = Blank
  /\ since = 0
  /\ deleted = {}
  /\ after = [id \in Ids |-> -1]
  /\ quiet = [d \in Dests |-> "no"]
  /\ muddled = FALSE

-------------------------------------------------------------------------------
(* What timeGetTime() returns at a time. *)
Clock(t) == (boot + t) % Cycle

(* (int32_t)(tm - now) *)
Remaining(tm, t) ==
  LET diff == (tm - Clock(t)) % Cycle
  IN IF 2 * diff < Cycle THEN diff ELSE diff - Cycle

Clamped(delay) == IF delay < MinDelay THEN MinDelay ELSE delay

(* TimedEvent::operator< *)
Before(e, f) == e.tm < f.tm /\ e.tm # 0

(***************************************************************************)
(* Where multiset::insert may put e.  In a sorted queue that is the place     *)
(* after the last event it is not before.  Next to a stopped event, which     *)
(* operator< does not order, it depends on the shape of the tree: the two     *)
(* neighbours have been compared with e, the others perhaps not.             *)
(***************************************************************************)
Places(q, e) ==
  {i \in 1 .. Len(q) + 1 : /\ i > 1 => ~Before(e, q[i - 1])
                           /\ i <= Len(q) => Before(e, q[i])}

(* Mistake: the first place, in front of all. *)
InsertedFirst(q, e) == {InsertAt(q, 1, e)}

Inserted(q, e) == {InsertAt(q, i, e) : i \in Places(q, e)}

(* A request as the event id, due a delay after t; an event as its repetition. *)
Scheduled(r, id, t) ==
  [id |-> id, dest |-> r.dest, delay |-> Clamped(r.delay), oneshot |-> r.oneshot,
   tm |-> (Clock(t) + Clamped(r.delay)) % Cycle, due |-> t + Clamped(r.delay)]

(* TimedEvent::stop() *)
Halted(e) ==
  [id |-> e.id, dest |-> e.dest, delay |-> e.delay, oneshot |-> e.oneshot,
   tm |-> 0, due |-> e.due]

Queued == {queue[i].id : i \in 1 .. Len(queue)}

(* Every step keeps the last observer: it is over when the queue is empty. *)
Watch ==
  muddled' = (/\ queue' # <<>>
              /\ muddled \/ \E i \in 1 .. Len(queue') : queue'[i].tm = 0)

-------------------------------------------------------------------------------
(* What others than the timer's thread do.  The gate is free, or the caller
   is the callback that is running. *)
GateOpen == at \in {"out", "call"}

Notify(r) ==
  /\ GateOpen
  /\ r.delay <= MaxDelay
  /\ ticker <= MaxEvents
  /\ queue' \in Inserted(queue, Scheduled(r, ticker, time))
  /\ ticker' = ticker + 1
  /\ quiet' = [quiet EXCEPT ![r.dest] = "no"]
  /\ UNCHANGED <<boot, time, dead, done, at, cur, since, deleted, after>>

(* unnotify(id) takes the gate of the dead timers only: also while another
   event is delivered.  Bound: once for each event. *)
Unnotify(id) ==
  /\ at # "sweep"
  /\ id < ticker /\ after[id] = -1
  /\ dead' = dead \cup {id}
  /\ after' = [after EXCEPT ![id] = 0]
  /\ UNCHANGED <<boot, time, queue, done, ticker, at, cur, since, deleted, quiet>>

(* unnotify(dest) stops the events of a destination, and leaves them where
   they are: the one that is being delivered is not in the queue. *)
Stopped(q, d) ==
  [i \in 1 .. Len(q) |-> IF q[i].dest = d THEN Halted(q[i]) ELSE q[i]]

Quieten(d) ==
  quiet' = [quiet EXCEPT ![d] = IF at = "call" /\ cur.dest = d THEN "own" ELSE "yes"]

(* Mistake: unnotify(dest) stops the first of the destination's events. *)
UnnotifyFirst(d) ==
  /\ GateOpen
  /\ \/ \E i \in 1 .. Len(queue) :
          /\ queue[i].dest = d
          /\ \A j \in 1 .. i - 1 : queue[j].dest # d
          /\ queue' = [queue EXCEPT ![i].tm = 0]
     \/ (\A i \in 1 .. Len(queue) : queue[i].dest # d) /\ UNCHANGED queue
  /\ Quieten(d)
  /\ UNCHANGED <<boot, time, dead, done, ticker, at, cur, since, deleted, after>>

UnnotifyDest(d) ==
  /\ GateOpen
  /\ queue' = Stopped(queue, d)
  /\ Quieten(d)
  /\ UNCHANGED <<boot, time, dead, done, ticker, at, cur, since, deleted, after>>

Clear ==
  /\ GateOpen
  /\ queue' = <<>>
  /\ deleted' = deleted \cup Queued
  /\ UNCHANGED <<boot, time, dead, done, ticker, at, cur, since, after, quiet>>

(* start() and stop() as far as the queue sees them. *)
SetDone ==
  /\ done' \in BOOLEAN \ {done}
  /\ UNCHANGED <<boot, time, queue, dead, ticker, at, cur, since, deleted, after, quiet>>

Tick ==
  /\ time < Horizon
  /\ time' = time + 1
  /\ UNCHANGED <<boot, queue, dead, done, ticker, at, cur, since, deleted, after, quiet>>

-------------------------------------------------------------------------------
(* action(): if there are events, the gate is taken.  Left out: the drift, although
   by then it may look at the first event of none. ... *)
Go(place) == at' = place

Enter ==
  /\ at = "out" /\ queue # <<>>
  /\ Go("top")
  /\ UNCHANGED <<boot, time, queue, dead, done, ticker, cur, since, deleted, after, quiet>>

(* ... and the loop begins: it ends with the events, or when the timer is
   stopped; the dead are removed; else the first event is looked at. *)
Leave ==
  /\ at = "top"
  /\ queue = <<>> \/ done
  /\ Go("out")
  /\ UNCHANGED <<boot, time, queue, dead, done, ticker, cur, since, deleted, after, quiet>>

Loop ==
  /\ at = "top"
  /\ queue # <<>> /\ ~done
  /\ Go(IF dead # {} THEN "sweep" ELSE "pick")
  /\ UNCHANGED <<boot, time, queue, dead, done, ticker, cur, since, deleted, after, quiet>>

(* Mistake: the event leaves the queue, its callback is not deleted. *)
BuryLeaks(id) ==
  /\ at = "sweep" /\ id \in dead
  /\ dead' = dead \ {id}
  /\ \/ \E i \in 1 .. Len(queue) : queue[i].id = id /\ queue' = RemoveAt(queue, i)
     \/ id \notin Queued /\ UNCHANGED queue
  /\ UNCHANGED <<boot, time, done, ticker, at, cur, since, deleted, after, quiet>>

(* remove_the_dead(): one of them, in the queue or no longer ... *)
Bury(id) ==
  /\ at = "sweep" /\ id \in dead
  /\ dead' = dead \ {id}
  /\ \/ /\ \E i \in 1 .. Len(queue) : queue[i].id = id /\ queue' = RemoveAt(queue, i)
        /\ deleted' = deleted \cup {id}
     \/ id \notin Queued /\ UNCHANGED <<queue, deleted>>
  /\ UNCHANGED <<boot, time, done, ticker, at, cur, since, after, quiet>>

(* ... until there are none. *)
Buried ==
  /\ at = "sweep" /\ dead = {}
  /\ Go("top")
  /\ UNCHANGED <<boot, time, queue, dead, done, ticker, cur, since, deleted, after, quiet>>

First == Head(queue)

(* Mistake: the difference is taken as unsigned: what is late is far ahead. *)
SleepUnsigned ==
  /\ at = "pick"
  /\ (First.tm - Clock(time)) % Cycle > MinDelay /\ First.tm > 0
  /\ Go("out")
  /\ UNCHANGED <<boot, time, queue, dead, done, ticker, cur, since, deleted, after, quiet>>

(* The first event is not due for more than MIN_TIMER_DELAY: to sleep. *)
Sleep ==
  /\ at = "pick"
  /\ Remaining(First.tm, time) > MinDelay /\ First.tm > 0
  /\ Go("out")
  /\ UNCHANGED <<boot, time, queue, dead, done, ticker, cur, since, deleted, after, quiet>>

Ripe == at = "pick" /\ (Remaining(First.tm, time) <= MinDelay \/ First.tm = 0)

(* trigger() = -1: it was stopped. *)
Drop ==
  /\ Ripe /\ First.tm = 0
  /\ queue' = Tail(queue)
  /\ deleted' = deleted \cup {First.id}
  /\ Go("top")
  /\ UNCHANGED <<boot, time, dead, done, ticker, cur, since, after, quiet>>

(* trigger() = -2: not within its threshold; it is put back, behind the others
   of the same time. *)
PutBack ==
  /\ Ripe /\ First.tm # 0 /\ Remaining(First.tm, time) > Threshold
  /\ queue' \in Inserted(Tail(queue), First)
  /\ Go("out")
  /\ UNCHANGED <<boot, time, dead, done, ticker, cur, since, deleted, after, quiet>>

Begin ==
  /\ queue' = Tail(queue)
  /\ cur' = First
  /\ since' = time
  /\ after' = [after EXCEPT ![First.id] = IF @ \in {0, 1} THEN @ + 1 ELSE @]
  /\ Go("call")
  /\ UNCHANGED <<boot, time, dead, done, ticker, deleted, quiet>>

(* Mistake: without the threshold, all that is ripe is called. *)
CallUntested == Ripe /\ First.tm # 0 /\ Begin

(* trigger() calls the receiver. *)
Call == Ripe /\ First.tm # 0 /\ Remaining(First.tm, time) <= Threshold /\ Begin

(* evt and now are local to action(). *)
Forget == cur' = Blank /\ since' = 0

(* trigger() = 0: the event is to be repeated, unless its time would be 0. *)
Again ==
  LET e == Scheduled(cur, cur.id, since)
  IN ~cur.oneshot /\ e.tm # 0 /\ queue' \in Inserted(queue, e)

(* Mistake: after the callback the first event is looked at right away. *)
RepeatUnswept ==
  /\ at = "call" /\ Again
  /\ Go("pick") /\ Forget
  /\ UNCHANGED <<boot, time, dead, done, ticker, deleted, after, quiet>>

Repeat ==
  /\ at = "call" /\ Again
  /\ Go("top") /\ Forget
  /\ UNCHANGED <<boot, time, dead, done, ticker, deleted, after, quiet>>

(* It was a oneshot, its time would be 0, the callback set req_stop or threw:
   the callback is deleted. *)
Expire ==
  /\ at = "call"
  /\ deleted' = deleted \cup {cur.id}
  /\ Go("top") /\ Forget
  /\ UNCHANGED <<boot, time, queue, dead, done, ticker, after, quiet>>

-------------------------------------------------------------------------------
Outside ==
  \/ \E r \in Requests : Notify(r)
  \/ \E id \in Ids : Unnotify(id)
  \/ \E d \in Dests : UnnotifyDest(d)
  \/ Clear \/ SetDone \/ Tick

Action ==
  \/ Enter \/ Leave \/ Loop
  \/ \E id \in Ids : Bury(id)
  \/ Buried \/ Sleep \/ Drop \/ PutBack \/ Call \/ Repeat \/ Expire

Next == (Outside \/ Action) /\ Watch

Spec == Init /\ [][Next]_vars

(* The timer's thread runs and callbacks return; nobody need call anything,
   and nothing is assumed of how fast time passes. *)
FairSpec == Spec /\ WF_vars(Action /\ Watch)

-------------------------------------------------------------------------------
(***************************************************************************)
(* Each callback handed to notify() is in one place: in the queue, being      *)
(* called, or deleted.  None is lost, none deleted twice, none while it runs. *)
(***************************************************************************)
InCall == IF at = "call" THEN {cur.id} ELSE {}

Custody ==
  /\ \A i, j \in 1 .. Len(queue) : queue[i].id = queue[j].id => i = j
  /\ Queued \cap InCall = {} /\ deleted \cap (Queued \cup InCall) = {}
  /\ deleted \cup Queued \cup InCall = 1 .. ticker - 1

(***************************************************************************)
(* No receiver is called before its event is due (but for the threshold),     *)
(* also where the clock turns over between notify() and the call.             *)
(***************************************************************************)
NeverEarly == at = "call" => since + Threshold >= cur.due

(***************************************************************************)
(* The first event is the earliest, unless the clock turned over between the  *)
(* times in the queue or a stopped event lies or lay among the others.        *)
(***************************************************************************)
Turn(e) == (boot + e.due) \div Cycle

OneTurn == \A i, j \in 1 .. Len(queue) : Turn(queue[i]) = Turn(queue[j])

FirstIsEarliest ==
  ~muddled /\ OneTurn => \A i \in 1 .. Len(queue) : queue[1].due <= queue[i].due

(***************************************************************************)
(* After unnotify(dest) from outside of its own callbacks, dest is not        *)
(* called again, nor is it being called, until notify() is.                   *)
(***************************************************************************)
QuietAfterUnnotify == at = "call" => quiet[cur.dest] # "yes"

(***************************************************************************)
(* After unnotify(id) the event is called at most once more: when its         *)
(* delivery has begun already.                                               *)
(***************************************************************************)
OneMoreAtMost == \A id \in Ids : after[id] <= 1

(***************************************************************************)
(* An event that is first in the queue and due does not stay there, while the *)
(* timer is started and the queue is in order.                               *)
(***************************************************************************)
DueFirst(id) ==
  queue # <<>> /\ First.id = id /\ Remaining(First.tm, time) <= Threshold

DueIsServed ==
  \A id \in Ids :
    DueFirst(id) ~> id \notin Queued \/ done \/ muddled \/ ~OneTurn

(***************************************************************************)
(* The comment of gotimer.h (54): unnotify(dest) "will remove all timers to   *)
(* this receiver", wherever it is called from.  It does not remove the timer  *)
(* whose callback calls it.                                                  *)
(***************************************************************************)
AllRemoved == [][at = "pick" /\ at' = "call" => quiet[(cur').dest] = "no"]_vars
===============================================================================
