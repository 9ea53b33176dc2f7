-------------------------------- MODULE StopWatches --------------------------------
(***************************************************************************)
(* GOStopWatch (gostopwatch.cpp): a text with the time its user's thread has let *)
(* it run, that the thread of a GOTimer keeps up to date; and StopWatch        *)
(* (stopwatch.cpp, on UNIX), which packs seconds and their fractions.         *)
(*                                                                         *)
(* Events of the timer are "held" if _hTimer is theirs, "loose" if not or no   *)
(* longer, "dead" when unnotified (see GOTimer).  They may be due at any time. *)
(***************************************************************************)
EXTENDS Integers, FiniteSets

CONSTANTS
  Second,   \* 1000000: fractions of a second
  Pack,     \* 2^32
  NoTime,   \* PointInTime::TSNULL
  MaxTime   \* bound

ASSUME WatchAssumption ==
  /\ Second \in Nat \ {0} /\ Pack \in Nat /\ Pack > Second /\ MaxTime \in Nat
  /\ NoTime \notin Nat

VARIABLES
  now,
  watch,   \* _isRunning, _diff, _start_ts, and the text: the time it shows
  watchEvents, \* the watch's events in its timer's queue
  drawing, \* on_timer(): what render() has read
  p1, p2,  \* of a StopWatch
  started, \* observer: when start() and stop() of it were called
  stopped,
  ran,     \* observer: for how long the watch was let run
  watchOdd \* observer: "reset", while it ran, "torn", in a render(), "gone", while called

watchVars == <<now, watch, watchEvents, drawing, p1, p2, started, stopped, ran, watchOdd>>

NotDrawing == [at |-> "idle", dt |-> 0]

WatchInit ==
  /\ now = 0
  /\ watch = [alive |-> TRUE, running |-> FALSE, diff |-> 0, start |-> NoTime, text |-> 0]
  /\ watchEvents = {} /\ drawing = NotDrawing
  /\ p1 = 0 /\ p2 = 0 /\ started = NoTime /\ stopped = NoTime
  /\ ran = 0 /\ watchOdd = {}

Elapsed == IF watch.start = NoTime THEN 0 ELSE now - watch.start
Torn(what) == watchOdd' = watchOdd \cup IF drawing.at = "idle" THEN {} ELSE {what}
stopWatchVars == <<p1, p2, started, stopped>>

-------------------------------------------------------------------------------
(* The user's thread.  Loose events are not told apart. *)
StartWatch ==
  /\ watch.alive /\ ~watch.running
  /\ watchEvents' = watchEvents \cup {"held"} \cup
                      (IF "held" \in watchEvents THEN {"loose"} ELSE {})
  /\ watch' = [watch EXCEPT !.running = TRUE, !.start = now, !.text = watch.diff]
  /\ Torn("torn") /\ UNCHANGED <<now, drawing, stopWatchVars, ran>>

(* Mistake: stop() leaves its event in the queue. *)
StillNotified == watchEvents

Unnotified == IF "held" \in watchEvents THEN (watchEvents \ {"held"}) \cup {"dead"} ELSE watchEvents

StoppedWatch == [watch EXCEPT !.running = FALSE, !.diff = @ + Elapsed, !.start = NoTime]

StopWatch ==
  /\ watch.alive /\ watch.running
  /\ watch' = StoppedWatch /\ watchEvents' = Unnotified
  /\ Torn("torn") /\ UNCHANGED <<now, drawing, stopWatchVars, ran>>

(* reset() leaves the event to find out. *)
ResetWatch ==
  /\ watch.alive
  /\ watch' = [watch EXCEPT !.running = FALSE, !.diff = 0, !.start = NoTime, !.text = 0]
  /\ ran' = 0
  /\ watchOdd' = watchOdd \cup (IF watch.running THEN {"reset"} ELSE {})
                   \cup IF drawing.at = "idle" THEN {} ELSE {"torn"}
  /\ UNCHANGED <<now, watchEvents, drawing, stopWatchVars>>

(* The destructor. *)
DestroyWatch ==
  /\ watch.alive
  /\ watch' = [(IF watch.running THEN StoppedWatch ELSE watch) EXCEPT !.alive = FALSE]
  /\ watchEvents' = IF watch.running THEN Unnotified ELSE watchEvents
  /\ Torn("gone") /\ UNCHANGED <<now, drawing, stopWatchVars, ran>>

(* The timer's thread: on_timer() in three steps; the first ends the event if the
   watch does not run. *)
OnTimer(event) ==
  /\ drawing.at = "idle" /\ event \in watchEvents
  /\ IF event = "dead" \/ ~watch.running
     THEN /\ drawing' = [NotDrawing EXCEPT !.at = IF event = "dead" THEN "idle" ELSE "ends"]
          /\ watchEvents' = watchEvents \ {event}
     ELSE drawing' = [at |-> "render", dt |-> 0] /\ UNCHANGED watchEvents
  /\ UNCHANGED <<now, watch, stopWatchVars, ran, watchOdd>>

OnTimerEnds == drawing.at = "ends" /\ drawing' = NotDrawing
               /\ UNCHANGED <<now, watch, watchEvents, stopWatchVars, ran, watchOdd>>

Render ==
  /\ drawing.at = "render"
  /\ drawing' = [drawing EXCEPT !.at = IF watch.running /\ watch.start # NoTime THEN "add" ELSE "show",
                                !.dt = watch.diff]
  /\ UNCHANGED <<now, watch, watchEvents, stopWatchVars, ran, watchOdd>>

(* diffMilli() of TSNULL, if the watch was stopped meanwhile, may be anything. *)
RenderString ==
  /\ drawing.at \in {"add", "show"}
  /\ \E shown \in IF drawing.at = "show" THEN {drawing.dt}
                  ELSE IF watch.start # NoTime THEN {drawing.dt + Elapsed} ELSE {0, MaxTime} :
       watch' = [watch EXCEPT !.text = shown]
  /\ drawing' = NotDrawing
  /\ UNCHANGED <<now, watchEvents, stopWatchVars, ran, watchOdd>>

-------------------------------------------------------------------------------
(* StopWatch. *)
Packed(usec) == (usec \div Second) * Pack + (usec % Second)
DiffUsec == ((p2 \div Pack) - (p1 \div Pack)) * Second + ((p2 % Pack) - (p1 % Pack))

Start == p1' = Packed(now) /\ started' = now /\ stopped' = NoTime
         /\ UNCHANGED <<now, watch, watchEvents, drawing, p2, ran, watchOdd>>
Stop == started # NoTime /\ p2' = Packed(now) /\ stopped' = now
        /\ UNCHANGED <<now, watch, watchEvents, drawing, p1, started, ran, watchOdd>>

Tick ==
  /\ now < MaxTime /\ now' = now + 1
  /\ ran' = IF watch.running THEN ran + 1 ELSE ran
  /\ UNCHANGED <<watch, watchEvents, drawing, stopWatchVars, watchOdd>>

WatchNext ==
  \/ Tick \/ Start \/ Stop
  \/ StartWatch \/ StopWatch \/ ResetWatch \/ DestroyWatch
  \/ \E event \in {"held", "loose", "dead"} : OnTimer(event)
  \/ OnTimerEnds \/ Render \/ RenderString

(***************************************************************************)
(* A stopped watch knows how long it ran in all; its text is never ahead of    *)
(* that, unless its user changed it during a render(); and the timer does not  *)
(* call a watch that is gone, unless it was reset as it ran or just called.    *)
(* A StopWatch tells the time between start() and stop().                     *)
(***************************************************************************)
WatchesRight ==
  /\ ~watch.running => watch.diff = ran
  /\ watch.alive /\ "torn" \notin watchOdd => watch.text <= ran
  /\ ~watch.alive /\ drawing.at # "idle" => {"reset", "gone"} \cap watchOdd # {}
  /\ stopped # NoTime => DiffUsec = stopped - started
===============================================================================
