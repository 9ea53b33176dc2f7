------------------------------ MODULE TimerThread ------------------------------
(***************************************************************************)
(* start() and stop() of a GOTimer (gotimer.cpp), around its Thread.  The     *)
(* thread's action() is timer_proc(): it goes on until it sees _done.  What   *)
(* it does meanwhile is GOTimer's; here it matters only that it sleeps.       *)
(*                                                                         *)
(* Little holds for users that are hasty; much does for others.  A use is     *)
(* hasty that begins an operation while another is under way or while the     *)
(* thread has been created and does not run yet, or that stops a timer which  *)
(* is not started.                                                           *)
(***************************************************************************)
EXTENDS Thread

VARIABLES
  timerDone,     \* _done
  wanted,   \* observer: the last operation to begin was a start()
  hasty     \* observer

timerThreadVars == <<threadVars, timerDone, wanted, hasty>>

TimerThreadTypeOK ==
  /\ ThreadTypeOK
  /\ timerDone \in BOOLEAN /\ wanted \in BOOLEAN /\ hasty \in BOOLEAN

TimerThreadInit ==
  /\ ThreadInit
  /\ timerDone = FALSE /\ wanted = FALSE /\ hasty = FALSE

Idle == \A u \in Users : pc[u] = "idle"

InHaste == ~Idle \/ \E h \in Handles : os[h] = "new"

-------------------------------------------------------------------------------
TimerStart(u) ==
  /\ pc[u] = "idle"
  /\ timerDone' = FALSE
  /\ wanted' = TRUE
  /\ hasty' = (hasty \/ InHaste)
  /\ GoTo(u, "start")
  /\ UNCHANGED <<handle, isActive, os, canceled, mine, ub>>

(* stop(), also from the destructor: _done, join() and Thread::stop(). *)
TimerStop(u) ==
  /\ pc[u] = "idle"
  /\ timerDone' = TRUE
  /\ wanted' = FALSE
  /\ hasty' = (hasty \/ InHaste \/ ~wanted)
  /\ GoTo(u, "join")
  /\ UNCHANGED <<handle, isActive, os, canceled, mine, ub>>

(* Mistake: timer_proc() relies on being canceled. *)
TimerProcDeaf(h) == h \in canceled /\ ActionReturns(h)

(* timer_proc() looks at _done, before it sleeps and after. *)
TimerProcSleeps(h) == ~timerDone /\ FallAsleep(h)

TimerProcReturns(h) == timerDone /\ ActionReturns(h)

User(u) ==
  \/ StartTest(u)
  \/ \E h \in Handles : Create(u, h)
  \/ Store(u) \/ JoinTest(u) \/ JoinCancel(u) \/ JoinWait(u) \/ Stop(u)

Run(h) ==
  \/ ThreadBegin(h) \/ ActionBegins(h)
  \/ TimerProcSleeps(h) \/ WakeUp(h) \/ TimerProcReturns(h)
  \/ End(h) \/ Abort(h)

TimerThreadNext ==
  /\ ~ub
  /\ \/ \E u \in Users : TimerStart(u) \/ TimerStop(u)
     \/ /\ (\E u \in Users : User(u)) \/ (\E h \in Handles : Run(h))
        /\ UNCHANGED <<timerDone, wanted, hasty>>

TimerThreadSpec == TimerThreadInit /\ [][TimerThreadNext]_timerThreadVars

(* Threads run, those that were created and those that have called. *)
FairThreadSpec ==
  /\ TimerThreadSpec
  /\ \A h \in Handles : WF_timerThreadVars(~ub /\ Run(h) /\ UNCHANGED <<timerDone, wanted, hasty>>)
  /\ \A u \in Users : WF_timerThreadVars(~ub /\ User(u) /\ UNCHANGED <<timerDone, wanted, hasty>>)

-------------------------------------------------------------------------------
(***************************************************************************)
(* Without haste, there is at most one thread for timer_proc().               *)
(***************************************************************************)
OneServer == ~hasty => \A g, h \in Running : g = h

(***************************************************************************)
(* Without haste, a timer whose start() has returned has a thread, whose      *)
(* handle it knows and which no cancellation threatens; one whose stop() has  *)
(* returned has none, so that it may be destroyed.                           *)
(***************************************************************************)
ServedOrOver ==
  ~hasty /\ Idle =>
    IF wanted THEN handle \in Running \ canceled ELSE Running = {}

(***************************************************************************)
(* Without haste, no handle is canceled that is not one, and no cancellation  *)
(* aborts the process.                                                      *)
(***************************************************************************)
DefinedUnlessHasty == ub => hasty

(***************************************************************************)
(* Whatever the users do, the threads of a timer that stays stopped end: even *)
(* those whose handle was lost.                                              *)
(***************************************************************************)
StopsInTheEnd == 
  \A h \in Handles : h \in Running /\ timerDone ~> h \notin Running \/ ~timerDone \/ ub

(***************************************************************************)
(* Without haste, stop() returns.                                             *)
(***************************************************************************)
JoinReturns == \A u \in Users : pc[u] = "wait" ~> pc[u] # "wait" \/ hasty

(***************************************************************************)
(* The comment of threads.h (57): join() "will halt calling thread until this *)
(* thread is done".                                                          *)
(***************************************************************************)
JoinHalts ==
  [][\A u \in Users :
       pc[u] \in {"join", "cancel", "wait"} /\ pc'[u] = "stop" => handle \notin Running]_timerThreadVars
===============================================================================
