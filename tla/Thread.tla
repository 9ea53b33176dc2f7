-------------------------------- MODULE Thread --------------------------------
(***************************************************************************)
(* Thread (threads.cpp, thread_core.cpp): one object that starts, joins and   *)
(* cancels a POSIX thread.  The object looks at _isActive, which the new      *)
(* thread sets itself, once it runs; and it keeps one handle.                *)
(*                                                                         *)
(* Handles are pthread_t values: one that was joined is given to a thread     *)
(* that is created later.  Cancellation is deferred to a cancellation point,  *)
(* where the thread unwinds: into the catch (...) of MsgCB::invoke, through   *)
(* which action() is called and whose assert aborts the process.             *)
(* pthread_cancel of a handle that never was one is undefined; of a joined    *)
(* one, it has no effect.  The model ends where the process does.            *)
(***************************************************************************)
EXTENDS Naturals, FiniteSets

CONSTANTS
  Users,     \* the threads that call the object
  Handles,   \* bound: POSIX threads at a time
  Invalid    \* INVALID_HANDLE_VALUE

ASSUME ThreadAssumption == Invalid \notin Handles

VARIABLES
  handle,     \* _handle
  isActive,   \* _isActive
  os,         \* the POSIX threads
  canceled,   \* handles with a cancellation pending
  pc,         \* where a user is inside an operation
  mine,       \* the handle a user has a copy of
  ub          \* the process aborted, or what it does is undefined

threadVars == <<handle, isActive, os, canceled, pc, mine, ub>>

(* "new": created, before it has set _isActive; "begun": about to take the gate
   of _responseCB; "body": inside action(), with that gate; "asleep": at a
   cancellation point there; "closing": action() has returned; "over": ended,
   not joined. *)
OSThread == {"free", "new", "begun", "body", "asleep", "closing", "over"}

Running ==
  {h \in Handles : os[h] \in {"new", "begun", "body", "asleep", "closing"}}

ThreadControl == {"idle", "start", "create", "store", "join", "cancel", "wait", "stop"}

ThreadTypeOK ==
  /\ handle \in Handles \cup {Invalid}
  /\ isActive \in BOOLEAN
  /\ os \in [Handles -> OSThread]
  /\ canceled \subseteq Handles
  /\ pc \in [Users -> ThreadControl]
  /\ mine \in [Users -> Handles \cup {Invalid}]
  /\ ub \in BOOLEAN

ThreadInit ==
  /\ handle = Invalid
  /\ isActive = FALSE
  /\ os = [h \in Handles |-> "free"]
  /\ canceled = {}
  /\ pc = [u \in Users |-> "idle"]
  /\ mine = [u \in Users |-> Invalid]
  /\ ub = FALSE

GoTo(u, place) == pc' = [pc EXCEPT ![u] = place]

-------------------------------------------------------------------------------
(* Mistake: a thread is created whether there is one or not. *)
StartAlways(u) ==
  /\ pc[u] = "start"
  /\ GoTo(u, "create")
  /\ UNCHANGED <<handle, isActive, os, canceled, mine, ub>>

(* start(): resume() of a thread that is active does nothing ... *)
StartTest(u) ==
  /\ pc[u] = "start"
  /\ GoTo(u, IF isActive THEN "idle" ELSE "create")
  /\ UNCHANGED <<handle, isActive, os, canceled, mine, ub>>

(* ... else create(): pthread_create, whose failures are left out, ... *)
Create(u, h) ==
  /\ pc[u] = "create" /\ os[h] = "free"
  /\ os' = [os EXCEPT ![h] = "new"]
  /\ canceled' = canceled \ {h}
  /\ mine' = [mine EXCEPT ![u] = h]
  /\ GoTo(u, "store")
  /\ UNCHANGED <<handle, isActive, ub>>

(* Mistake: create() does not keep the handle. *)
StoreNothing(u) ==
  /\ pc[u] = "store"
  /\ GoTo(u, "idle")
  /\ UNCHANGED <<handle, isActive, os, canceled, mine, ub>>

(* ... and the handle is stored. *)
Store(u) ==
  /\ pc[u] = "store"
  /\ handle' = mine[u]
  /\ mine' = [mine EXCEPT ![u] = Invalid]
  /\ GoTo(u, "idle")
  /\ UNCHANGED <<isActive, os, canceled, ub>>

(***************************************************************************)
(* join(): a thread that is not active is canceled, an active one is waited   *)
(* for, by the handle as it was when pthread_join was called.                *)
(***************************************************************************)
JoinTest(u) ==
  /\ pc[u] = "join"
  /\ IF isActive
     THEN /\ GoTo(u, IF handle = Invalid THEN "stop" ELSE "wait")
          /\ mine' = [mine EXCEPT ![u] = handle]
     ELSE GoTo(u, "cancel") /\ UNCHANGED mine
  /\ UNCHANGED <<handle, isActive, os, canceled, ub>>

JoinCancel(u) ==
  /\ pc[u] = "cancel"
  /\ canceled' = canceled \cup ({handle} \cap Running)
  /\ ub' = (handle = Invalid)
  /\ GoTo(u, "stop")
  /\ UNCHANGED <<handle, isActive, os, mine>>

(* Mistake: join() does not wait. *)
JoinHurries(u) ==
  /\ pc[u] = "wait"
  /\ mine' = [mine EXCEPT ![u] = Invalid]
  /\ GoTo(u, "stop")
  /\ UNCHANGED <<handle, isActive, os, canceled, ub>>

JoinWait(u) ==
  /\ pc[u] = "wait"
  /\ mine[u] \notin Running
  /\ os' = [os EXCEPT ![mine[u]] = "free"]
  /\ mine' = [mine EXCEPT ![u] = Invalid]
  /\ GoTo(u, "stop")
  /\ UNCHANGED <<handle, isActive, canceled, ub>>

(* stop(): what is left is canceled, and the handle forgotten. *)
Stop(u) ==
  /\ pc[u] = "stop"
  /\ canceled' = canceled \cup ({handle} \cap Running)
  /\ handle' = Invalid
  /\ GoTo(u, "idle")
  /\ UNCHANGED <<isActive, os, mine, ub>>

-------------------------------------------------------------------------------
(* threadProc, in the new thread. *)
ThreadBegin(h) ==
  /\ os[h] = "new"
  /\ isActive' = TRUE
  /\ os' = [os EXCEPT ![h] = "begun"]
  /\ UNCHANGED <<handle, canceled, pc, mine, ub>>

(* action() invokes the response callback, which keeps other threads of the
   same object out. *)
ActionBegins(h) ==
  /\ os[h] = "begun"
  /\ \A g \in Handles : os[g] \notin {"body", "asleep"}
  /\ os' = [os EXCEPT ![h] = "body"]
  /\ UNCHANGED <<handle, isActive, canceled, pc, mine, ub>>

FallAsleep(h) ==
  /\ os[h] = "body"
  /\ os' = [os EXCEPT ![h] = "asleep"]
  /\ UNCHANGED <<handle, isActive, canceled, pc, mine, ub>>

WakeUp(h) ==
  /\ os[h] = "asleep"
  /\ os' = [os EXCEPT ![h] = "body"]
  /\ UNCHANGED <<handle, isActive, canceled, pc, mine, ub>>

Abort(h) ==
  /\ os[h] = "asleep" /\ h \in canceled
  /\ ub' = TRUE
  /\ UNCHANGED <<handle, isActive, os, canceled, pc, mine>>

ActionReturns(h) ==
  /\ os[h] = "body"
  /\ os' = [os EXCEPT ![h] = "closing"]
  /\ UNCHANGED <<handle, isActive, canceled, pc, mine, ub>>

(* After the done callbacks. *)
End(h) ==
  /\ os[h] = "closing"
  /\ isActive' = FALSE
  /\ os' = [os EXCEPT ![h] = "over"]
  /\ UNCHANGED <<handle, canceled, pc, mine, ub>>
===============================================================================
