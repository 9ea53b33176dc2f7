------------------------------- MODULE MutexGate -------------------------------
(***************************************************************************)
(* The gate every guarded component of the library uses (mutexgate.cpp,     *)
(* mutexgate.h) and its lighter sibling (fastgate.cpp, fastgate.h).         *)
(*                                                                         *)
(* A gate owns a recursive mutex that is initialised late: enter() and      *)
(* exit() call create(), which initialises the mutex unless _isCreated says *)
(* that this was done.  Neither the test nor the assignment of _isCreated   *)
(* is synchronised, so create() is three steps here: the test, the          *)
(* initialisation of the mutex, the assignment.                             *)
(***************************************************************************)
EXTENDS Naturals, FiniteSets, RecursiveMutex

CONSTANT MaxDepth   \* bound: nested enter() calls of one thread

ASSUME GateAssumption == MaxDepth \in Nat \ {0}

VARIABLES
  kind,       \* the class of the gate; it never changes
  isCreated,  \* _isCreated
  section,    \* _section, the mutex
  gatePc,         \* what the thread does inside enter(), exit() or create()
  depth,      \* scopes of the gate the thread is inside of
  inits       \* observer: how often the mutex was initialised

gateVars == <<kind, isCreated, section, gatePc, depth, inits>>

(* "run": outside of the gate's operations.  "lock", "unlock": create() has
   returned.  The other two are inside create(), called by enter() ("E") or by
   exit() ("X"). *)
GateControl == {"run", "lock", "unlock", "initE", "flagE", "initX", "flagX"}

GateTypeOK ==
  /\ kind \in {"MutexGate", "FastGate"}
  /\ isCreated \in BOOLEAN
  /\ section \in MutexOf(Threads)
  /\ gatePc \in [Threads -> GateControl]
  /\ depth \in [Threads -> 0 .. MaxDepth]
  /\ inits \in Nat

(***************************************************************************)
(* The constructors: nothing is created yet.                                *)
(***************************************************************************)
GateInit ==
  /\ kind \in {"MutexGate", "FastGate"}
  /\ isCreated = FALSE
  /\ section = Fresh
  /\ gatePc = [t \in Threads |-> "run"]
  /\ depth = [t \in Threads |-> 0]
  /\ inits = 0

-------------------------------------------------------------------------------
(* Mistake: enter() initialises the mutex without looking at _isCreated. *)
EnterAlwaysCreates(t) ==
  /\ gatePc[t] = "run"
  /\ depth[t] < MaxDepth
  /\ gatePc' = [gatePc EXCEPT ![t] = "initE"]
  /\ UNCHANGED <<kind, isCreated, section, depth, inits>>

(* enter(), up to the test of _isCreated in create(). *)
Enter(t) ==
  /\ gatePc[t] = "run"
  /\ depth[t] < MaxDepth
  /\ gatePc' = [gatePc EXCEPT ![t] = IF isCreated THEN "lock" ELSE "initE"]
  /\ UNCHANGED <<kind, isCreated, section, depth, inits>>

(* create(): pthread_mutex_init. *)
InitSection(t) ==
  /\ gatePc[t] \in {"initE", "initX"}
  /\ section' = Fresh
  /\ inits' = inits + 1
  /\ gatePc' = [gatePc EXCEPT ![t] = IF @ = "initE" THEN "flagE" ELSE "flagX"]
  /\ UNCHANGED <<kind, isCreated, depth>>

(* Mistake: create() forgets to record that the mutex is initialised. *)
SetCreatedNever(t) ==
  /\ gatePc[t] \in {"flagE", "flagX"}
  /\ gatePc' = [gatePc EXCEPT ![t] = IF @ = "flagE" THEN "lock" ELSE "unlock"]
  /\ UNCHANGED <<kind, isCreated, section, depth, inits>>

(* create(): _isCreated = true. *)
SetCreated(t) ==
  /\ gatePc[t] \in {"flagE", "flagX"}
  /\ isCreated' = TRUE
  /\ gatePc' = [gatePc EXCEPT ![t] = IF @ = "flagE" THEN "lock" ELSE "unlock"]
  /\ UNCHANGED <<kind, section, depth, inits>>

(* Mistake: enter() tries the mutex and goes on without it. *)
LockTries(t) ==
  /\ gatePc[t] = "lock"
  /\ section' = IF CanLock(section, t) THEN Locked(section, t) ELSE section
  /\ depth' = [depth EXCEPT ![t] = @ + 1]
  /\ gatePc' = [gatePc EXCEPT ![t] = "run"]
  /\ UNCHANGED <<kind, isCreated, inits>>

(* enter(): pthread_mutex_lock returns. *)
Lock(t) ==
  /\ gatePc[t] = "lock"
  /\ CanLock(section, t)
  /\ section' = Locked(section, t)
  /\ depth' = [depth EXCEPT ![t] = @ + 1]
  /\ gatePc' = [gatePc EXCEPT ![t] = "run"]
  /\ UNCHANGED <<kind, isCreated, inits>>

(* MutexGate::exit(), up to the test of _isCreated in create(). *)
Exit(t) ==
  /\ kind = "MutexGate"
  /\ gatePc[t] = "run"
  /\ depth[t] > 0
  /\ gatePc' = [gatePc EXCEPT ![t] = IF isCreated THEN "unlock" ELSE "initX"]
  /\ UNCHANGED <<kind, isCreated, section, depth, inits>>

(* FastGate::exit() goes straight to the mutex. *)
FastExit(t) ==
  /\ kind = "FastGate"
  /\ gatePc[t] = "run"
  /\ depth[t] > 0
  /\ gatePc' = [gatePc EXCEPT ![t] = "unlock"]
  /\ UNCHANGED <<kind, isCreated, section, depth, inits>>

(* Mistake: exit() leaves the mutex locked. *)
UnlockForgets(t) ==
  /\ gatePc[t] = "unlock"
  /\ depth' = [depth EXCEPT ![t] = @ - 1]
  /\ gatePc' = [gatePc EXCEPT ![t] = "run"]
  /\ UNCHANGED <<kind, isCreated, section, inits>>

(* exit(): pthread_mutex_unlock; its result is ignored. *)
Unlock(t) ==
  /\ gatePc[t] = "unlock"
  /\ section' = Unlocked(section, t)
  /\ depth' = [depth EXCEPT ![t] = @ - 1]
  /\ gatePc' = [gatePc EXCEPT ![t] = "run"]
  /\ UNCHANGED <<kind, isCreated, inits>>

GateNext ==
  \E t \in Threads :
    \/ Enter(t) \/ InitSection(t) \/ SetCreated(t) \/ Lock(t)
    \/ Exit(t) \/ FastExit(t) \/ Unlock(t)

GateSpec == GateInit /\ [][GateNext]_gateVars

(***************************************************************************)
(* A thread inside an operation of the gate goes on, and GateScope leaves   *)
(* the gate at the end of its block: neither needs anything but the         *)
(* scheduler to run the thread.  A thread need never enter.                 *)
(***************************************************************************)
GateFairness ==
  \A t \in Threads :
    WF_gateVars(InitSection(t) \/ SetCreated(t) \/ Lock(t)
            \/ Exit(t) \/ FastExit(t) \/ Unlock(t))

FairGateSpec == GateSpec /\ GateFairness

-------------------------------------------------------------------------------
Inside(t) == depth[t] > 0

Creating(t) == gatePc[t] \in {"initE", "flagE", "initX", "flagX"}

(***************************************************************************)
(* Two threads are inside one gate only after its mutex was initialised a   *)
(* second time: the unsynchronised late creation is the only hole in the    *)
(* mutual exclusion of enter() and exit().                                  *)
(***************************************************************************)
ExclusionUnlessReinitialised ==
  inits <= 1 => \A t, u \in Threads : Inside(t) /\ Inside(u) => t = u

(***************************************************************************)
(* A FastGate does not create in exit() because, fastgate.h says, "we should *)
(* have gone thru enter & therefore have created the gate"; a MutexGate does *)
(* and never needs to: no thread is inside a gate that was not created.      *)
(***************************************************************************)
InsideIsCreated == \A t \in Threads : Inside(t) => isCreated /\ ~Creating(t)

(***************************************************************************)
(* Once the gate is created, nobody is inside create() any more and the      *)
(* mutex agrees with the threads about who is inside, that remains so: a     *)
(* gate entered once before it is shared excludes for ever.                  *)
(***************************************************************************)
Settled ==
  /\ isCreated
  /\ \A t \in Threads : ~Creating(t)
  /\ \A t \in Threads : Inside(t) => section = [owner |-> t, count |-> depth[t]]

SettledForEver == [][Settled => Settled']_gateVars

(***************************************************************************)
(* While the mutex was initialised at most once, a thread that waits for the *)
(* gate does not wait in vain for ever: some thread gets in.                 *)
(***************************************************************************)
SomeoneGetsIn ==
  (inits <= 1 /\ \E t \in Threads : gatePc[t] = "lock")
     ~> (inits > 1 \/ \E t \in Threads : Inside(t))
===============================================================================
