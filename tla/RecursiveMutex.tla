---------------------------- MODULE RecursiveMutex ----------------------------
(***************************************************************************)
(* The recursive POSIX mutex the gates of the library are built on (a       *)
(* pthread mutex of type PTHREAD_MUTEX_RECURSIVE), as a value and the       *)
(* operators on it.  It is not part of the repository: what is modelled is  *)
(* the behaviour MutexGate and FastGate rely on.                            *)
(***************************************************************************)
EXTENDS Naturals

CONSTANTS
  Threads,   \* the threads that use what the mutex guards
  NoThread   \* the owner of a mutex that nobody holds

ASSUME MutexAssumption == NoThread \notin Threads

(* The values a mutex can take when it is used by the threads of T. *)
MutexOf(T) == [owner : T \cup {NoThread}, count : Nat]

(* pthread_mutex_init: whatever the memory held before, it is now free. *)
Fresh == [owner |-> NoThread, count |-> 0]

(* A thread gets through pthread_mutex_lock when the mutex is free or its own. *)
CanLock(m, t) == m.owner \in {NoThread, t}

Locked(m, t) == [owner |-> t, count |-> m.count + 1]

(***************************************************************************)
(* pthread_mutex_unlock: one level less for the owner; for anybody else it  *)
(* fails with EPERM and changes nothing (the gates ignore its result).      *)
(***************************************************************************)
Unlocked(m, t) ==
  IF m.owner # t \/ m.count = 0 THEN m
  ELSE IF m.count = 1 THEN Fresh ELSE [owner |-> t, count |-> m.count - 1]
===============================================================================
