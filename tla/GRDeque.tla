-------------------------------- MODULE GRDeque --------------------------------
(***************************************************************************)
(* grdeque (grdeque.h), the queue between threads: a std::deque with a mutex, *)
(* and a counting semaphore (go_semaphore.h) that should count its elements.  *)
(* The two are not changed together: a pop takes its permit from the          *)
(* semaphore first and comes for the element later, under the mutex.          *)
(*                                                                         *)
(* The semaphore is a count under a mutex of its own with a condition         *)
(* variable: post() wakes one of the threads that sleep, if any; who wakes    *)
(* up tests the count again, and another thread may have been faster.         *)
(*                                                                         *)
(* The operations that call semaphore::post(n), which does not exist (the     *)
(* copies, two of the inserts), cannot be compiled and are left out.          *)
(***************************************************************************)
EXTENDS Integers, FiniteSets, Sequences, SequencesExt

CONSTANTS
  Threads,     \* the threads that use the deque
  Values,      \* the elements: pointers, each in the deque at most once
  AtFront, AtBack,  \* the two ends
  Contents,    \* the sequences a deque is constructed with or assigned
  MaxCount     \* bound: permits there can be before a push

ASSUME DequeAssumption ==
  /\ IsFiniteSet(Threads)
  /\ Contents \subseteq Seq(Values)
  /\ MaxCount \in Nat

VARIABLES
  elems,   \* the elements of the std::deque
  count,   \* _sem._count
  pc,      \* where a thread is inside an operation
  aim,     \* what it is going to remove: an end, or the element of an iterator
  stale,   \* the threads in erase() whose iterators the std::deque has invalidated
  ub,      \* undefined behaviour was reached: the model ends
  debt     \* observer: elements taken away by clear() and assign() whose
           \* permits they left (less than 0: elements without a permit)

vars == <<elems, count, pc, aim, stale, ub, debt>>

(* "post": holds the mutex, between the element and its permit.  "sleep": on
   the condition variable; "awake": notified.  "permit": past the wait. *)
Control == {"run", "post", "sleep", "awake", "permit"}

At(place) == {t \in Threads : pc[t] = place}

TypeOK ==
  /\ elems \in Seq(Values)
  /\ count \in Nat
  /\ pc \in [Threads -> Control]
  /\ aim \in [Threads -> Values \cup {AtFront, AtBack}]
  /\ stale \subseteq Threads
  /\ ub \in {"none", "empty", "stale"}
  /\ debt \in Int

(* grdeque() and grdeque(N): N elements, and a semaphore of 0. *)
Init ==
  /\ elems \in Contents
  /\ count = 0
  /\ pc = [t \in Threads |-> "run"]
  /\ aim = [t \in Threads |-> AtFront]
  /\ stale = {}
  /\ ub = "none"
  /\ debt = -Len(elems)

-------------------------------------------------------------------------------
Go(t, place) == pc' = [pc EXCEPT ![t] = place]

(* A thread that does not hold the mutex may take it. *)
MutexFree == At("post") = {}

Timed(t) == aim[t] \in {AtFront, AtBack}

(* A std::deque that is pushed to, inserted into, assigned or cleared invalidates all
   iterators, and so does one that loses an element between two others; one that loses
   an element at an end, those of this element. *)
Erasing(t) == pc[t] \in {"sleep", "awake", "permit"} /\ ~Timed(t)
Invalidates == stale' = {t \in Threads : Erasing(t)}
InvalidatesAt(i, t) ==
  stale' = IF i \in {1, Len(elems)} THEN stale ELSE {u \in Threads \ {t} : Erasing(u)}

(* push_front(), push_back() and insert(): the element, at its place ... *)
Put(t, v, i) ==
  /\ pc[t] = "run" /\ MutexFree
  /\ v \notin ToSet(elems)
  /\ count < MaxCount
  /\ elems' = InsertAt(elems, i, v)
  /\ Go(t, "post") /\ Invalidates
  /\ UNCHANGED <<count, aim, ub, debt>>

(* Mistake: post() notifies only when there was no permit. *)
PostOnFirst(t) ==
  /\ pc[t] = "post"
  /\ count' = count + 1
  /\ \/ At("sleep") # {} /\ count = 0
        /\ \E s \in At("sleep") : pc' = [pc EXCEPT ![t] = "run", ![s] = "awake"]
     \/ (At("sleep") = {} \/ count # 0) /\ Go(t, "run")
  /\ UNCHANGED <<elems, aim, stale, ub, debt>>

(* Mistake: post() notifies nobody. *)
PostSilent(t) ==
  /\ pc[t] = "post"
  /\ count' = count + 1
  /\ Go(t, "run")
  /\ UNCHANGED <<elems, aim, stale, ub, debt>>

(* ... then its permit; the mutex is left. *)
Post(t) ==
  /\ pc[t] = "post"
  /\ count' = count + 1
  /\ \/ \E s \in At("sleep") : pc' = [pc EXCEPT ![t] = "run", ![s] = "awake"]
     \/ At("sleep") = {} /\ Go(t, "run")
  /\ UNCHANGED <<elems, aim, stale, ub, debt>>

(***************************************************************************)
(* The wait at the head of pop_front(), pop_back() and erase().  A pop gives  *)
(* up after its timeout, erase() does not; erase() first makes sure, without  *)
(* the mutex, that there is something to erase.                              *)
(***************************************************************************)
TakePermit(t) ==
  /\ count > 0
  /\ count' = count - 1
  /\ Go(t, "permit")

Wait(t, what) ==
  /\ pc[t] = "run"
  /\ what \in {AtFront, AtBack} \cup ToSet(elems)
  /\ aim' = [aim EXCEPT ![t] = what]
  /\ \/ TakePermit(t)
     \/ count = 0 /\ Go(t, "sleep") /\ UNCHANGED count
  /\ UNCHANGED <<elems, stale, ub, debt>>

(* Mistake: a thread that wakes up late drops the permit it was given. *)
WakeDrops(t) ==
  /\ pc[t] = "awake"
  /\ \/ TakePermit(t)
     \/ count > 0 /\ count' = count - 1 /\ Timed(t) /\ Go(t, "run")
     \/ count = 0 /\ Go(t, "sleep") /\ UNCHANGED count
  /\ UNCHANGED <<elems, aim, stale, ub, debt>>

Wake(t) ==
  /\ pc[t] = "awake"
  /\ \/ TakePermit(t)
     \/ count = 0 /\ Go(t, "sleep") /\ UNCHANGED count
     \/ count = 0 /\ Timed(t) /\ Go(t, "run") /\ UNCHANGED count
  /\ UNCHANGED <<elems, aim, stale, ub, debt>>

(* Mistake: the result of the wait is not looked at. *)
TimeoutIgnored(t) ==
  /\ pc[t] = "sleep" /\ Timed(t)
  /\ \/ TakePermit(t)
     \/ count = 0 /\ Go(t, "permit") /\ UNCHANGED count
  /\ UNCHANGED <<elems, aim, stale, ub, debt>>

(* The timeout: the count is tested a last time. *)
Timeout(t) ==
  /\ pc[t] = "sleep" /\ Timed(t)
  /\ \/ TakePermit(t)
     \/ count = 0 /\ Go(t, "run") /\ UNCHANGED count
  /\ UNCHANGED <<elems, aim, stale, ub, debt>>

(***************************************************************************)
(* With its permit, the thread comes for the mutex and the element.  To pop   *)
(* from an empty deque, or to erase where an iterator points that has become  *)
(* invalid, is undefined: nothing is said about what follows.                *)
(***************************************************************************)
IndexOf(what) ==
  CASE what = AtFront -> 1
    [] what = AtBack -> Len(elems)
    [] OTHER -> CHOOSE i \in 1 .. Len(elems) : elems[i] = what

Present(t) ==
  IF Timed(t) THEN elems # <<>> ELSE aim[t] \in ToSet(elems) /\ t \notin stale

Take(t) ==
  /\ pc[t] = "permit" /\ MutexFree
  /\ Present(t)
  /\ elems' = RemoveAt(elems, IndexOf(aim[t]))
  /\ Go(t, "run") /\ InvalidatesAt(IndexOf(aim[t]), t)
  /\ UNCHANGED <<count, aim, ub, debt>>

Undefined(t) ==
  /\ pc[t] = "permit" /\ MutexFree
  /\ ~Present(t)
  /\ ub' = IF Timed(t) THEN "empty" ELSE "stale"
  /\ UNCHANGED <<elems, count, pc, aim, stale, debt>>

-------------------------------------------------------------------------------
(* Mistake: the elements go, the permits stay. *)
ClearKeepsCount(t) ==
  /\ pc[t] = "run" /\ MutexFree
  /\ elems' = <<>>
  /\ debt' = Cardinality(At("permit")) /\ Invalidates
  /\ UNCHANGED <<count, pc, aim, ub>>

(* clear(): the elements and the permits that nobody has taken. *)
Clear(t) ==
  /\ pc[t] = "run" /\ MutexFree
  /\ elems' = <<>>
  /\ count' = 0
  /\ debt' = Cardinality(At("permit")) /\ Invalidates
  /\ UNCHANGED <<pc, aim, ub>>

(* assign(): other elements; the semaphore is not told. *)
Assign(t, s) ==
  /\ pc[t] = "run" /\ MutexFree
  /\ elems' = s
  /\ debt' = debt + Len(elems) - Len(s) /\ Invalidates
  /\ UNCHANGED <<count, pc, aim, ub>>

Step(t) ==
  \/ \E v \in Values : \E i \in 1 .. Len(elems) + 1 : Put(t, v, i)
  \/ Post(t)
  \/ \E what \in Values \cup {AtFront, AtBack} : Wait(t, what)
  \/ Wake(t) \/ Timeout(t) \/ Take(t) \/ Undefined(t)
  \/ Clear(t)
  \/ \E s \in Contents : Assign(t, s)

Next == ub = "none" /\ \E t \in Threads : Step(t)

Spec == Init /\ [][Next]_vars

(* A thread that was notified runs, and so does one that holds the mutex. *)
FairSpec ==
  Spec /\ \A t \in Threads : WF_vars(ub = "none" /\ (Wake(t) \/ Post(t)))

-------------------------------------------------------------------------------
(***************************************************************************)
(* The semaphore counts the elements, whatever the threads do: the permits    *)
(* that are left, those of the threads on their way to the mutex and the one  *)
(* about to be posted are the elements, but for what clear() and assign()     *)
(* took away or added.                                                       *)
(***************************************************************************)
Accounting ==
  ub = "none" =>
    count + Cardinality(At("permit")) + Cardinality(At("post")) = Len(elems) + debt

(***************************************************************************)
(* No wake-up is lost: while a thread sleeps on the semaphore, every permit   *)
(* has a thread that was notified and has not looked yet.  A notified thread  *)
(* whose timeout has passed still takes the permit.                          *)
(***************************************************************************)
NoLostWakeup == At("sleep") # {} => count <= Cardinality(At("awake"))

(***************************************************************************)
(* erase() waits for ever only where somebody took or hid its permit: while   *)
(* its element is in the deque and nothing is owed, another thread is on its  *)
(* way to a permit, to an element, or to post.                               *)
(***************************************************************************)
EraseNotStranded ==
  \A t \in Threads :
    pc[t] = "sleep" /\ aim[t] \in ToSet(elems) /\ debt = 0 /\ ub = "none" =>
      At("awake") \cup At("permit") \cup At("post") # {}

(* A permit does not lie idle while threads sleep on the semaphore. *)
PermitIsTaken ==
  At("sleep") # {} /\ count > 0 ~> At("sleep") = {} \/ count = 0 \/ ub # "none"

(***************************************************************************)
(* The deque keeps the promise of DequePromise: a pop comes to an empty deque *)
(* only while clear() or assign() has left permits without elements.         *)
(***************************************************************************)
Promise == INSTANCE DequePromise
  WITH size <- Len(elems), reserved <- At("permit"), failed <- ub = "empty"

KeepsPromise == Promise!Spec
===============================================================================
