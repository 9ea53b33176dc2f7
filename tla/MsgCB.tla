--------------------------------- MODULE MsgCB ---------------------------------
(***************************************************************************)
(* One MsgCB, the observer list at the heart of the library (msgcb.cpp,     *)
(* msgcb.h), used by several threads and by its own callbacks.              *)
(*                                                                         *)
(* A notification (invoke) walks the list of callbacks under the gate of     *)
(* the list, a recursive mutex, so a callback may call every operation of    *)
(* the MsgCB that is notifying it: a notification inside a notification, an  *)
(* installation, a removal, a block.  Other threads wait for the gate, but   *)
(* only where the code takes it: the tests at the head of the operations,    *)
(* the block count and the pending flag are read and written without it.     *)
(* Each such access is a step of its own.                                    *)
(*                                                                         *)
(* Left out: the arguments handed to the callbacks, and what only the end of *)
(* the list's life does (clearList, copies, the destructor).                 *)
(* The gate was created before the list is shared (see MutexGate).           *)
(***************************************************************************)
EXTENDS Integers, FiniteSets, Sequences, SequencesExt, RecursiveMutex

CONSTANTS
  Callbacks,    \* the Callback objects
  NoCallback,   \* nullptr
  Dest,         \* the object each callback notifies (Callback::destObj)
  RoleChoices,  \* who may do what: see Roles
  MaxNest,      \* bound: notifications of one thread inside each other
  MaxInstalls   \* bound: installations over the life of the list

(***************************************************************************)
(* What the program around the list does: the threads that install, remove,  *)
(* invoke and block; how many blocks one thread nests; and whether callbacks *)
(* block, too.                                                              *)
(***************************************************************************)
Roles == [install : SUBSET Threads, remove : SUBSET Threads,
          invoke : SUBSET Threads, block : SUBSET Threads,
          nested : Nat, inside : BOOLEAN]

ASSUME MsgAssumption ==
  /\ IsFiniteSet(Threads)
  /\ RoleChoices \subseteq Roles
  /\ MaxNest \in Nat
  /\ MaxInstalls \in Nat

VARIABLES
  roles,     \* the behaviour of the program; it never changes
  watchers,  \* _cbArray[0 .. _cbWatchers-1]
  arraySz,   \* _cbArraySz
  block,     \* _block
  needToInvoke,  \* _needToInvoke
  gate,      \* _cbGate
  pc,        \* where a thread is inside an operation
  cb,        \* the callback a thread is installing
  loaded,    \* the value of _block a thread has read
  passes,    \* the notifications a thread is inside of, the innermost last
  installs,  \* observer: the callbacks installed so far
  blocks,    \* observer: block() calls of a thread not yet unblocked
  owed       \* observer: a notification was put off and none ran since

listVars == <<watchers, arraySz, installs>>
blockVars == <<block, needToInvoke, loaded, blocks, owed>>
vars == <<roles, listVars, blockVars, gate, pc, cb, passes>>

(***************************************************************************)
(* A notification in progress: the index of the callback that runs or ran    *)
(* last.  The rest is for the properties: the callbacks called, those removed *)
(* by the notifying thread meanwhile, and how many of these removals moved    *)
(* callbacks to or before the index.                                         *)
(***************************************************************************)
Pass == [i : Nat, called : Seq(Callbacks), removed : SUBSET Callbacks,
         shifts : Nat]

(* "run": in the program around the list, or in a callback.  The others: what
   the thread does next inside cb_pushback ("grow", "push"), invoke ("need",
   "enter", "loop"), block ("store+") and unblock ("load-", "store-", "test"). *)
Control == {"run", "grow", "push", "need", "enter", "loop",
            "store+", "load-", "store-", "test"}

TypeOK ==
  /\ roles \in RoleChoices
  /\ watchers \in Seq(Callbacks)
  /\ arraySz \in Nat
  /\ block \in Int
  /\ needToInvoke \in BOOLEAN
  /\ gate \in MutexOf(Threads)
  /\ pc \in [Threads -> Control]
  /\ cb \in [Threads -> Callbacks \cup {NoCallback}]
  /\ loaded \in [Threads -> Int]
  /\ passes \in [Threads -> Seq(Pass)]
  /\ installs \in 0 .. MaxInstalls
  /\ blocks \in [Threads -> Nat]
  /\ owed \in BOOLEAN

(* The constructor MsgCB(srcObj). *)
Init ==
  /\ roles \in RoleChoices
  /\ watchers = <<>>
  /\ arraySz = 0
  /\ block = 0
  /\ needToInvoke = FALSE
  /\ gate = Fresh
  /\ pc = [t \in Threads |-> "run"]
  /\ cb = [t \in Threads |-> NoCallback]
  /\ loaded = [t \in Threads |-> 0]
  /\ passes = [t \in Threads |-> <<>>]
  /\ installs = 0
  /\ blocks = [t \in Threads |-> 0]
  /\ owed = FALSE

-------------------------------------------------------------------------------
Go(t, place) == pc' = [pc EXCEPT ![t] = place]

InPass(t) == passes[t] # <<>>
Depth(t) == Len(passes[t])
Current(t) == passes[t][Depth(t)]

(***************************************************************************)
(* install() and trigger() end in cb_pushback(): it compares the capacity     *)
(* before it takes the gate, takes and leaves the gate to grow the array, and *)
(* takes it again to store the callback.                                     *)
(***************************************************************************)
Pending == {cb[u] : u \in Threads}

Install(t, c) ==
  /\ pc[t] = "run"
  /\ t \in roles.install
  /\ c \notin ToSet(watchers) \cup Pending
  /\ installs < MaxInstalls
  /\ installs' = installs + 1
  /\ cb' = [cb EXCEPT ![t] = c]
  /\ Go(t, IF Len(watchers) + 1 >= arraySz THEN "grow" ELSE "push")
  /\ UNCHANGED <<roles, watchers, arraySz, blockVars, gate, passes>>

(* Mistake: the array grows by a quarter, without a minimum. *)
DeltaQuarter(n) == n \div 4

(* How much cb_pushback() asks cb_grow() for. *)
Delta(n) == IF n \div 4 > 3 THEN n \div 4 ELSE 3

Grow(t) ==
  /\ pc[t] = "grow"
  /\ CanLock(gate, t)
  /\ arraySz' = arraySz + Delta(Len(watchers))
  /\ Go(t, "push")
  /\ UNCHANGED <<roles, watchers, installs, blockVars, gate, cb, passes>>

PushBack(t) ==
  /\ pc[t] = "push"
  /\ CanLock(gate, t)
  /\ watchers' = Append(watchers, cb[t])
  /\ cb' = [cb EXCEPT ![t] = NoCallback]
  /\ Go(t, "run")
  /\ UNCHANGED <<roles, arraySz, installs, blockVars, gate, passes>>

(***************************************************************************)
(* remove(destObj): the first callback of that object leaves the list and is  *)
(* handed to the caller.  When another callback of the thread is running, the *)
(* loops that notify it go on at the same index.                             *)
(***************************************************************************)
IndicesOf(d) == {i \in 1 .. Len(watchers) : Dest[watchers[i]] = d}

NoteRemoval(p, i) ==
  [i |-> p.i, called |-> p.called, removed |-> p.removed \cup {watchers[i]},
   shifts |-> IF i <= p.i THEN p.shifts + 1 ELSE p.shifts]

(* Mistake: remove() does not take the gate. *)
RemoveUngated(t, d) ==
  /\ pc[t] = "run"
  /\ t \in roles.remove
  /\ \E i \in IndicesOf(d) :
       /\ \A j \in IndicesOf(d) : i <= j
       /\ watchers' = RemoveAt(watchers, i)
       /\ passes' = [passes EXCEPT ![t] =
                       [k \in DOMAIN @ |-> NoteRemoval(@[k], i)]]
  /\ UNCHANGED <<roles, arraySz, installs, blockVars, gate, pc, cb>>

(* Mistake: cb_erase() fills the hole with the last callback. *)
RemoveSwaps(t, d) ==
  /\ pc[t] = "run"
  /\ t \in roles.remove
  /\ CanLock(gate, t)
  /\ \E i \in IndicesOf(d) :
       /\ \A j \in IndicesOf(d) : i <= j
       /\ watchers' = Front([watchers EXCEPT ![i] = Last(watchers)])
       /\ passes' = [passes EXCEPT ![t] =
                       [k \in DOMAIN @ |-> NoteRemoval(@[k], i)]]
  /\ UNCHANGED <<roles, arraySz, installs, blockVars, gate, pc, cb>>

(* cb_erase() closes the gap with a memcpy() whose source overlaps its target, which C
   leaves undefined.  The outcome taken is that of the usual copies, which load before
   they store or go forward: exactly one callback goes. *)
RemoveDest(t, d) ==
  /\ pc[t] = "run"
  /\ t \in roles.remove
  /\ CanLock(gate, t)
  /\ \E i \in IndicesOf(d) :
       /\ \A j \in IndicesOf(d) : i <= j
       /\ watchers' = RemoveAt(watchers, i)
       /\ passes' = [passes EXCEPT ![t] =
                       [k \in DOMAIN @ |-> NoteRemoval(@[k], i)]]
  /\ UNCHANGED <<roles, arraySz, installs, blockVars, gate, pc, cb>>

-------------------------------------------------------------------------------
(***************************************************************************)
(* invoke(), from its head: with no callback it returns; blocked, it goes on  *)
(* to set the pending flag; otherwise to the gate.                           *)
(***************************************************************************)
InvokeHead(t) ==
  Go(t, IF watchers = <<>> THEN "run" ELSE IF block # 0 THEN "need" ELSE "enter")

Invoke(t) ==
  /\ pc[t] = "run"
  /\ t \in roles.invoke
  /\ watchers # <<>>
  /\ Depth(t) < MaxNest
  /\ InvokeHead(t)
  /\ UNCHANGED <<roles, listVars, blockVars, gate, cb, passes>>

SetNeed(t) ==
  /\ pc[t] = "need"
  /\ needToInvoke' = TRUE
  /\ owed' = TRUE
  /\ Go(t, "run")
  /\ UNCHANGED <<roles, listVars, block, loaded, blocks, gate, cb, passes>>

NewPass == [i |-> 0, called |-> <<>>, removed |-> {}, shifts |-> 0]

EnterPass(t) ==
  /\ pc[t] = "enter"
  /\ CanLock(gate, t)
  /\ gate' = Locked(gate, t)
  /\ passes' = [passes EXCEPT ![t] = Append(@, NewPass)]
  /\ owed' = FALSE
  /\ Go(t, "loop")
  /\ UNCHANGED <<roles, listVars, block, needToInvoke, loaded, blocks, cb>>

Advance(p, step) ==
  [i |-> p.i + step, called |-> Append(p.called, watchers[p.i + 1]),
   removed |-> p.removed, shifts |-> p.shifts]

(* Mistake: the index is advanced by the loop and by its body. *)
CallEverySecond(t) ==
  /\ pc[t] = "loop"
  /\ Current(t).i < Len(watchers)
  /\ passes' = [passes EXCEPT ![t][Depth(t)] = Advance(Current(t), 2)]
  /\ Go(t, "run")
  /\ UNCHANGED <<roles, listVars, blockVars, gate, cb>>

(* The loop calls the next callback ... *)
CallNext(t) ==
  /\ pc[t] = "loop"
  /\ Current(t).i < Len(watchers)
  /\ passes' = [passes EXCEPT ![t][Depth(t)] = Advance(Current(t), 1)]
  /\ Go(t, "run")
  /\ UNCHANGED <<roles, listVars, blockVars, gate, cb>>

(* ... which returns 0: the loop goes on. *)
Return(t) ==
  /\ pc[t] = "run"
  /\ InPass(t)
  /\ Go(t, "loop")
  /\ UNCHANGED <<roles, listVars, blockVars, gate, cb, passes>>

(* The end of invoke(): nothing is pending any more, and the gate is left. *)
LeavePass(t) ==
  /\ needToInvoke' = FALSE
  /\ passes' = [passes EXCEPT ![t] = SubSeq(@, 1, Len(@) - 1)]
  /\ gate' = Unlocked(gate, t)
  /\ Go(t, "run")
  /\ UNCHANGED <<roles, listVars, block, loaded, blocks, owed, cb>>

PassDone(t) == pc[t] = "loop" /\ Current(t).i >= Len(watchers)

EndPass(t) == PassDone(t) /\ LeavePass(t)

(* A callback that returns another value than 0 ends the notification. *)
Break(t) == pc[t] = "run" /\ InPass(t) /\ LeavePass(t)

-------------------------------------------------------------------------------
(* block(): _block++ is a read and a write. *)
Block(t) ==
  /\ pc[t] = "run"
  /\ t \in roles.block
  /\ blocks[t] < roles.nested
  /\ roles.inside \/ ~InPass(t)
  /\ loaded' = [loaded EXCEPT ![t] = block]
  /\ Go(t, "store+")
  /\ UNCHANGED <<roles, listVars, block, needToInvoke, blocks, owed, gate, cb, passes>>

BlockStore(t) ==
  /\ pc[t] = "store+"
  /\ block' = loaded[t] + 1
  /\ loaded' = [loaded EXCEPT ![t] = 0]
  /\ needToInvoke' = FALSE
  /\ blocks' = [blocks EXCEPT ![t] = @ + 1]
  /\ Go(t, "run")
  /\ UNCHANGED <<roles, listVars, owed, gate, cb, passes>>

(* unblock(): returns when the list is enabled() already, or goes on to
   _block--, again a read and a write. *)
Unblock(t) ==
  /\ pc[t] = "run"
  /\ blocks[t] > 0
  /\ roles.inside \/ ~InPass(t)
  /\ blocks' = [blocks EXCEPT ![t] = @ - 1]
  /\ Go(t, IF block = 0 THEN "run" ELSE "load-")
  /\ UNCHANGED <<roles, listVars, block, needToInvoke, loaded, owed, gate, cb, passes>>

UnblockLoad(t) ==
  /\ pc[t] = "load-"
  /\ loaded' = [loaded EXCEPT ![t] = block]
  /\ Go(t, "store-")
  /\ UNCHANGED <<roles, listVars, block, needToInvoke, blocks, owed, gate, cb, passes>>

(* Mistake: unblock() enables the list whatever the count. *)
UnblockStoreZero(t) ==
  /\ pc[t] = "store-"
  /\ block' = 0
  /\ loaded' = [loaded EXCEPT ![t] = 0]
  /\ Go(t, "test")
  /\ UNCHANGED <<roles, listVars, needToInvoke, blocks, owed, gate, cb, passes>>

UnblockStore(t) ==
  /\ pc[t] = "store-"
  /\ block' = loaded[t] - 1
  /\ loaded' = [loaded EXCEPT ![t] = 0]
  /\ Go(t, "test")
  /\ UNCHANGED <<roles, listVars, needToInvoke, blocks, owed, gate, cb, passes>>

(* Mistake: the last unblock() does not look at the pending flag. *)
UnblockSilent(t) ==
  /\ pc[t] = "test"
  /\ Go(t, "run")
  /\ UNCHANGED <<roles, listVars, blockVars, gate, cb, passes>>

(* The last unblock() delivers what is pending: it continues in invoke(). *)
UnblockTest(t) ==
  /\ pc[t] = "test"
  /\ IF needToInvoke /\ block = 0 THEN InvokeHead(t) ELSE Go(t, "run")
  /\ owed' = (owed /\ (needToInvoke /\ block = 0 => watchers # <<>>))
  /\ UNCHANGED <<roles, listVars, block, needToInvoke, loaded, blocks, gate, cb, passes>>

Next ==
  \E t \in Threads :
    \/ \E c \in Callbacks : Install(t, c)
    \/ Grow(t) \/ PushBack(t)
    \/ \E c \in Callbacks : RemoveDest(t, Dest[c])
    \/ Invoke(t) \/ SetNeed(t) \/ EnterPass(t) \/ CallNext(t) \/ Return(t)
    \/ EndPass(t) \/ Break(t)
    \/ Block(t) \/ BlockStore(t)
    \/ Unblock(t) \/ UnblockLoad(t) \/ UnblockStore(t) \/ UnblockTest(t)

Spec == Init /\ [][Next]_vars

-------------------------------------------------------------------------------
(***************************************************************************)
(* cb_pushback() compares before it takes the gate, with one place to spare,  *)
(* so two threads may install at the same time (a third could write past the  *)
(* array).                                                                  *)
(***************************************************************************)
InBounds == Cardinality(roles.install) <= 2 => Len(watchers) <= arraySz

(***************************************************************************)
(* remove() waits for the notification that is running: a callback that runs  *)
(* is installed, or was removed from inside this very notification.  Its      *)
(* owner may delete what remove() returned unless it is itself being called.  *)
(***************************************************************************)
RunningIsInstalled ==
  \A t \in Threads : \A k \in 1 .. Depth(t) :
    LET p == passes[t][k] IN
      p.called # <<>> => Last(p.called) \in ToSet(watchers) \cup p.removed

(***************************************************************************)
(* "The node chain is a fifo list" (msgcb.h): a notification calls each        *)
(* callback once, in the order of installation, whatever the callbacks and    *)
(* the other threads do; only a callback that is removed and installed again  *)
(* meanwhile may be called again.                                            *)
(***************************************************************************)
OnceInOrder ==
  \A t \in Threads : \A k \in 1 .. Depth(t) :
    LET p == passes[t][k] IN
      \A m \in 1 .. Len(p.called) : \A n \in m + 1 .. Len(p.called) :
        {p.called[m], p.called[n]} \cap p.removed = {} =>
          \E x \in 1 .. Len(watchers) : \E y \in x + 1 .. Len(watchers) :
            watchers[x] = p.called[m] /\ watchers[y] = p.called[n]

(***************************************************************************)
(* A notification that runs to its end has called every callback of the list, *)
(* but for one per callback that was removed from inside it at or before the  *)
(* place it had reached (the loop's index stays, the list moves).             *)
(***************************************************************************)
SkipsOnlyByRemoval ==
  \A t \in Threads : PassDone(t) =>
    Cardinality(ToSet(watchers) \ ToSet(Current(t).called)) <= Current(t).shifts

(***************************************************************************)
(* A notification put off by block() is not lost: it stays pending until the  *)
(* unblock() that delivers it.  This takes one thread that blocks and         *)
(* notifies, that does not nest its blocks and does not block in callbacks.   *)
(***************************************************************************)
OneNotifier(t) ==
  roles.invoke = {t} /\ roles.block = {t} /\ roles.nested <= 1 /\ ~roles.inside

OwedIsDelivered ==
  \A t \in Threads : OneNotifier(t) /\ owed =>
    needToInvoke /\ (blocks[t] > 0 \/ pc[t] \in {"load-", "store-", "test", "enter"})

(***************************************************************************)
(* "count of blocks" (msgcb.h): with one thread that blocks, the counter is    *)
(* the number of its block() calls without their unblock().                   *)
(***************************************************************************)
BlocksCounted ==
  \A t \in Threads : roles.block \subseteq {t} /\ pc[t] \notin {"load-", "store-"}
    => block = blocks[t]

(***************************************************************************)
(* "true when blocked, then tripped by invoke" (msgcb.h, of _needToInvoke):    *)
(* while the list is blocked and an invoke was put off, the flag is true.      *)
(***************************************************************************)
NeedWhenTripped == block # 0 /\ owed => needToInvoke
===============================================================================
