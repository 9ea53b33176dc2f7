# go_data: a verification project

go_data is a C++ library of "guarded observable data components": values, containers,
timers and state machines that several threads share and that tell their observers
(callbacks) when they change. This directory holds TLA+ models of its parts, the TLC
configurations that check them on small instances, and proofs, checked by TLAPS, of what
holds for every number of threads, callbacks and elements.

All paths below are relative to the repository. The models follow the Linux build of
`CMakeLists.txt`.

## The system

| component | state | operations | what makes it correct |
|---|---|---|---|
| `MutexGate`, `FastGate`, `GateScope` | `_isCreated`, the mutex | `enter`, `exit`, both with a late `create` | one thread inside; a gate that is settled stays so; a waiting thread gets in |
| `MsgCB` | the array of callbacks, `_block`, `_needToInvoke`, its gate | `install`, `trigger`, `remove`, `invoke`, `block`, `unblock`, copies | callbacks are called once, in order; none that was removed; what is put off is delivered; the array is large enough; lists that call each other do not block each other; each callback is deleted once |
| `Callback`, `ArgList`, `PBVParameter` | the receiver; the arguments, in place or in an array | `invoke`; `<<`, `addArg`, `clear`, `init`, copies | they arrive as they were put in; each text has one owner |
| `semaphore`, `grdeque` | a count and its sleepers; the elements and their mutex | `post`, `wait`; `push_*`, `pop_*`, `insert`, `erase`, `clear`, `assign` | a pop that got its permit finds an element; no wake-up is lost |
| `Thread` (`threads.cpp`, `thread_core.cpp`) | handle, `_isActive`, `_shouldStop` | `start`, `stop`, `join`, `threadProc` | at most one thread per object; `join` returns after it has ended |
| `GOTimer`, `TimedEvent` | the queue of events, the thread, a gate | `notify`, `unnotify`, `start`, `stop`, `clear`, `action` | due events are delivered in order; nothing is delivered after `unnotify`; somebody serves the queue |
| `GOStateMachine`, `GOStateNode`, `StateTimeoutCB` | nodes, transitions, `_active`, timeouts | `process`, `set_active`, `add_*`, `remove_*`, `onTimeout` | exactly one active node, the one the events and timeouts lead to |
| `GOEventTree`, `GTokenMap` | a list for each event; tokens in both directions | `event`, `verify`, `invoke`; `insert`, `erase` | one list for an event, whoever asks; the maps are each other's inverse |
| `GOPriorityTable` | levels and their callbacks | `install`, `changeLevel`, `remove`, `invoke` | a receiver that stays where it is is called as often as it is installed |
| `GONumeric`, `GOSampler`, `GOSum`, `GOMean`, `GOMin`, `GOMax`, ... | the value, the samples, the aggregate | the arithmetic operators, `data`, `recalc` | the aggregate is the one of the samples |
| `GOVector`, `GOMap`, `GOSet`, `GOEnum`, `GOObject` | a container or value, its gate, pre and post callbacks | the container's operations | the observers see each change once |
| `BlobDB`, `ByteBuffer` | a file of blocks in chains, the list of free blocks | `write`, `read`, `recycle`, `open`, `create` | a blob reads back as written; no block in two chains, also after a crash |
| `GOLineStats` | counters, the last rates, a timer event | `onRateCheckInterval`, `data` | no byte is counted twice |
| `GOStopWatch`, `StopWatch` | the time run, a text, a timer event | `start`, `stop`, `reset`, `render` | the text is never ahead of the time; a watch that is gone is not called |
| `ReportMsg`, `ReportMonitor` | the shared message, the registered levels | `debug_report`, `initialize`, `shutdown` | each enabled monitor hears the reports of its level, and no other |
| `Ini*` (not in the CMake build) | deques of sections and fields | `set`, `get`, `remove`, `import`, `save_as` | read as it was saved; one field of a name |
| `GOString`, `PointInTime` | a text with its length; seconds, milliseconds, zone | assignment, editing, printing; arithmetic, comparison | the length is the text's; a computed time is the one the numbers say |
| `DAR` | a stream with its position, the remembered length | `open`, `read`, `readUntil`, `readWhile`, `write`, `seek`, `length` | the file holds what was written |
| `dims`, `crc` ... | plain data | formatting, parsing | |

How they interact. Everything that can be observed owns `MsgCB`s; every `MsgCB` and nearly
every other object owns a gate, created when it is first entered. A change takes the gate,
modifies the data and invokes the callbacks, usually with the gate still held; as the gate
is recursive, a callback may come back to the object that is notifying it. `GOTimer` is a
`Thread` that calls its receivers from its own thread; `GOStateNode` asks it for timeouts;
samplers listen to numerics through `MsgCB` and block their own notifications while they
recalculate. The hard behaviours are therefore: callbacks that change the object they are
called from; unsynchronised reads and writes next to the gates; late creation; stopping and
restarting the timer's thread; gates taken in opposite orders; and, for `BlobDB`, a crash
between two writes. `PROJECT.json` lists them one by one, with the line where each bites.

## The modules

### RecursiveMutex, MutexGate

`RecursiveMutex` is the external POSIX mutex as a value with operators; it is modelled
after what the gates rely on. `MutexGate` models one gate of either class, chosen by `kind`.

| TLA+ | code |
|---|---|
| `isCreated`, `section` | `_isCreated`, `_section` |
| `gatePc` | where a thread is inside `enter`, `exit` or `create` |
| `depth`, `inits` | observers: nested scopes; how often the mutex was initialised |
| `Enter`, `InitSection`, `SetCreated`, `Lock` | `enter` and the three steps of `create` |
| `Exit`, `FastExit`, `Unlock` | `MutexGate::exit`, `FastGate::exit` |

The test and the assignment of `_isCreated` are a data race in the code; the model keeps
them apart and lets any thread run between them. The mutual exclusion has exactly one hole:
`ExclusionUnlessReinitialised` says two threads are inside only if the mutex was
initialised twice, and `SettledForEver` that the hole closes for good: once the gate is
created, nobody is inside `create` and the mutex agrees with the threads, every step keeps
it so. `InsideIsCreated` is what the comment in `fastgate.h` (61-62) relies on.
`SomeoneGetsIn` is the liveness.

### MsgCB

One list, several threads, and their callbacks. `passes[t]` is the stack of notifications
thread `t` is inside of: the gate is recursive, so a callback may call `invoke` again.

| TLA+ | code |
|---|---|
| `watchers`, `arraySz` | `_cbArray[0 .. _cbWatchers-1]`, `_cbArraySz` |
| `block`, `needToInvoke`, `gate` | `_block`, `_needToInvoke`, `_cbGate` |
| `pc`, `cb`, `loaded` | the position and the local variables of a thread inside an operation |
| `passes[t]` | the loops of `invoke`, with their index; `called`, `removed`, `shifts` are observers |
| `installs`, `blocks`, `owed` | observers (and the bound on installations) |
| `Install`, `Grow`, `PushBack` | `install`/`trigger`, then `cb_pushback` before, at and after `cb_grow` |
| `RemoveDest` | `remove`, with `cb_erase` |
| `Invoke`, `SetNeed`, `EnterPass`, `CallNext`, `Return`, `EndPass`, `Break` | `invoke` |
| `Block`, `BlockStore`, `Unblock`, `UnblockLoad`, `UnblockStore`, `UnblockTest` | `block`, `unblock`; `++` and `--` are a read and a write |

`_isDead` is false throughout and the gate has been created: both are about the ends of a
list's life. `remove(srcObj, destObj)` behaves like `remove(destObj)`, as all callbacks of
one list carry the list's `srcObj`. Who may do what is the variable `roles`, chosen in the
initial state among the constant `RoleChoices`: several of the properties hold for some
uses of the list only, and say for which ones in their first conjunct:

- `InBounds`: at most two threads install. `cb_pushback` compares with one place to spare
  before it takes the gate; three threads can write past the array.
- `OwedIsDelivered`: one thread that blocks, does not nest its blocks and does not block
  inside callbacks. Otherwise notifications do get lost: see `NeedWhenTripped` below, the
  overtaking of `_needToInvoke = true` by another thread's `unblock`, and the end of an
  outer `invoke` that resets what an inner one has put off.
- `BlocksCounted`: one thread blocks.

`RunningIsInstalled`, `OnceInOrder` and `SkipsOnlyByRemoval` hold for all. The last one is
the precise form of a surprise: a callback that removes itself makes the loop skip the next.

`cb_erase` closes the hole in the array with a `memcpy` of overlapping ranges
(`msgcb.cpp:53-55`), which C leaves undefined. `RemoveDest` takes the outcome of a copy that
goes upwards, from a lower address to a higher one, which is an exact removal; what another
copy would leave there is not modelled.

### TriggeredLists

Several lists, which a `MsgTriggerNode` or a callback of the program uses from inside each
other. A notification keeps its gate while it calls, so threads take gates while they hold
others. Of one list, only the gate and what its callbacks lead to are modelled; whether it is
blocked is left open each time.

| TLA+ | code |
|---|---|
| `nodes`, `gates` | `_cbArray` (the lists that are triggered, or `Plain`) and `_cbGate` of each list |
| `calls[t]` | the loops of `invoke` a thread is in; `relayed` if a trigger node called it |
| `doing[t]` | what the thread does next, or the gate it waits for and what for |
| `uses`, `changes` | observers: which list was used inside which; the bound on changes |
| `InstallNode`, `Store`, `RemoveNode`, `Erase` | `trigger(MsgCB&)`, `install`, `remove`, up to the gate and under it |
| `InvokeList`, `EnterList`, `CallNode`, `CallReturns`, `LeaveList` | `invoke`, with `MsgTriggerNode::invoke`: a result other than 0 ends the outer notifications, too |

`NoCircle` is the answer to the question when threads wait for each other for ever: never,
if there is an order in which the lists are used inside each other. Two lists that trigger
each other have no such order, and two threads that notify them at once do stop.
`NotifierHolds`: whoever is in a notification of a list, and nobody else, has its gate, whatever
the callbacks return. The run checks both as `ListsRight`.

### ListCopies

The ends of the lists' lives. `GOObject`, `CBNode` and `GOEventNode` copy their `MsgCB`, so
objects at a few addresses are made (`Construct`, `CopyConstruct`), assigned (`Assign`) and
destroyed (`Destroy`) in any order; callbacks are installed (`InstallIn`), handed back
(`RemoveFrom`) and deleted by the program (`DeleteLoose`). `held` and `isCopy` are `_cbArray`
and `_isCopy`; `heap` are the callbacks there are, `loose` those in the program's hands;
`original`, `inCopies` and `mishaps` are observers. An address may be used again. The run
checks the three properties as `CopiesRight`.

- `DeletedOnce` and `NothingLost`: who deletes a callback is settled by `_isCopy` alone. What
  is installed in a copy, however, nobody deletes, and `GOEventTree` keeps all its lists as
  copies, because it inserts its nodes into a map (`goeventtree.cpp:42`).
- `CallsLive` takes the program's care: originals outlive their copies ("outlived"), and what
  is removed is in one list only ("taken").

### GRDeque, DequePromise

`grdeque` with its semaphore. A pop is two steps, `Wait` (the permit) and `Take` (the mutex
and the element), a push is two steps, `Put` and `Post`, inside the mutex. `clear` is one
step: it holds the mutex, and no permit can be taken while the count is 0.

| TLA+ | code |
|---|---|
| `elems`, `count` | the `std::deque`, `_sem._count` |
| `pc` = post, sleep, awake, permit | holding `_mtx`; in the condition variable; notified; past `_sem.wait` |
| `aim[t]` | the end to pop from, or the element of `erase`'s iterator |
| `stale` | the threads in `erase` whose iterators the `std::deque` has invalidated: all, when it is pushed to, inserted into, assigned or cleared, or loses an element between two others |
| `ub` | undefined behaviour was reached: the model stops there |
| `debt` | observer: elements taken away (or, negative, added) without their permits |

`DequePromise` is the abstract specification: an element is set aside for whoever gets past
the wait, and a pop fails only while `clear` or `assign` has left promises without
elements. `KeepsPromise` is the refinement, with `size <- Len(elems)` and
`reserved <- At("permit")`. `Accounting` is the invariant behind it, `NoLostWakeup` and
`PermitIsTaken` are about the condition variable, and `EraseNotStranded` combines them for
`erase`, which waits without a timeout.

Left out: the copies and the two inserts that call `semaphore::post(n)` (no such function,
they do not compile when used), and callers that hold `mtx()` themselves while they call an
operation: `IniSection::remove` and `IniFileDB` do, and lock themselves out.

### Thread, TimerThread

One `Thread` object, the users that start and stop it, and the POSIX threads that come of
it. `TimerThread` extends it with what `GOTimer` does around: `_done`, `start`, `stop` and
the condition of `timer_proc`.

| TLA+ | code |
|---|---|
| `handle`, `isActive`, `done` | `_handle`, `_isActive` of the thread, `_done` of the timer |
| `os`, `canceled` | external: the POSIX threads and their pending cancellations |
| `TimerStart`, `StartTest`, `Create`, `Store` | `GOTimer::start`, `Thread::start`, `create` |
| `TimerStop`, `JoinTest`, `JoinCancel`, `JoinWait`, `Stop` | `GOTimer::stop`, `Thread::join`, `stop` |
| `Begin`, `ActionBegins`, `TimerProcSleeps`, `WakeUp`, `TimerProcReturns`, `End` | `threadProc`, `action`, `timer_proc` |
| `Abort` | a canceled thread unwinds into `catch (...)` of `MsgCB::invoke` |
| `wanted`, `hasty` | observers |

`_isActive` is set by the new thread itself and read without a lock, so what `start` and
`join` decide depends on whether the thread has run yet. The observer `hasty` names the
uses for which that matters: an operation that begins while another is under way or while
the new thread has not run, and a `stop` of a timer that is not started. For all other
uses, by any number of threads, the class keeps what it promises: `OneServer`,
`ServedOrOver`, `DefinedUnlessHasty`, `JoinReturns`. For hasty ones it does not: there may
be two threads (the gate of `_responseCB` lets one at a time into `timer_proc`), the handle
of a running thread may be lost or canceled, and a canceled one, once it sleeps, aborts the
process. `StopsInTheEnd` is what remains for them.

A `stop` of a timer that is not started is not far-fetched: `~GOTimer` calls `stop()`
whatever went before (`gotimer.cpp:166`), so a timer that was never started, or was stopped
explicitly, calls `pthread_cancel` (`threads.cpp:141`) on a handle that is none. POSIX does
not define the outcome; in the model it sets `ub`, and `hasty` covers it.

Left out: `destroy`, failures of `pthread_create`, a timer's own thread that stops the
timer, other threads of the process that get a joined handle's value, cancellation points
inside the receivers' callbacks.

### GOTimer

The queue of events and the thread that serves it. As the gate is held throughout `action`,
callbacks included, one variable, `at`, says where whichever thread holds it is; how many
threads there are is `TimerThread`'s question. The two modules meet in `_done` (`SetDone`
here, `TimerStart` and `TimerStop` there) and in `timer_proc`, whose sleep is `at = "out"`.

| TLA+ | code |
|---|---|
| `queue`, `dead`, `done`, `ticker` | `_events`, `_dead_timers`, `_done`, `_event_ticker` |
| `cur`, `since` | the local variables `evt` and `now` of `action` |
| `boot`, `time` | what the clock shows at the start; the true time, for the properties |
| `Notify`, `Unnotify`, `UnnotifyDest`, `Clear` | the operations, from outside or from a callback |
| `Enter`, `Leave`, `Loop`, `Sleep`, `Drop`, `PutBack`, `Call`, `Repeat`, `Expire` | `action`, with `TimedEvent::trigger` |
| `Bury`, `Buried` | `remove_the_dead` |
| `Places`, `Inserted` | external: `multiset::insert` with `TimedEvent::operator<` |
| `deleted`, `after`, `quiet`, `muddled` | observers |

The clock counts modulo `Cycle` (2^32 in the code). `unnotify(dest)` sets a time inside the
ordered set to 0; `operator<` does not order such an event, so where the next one is
inserted depends on the shape of the tree, and `Places` allows every place between two
neighbours that were compared. `muddled` says that this has happened since the queue was
last empty; `FirstIsEarliest` and `DueIsServed` are about queues where it has not and whose
times lie in one turn of the clock. The other properties hold without such conditions:
`Custody` (who deletes the callbacks), `NeverEarly`, `QuietAfterUnnotify` (a receiver may go
after `unnotify(dest)`, when that was not called from its own callback), `OneMoreAtMost`.

Left out: the drift, which only corrects the length of a sleep, and `report`. `action` looks at
the number of events before it takes the gate, and computes the drift from the first one
when it has it (`gotimer.cpp:34`, `46`): if the events have gone meanwhile it reads the front of
an empty set, on which only the drift depends.

### GOStateMachine

The machine, its nodes, and the threads that work on them: the users' and one for each
node's timer. A thread is where it is in the code, a stack of frames, as a change of state
calls itself through the leave and enter callbacks; which gates are held follows from the
stacks. Of a node's `GOTimer` the model keeps its events, `_done` and what has become of its
thread, with the rules that `GOTimer` and `TimerThread` establish in detail; time is left
out, any event may be due at any moment.

| TLA+ | code |
|---|---|
| `states`, `active` | `_states`, `_active` of the machine (`Gone`: a node that was deleted) |
| `node[n]` | `_isActive`, `_transitions`, `_hasTimeout`, the timeout's destination, `_token`, `_hTimer` and `_timer` |
| `stack[t]` | where a thread is; `inside` an on-enter callback it may process another event |
| `Process`, `Move`, `LeaveCB`, `Left` | `GOStateMachine::process`, `GOStateNode::process`, `onStateLeaveCB` |
| `SetActive`, `Choose`, `Activate`, `EnterCB`, `Entered`, `Push`, `Close`, `Arm`, `Start` | `set_active(true)`, `onStateEnterCB`, the push of a callback to the next state, the timer |
| `Deactivate`, `Stop`, `Join`, `Unnotify` | `set_active(false)` with `GOTimer::stop` and `Thread::join` |
| `Deliver`, `Timeout`, `ActionEnds`, `Sweep`, `LoopEnds`, `ThreadEnds` | the timer's thread and `onTimeout` |
| `AddTransition` ... `RemoveState` | the edits of the machine |
| `odd`, `visit` | observers |

Most of what one would like to say of the class holds for some uses only, and `odd` names
what has to have happened for it to fail:

- `OneActive`: at rest the machine's state is the active one and no other is. Not so after
  operations of two users, of a user and a timer or of two timers overlapped (a timeout that
  races with `process` or `set_active` may leave both states active), after a state was
  entered that was still being left ["again"], after a callback pushed away from a state
  that its own nested call had left ["stale"], or after a timeout or a state was removed.
- `TimeoutOfThisVisit`: what `_token` is for. `TokenMatches` says it of all uses, and is
  violated (see the findings).
- `DefinedIfTimed`: the process survives if the timers of all states that are entered are
  started and their threads end in time. This includes the remarkable way in which a state
  is left by its own timeout: its timer's thread stops its own timer, cancels itself, and
  survives only because the loop looks at `_done` before it sleeps. A state without a
  timeout, or one that is pushed away from in its on-enter callback, has a timer without a
  thread, which is stopped all the same: `pthread_cancel` of a handle that is none.
- `NoDeadlock`: no circle of threads in gates and joins, as long as users keep out of the
  way of each other and of timeouts, no active state's timeout and no state is removed, and
  timeouts that overlap and on-enter callbacks that use the machine do not come together.
  Each of these conditions is needed: see the observations.
- `TimeoutComes`: a state with a timeout is left in the end.

Bounds, apart from those of the instance: edits of the machine happen while nothing else
goes on (the code takes no gate that would allow more), and pushes only on the first visits.
Left out: payloads, the list for invalid events, copies of a machine.

### BlobStore, BlobDB

The file of blobs, each a chain of blocks; the blocks of recycled blobs are a chain of their
own, whose head is in the file's header. A step is one write to the file with the seek
before it, and the process may end between any two: `disk` is what is left then. stdio keeps
the last write back until the next seek, flush or close, so `disk` is one write behind; after
a crash that follows `create` at once the file is empty (`EmptyFile`), and `open` fails.

| TLA+ | code |
|---|---|
| `file`, `disk`, `hdr`, `len` | the file as the process and as its successor sees it, `_hdr`, `DAR::_len` |
| `at`, `op`, `sizing` | the operation that has the gate, its local variables, those of a `getsz` |
| `Write`, `Reuse`, `AppendBlock`, `Fill`, `WriteHeader`, `Flush` | `BlobDB::write`, `BlobHeader::get_block`, `append_block` |
| `Recycle`, `Walk`, `Save` | `BlobDB::recycle`, `BlobHeader::recycle_blob` |
| `Read`, `ReadBlock`, `ReadEnds` | `BlobDB::read`, `push_data` |
| `GetSize`, `SizeBlock`, `SizeEnds` | `getsz`, which takes no gate: its steps fall between those of the others |
| `SizeStray`, `StrayRead` | one of them reads where the other has sought, and goes on from there |
| `StrayWrite`, `StrayReuse`, `StrayWalk`, `StrayLength` | an operation writes where `getsz` has sought, or takes what it reads there for its own: other blobs are damaged |
| `RecycleAgain` | garbage is recycled again: its chain becomes a circle |
| `Create`, `Open`, `Close`, `Crash` | the file's life |
| `live`, `crashes` | observers |

`BlobStore` is the abstract specification: a blob that `write` has returned stays what it is
through all other operations and through crashes, until it is recycled or the store is
misused. `KeepsPromise` is
the refinement. It holds because `write` flushes before it returns and a recycled block is
rewritten before the header gives it up; what a crash may cost is space (blocks that are in
no chain, a size of the chain of free blocks that is not its length). `OwnBlocks`: no block
in two chains, nor in one that is free. `OperationsEnd`: no chain is a circle.

`getsz` uses the file's one position without the gate. As long as its seeks do not fall
between a seek of another operation and the read or write after it, everything holds,
however the steps interleave otherwise. If one does:

- a `read` or the `getsz` itself goes astray (`astray`): it hands on, or adds up, something else.
  `ReadsWhole` says that only these do, that a `read` does not overrun its buffer even then, and
  `OperationsEnd` that it comes to an end.
- a write hits another blob's block, or `get_block`, `recycle_blob` or `DAR::length` take what they
  find for their own. The promise is broken then, and so it is when garbage is recycled
  again; `Misuse` names these steps, whose result is in `file`, and after which the model stops
  ("spoilt"). A program that calls `getsz` must keep the other threads out itself.

Bounds: one `getsz` at a time, one read astray in a `read`; what was read astray is not
compared with anything and left out. Preconditions, of the users: a blob that is read or sized is one
that was written and not recycled. Left out: writes that fail (`write` does not look at what `DAR`
returns), `recycle_block`, which nobody calls.

### Library and its parts

Twelve modules model what is built of values, containers and lists of callbacks. They share no
state; `Library` composes them so that a behaviour is one of the part its `subject` names.
Each part has one property, stated in its module, and the three invariants of `Library` join
those that ask the same question: `FiguresRight`, `EveryoneTold`, `ContentsRight`. In each
part an observer whose name ends in `Odd` (or `quirks`, `excused`) collects what
the code is not prepared for, and the property says what holds as long as that has not
happened.

| module | code | property | not prepared for |
|---|---|---|---|
| `Aggregates` | `GONumeric` and `GOSum`, `GOMean`, `GOMin`, `GOMax`, `GOVariance`, `GOStdDev` over a vector | `AggregatesExact` | `*=`, which reports the old value minus the new; an extreme that is 0, as it is of no elements, although none of them is; the variance right after an erasure |
| `LineStats` | `GOLineStats`, `GOSampler` | `RatesRight` | bytes that arrive between the two reads of the counter (in no rate); a sum of rates beyond 32 bits |
| `StopWatches` | `GOStopWatch`, `StopWatch` | `WatchesRight` | a watch that is reset while it runs, or destroyed while it is called |
| `PointsInTime` | comparison and arithmetic of `PointInTime` | `TimesRight` | daylight saving time, negative milliseconds, the borrow in `subtractMS`, sums and products outside of GMT, an earlier time less a later |
| `Containers` | `GOVector`, `GOMap`, `GOSet` | `VectorWatched`, `MapWatched`, `SetWatched` | operations that tell nobody (`resize`, `assign`, assignment of maps) or use an iterator that is gone (`insert` of a range, `erase` of a range of a map or a set); a callback of an erasure that erases the same element, moves or takes away what an iterator of the erasure stands at, changes which element is last, or makes another one `current()` |
| `Dispatch` | `GOPriorityTable`, `GOEventTree`, `GTokenMap` | `CalledAsInstalled`, `OneListPerEvent`, `TokensPaired` | receivers behind one that is moved or removed while the level is called; a second look-up that misses a level, again, and dereferences null; a token that is kept until the ticker comes round to it, and a callback that erases the source that is being erased |
| `Reports` | `debug_report`, `ReportMsg`, the monitors | `ReportsArrive` | monitors whose ids are equal once cut to 32 bits; `level()` without registering it |
| `ByteBuffer` | `ByteBuffer` | `BufferFits` | anybody else who uses the buffer during `append` |
| `GOStrings` | the text and the length of a `GOString` | `StringRight` | `shift` (keeps the old length), `resize`, `insert` into a string without text, a `sprint` of the very length (loses a character) or longer (uses its `va_list` twice) |
| `DiskFiles` | `DAR` | `FileRight` | `readWhile`, which puts a byte back over the next one |
| `Arguments` | `ArgList`, `PBVParameter` | `ArgumentsRight` | a list that grows while it holds a text; `init` or `set` on a text; a parameter added or assigned to itself |
| `IniFiles` | `IniFileDB`, `IniSection`, `IniField` | `IniRight` | two threads in `set`; `remove`, `clear` and `import`, which lock their own thread out |

The gates of the containers, the table and the token map are recursive, so a callback may use
what calls it. An erasure begins, tells its watchers one element after the other, and ends, and
in every callback any operation may begin, erasures included. What an erasure holds on to
meanwhile (an iterator, `current()`, "the last element") may be gone then; where that leads to
something undefined, or to an erasure that nobody was told of, the observer says so and the
part stops. Everything else that callbacks do leaves the watchers right. Two look-ups take no
gate at all: `event()` in the tree of events and `install()` in the table of levels. A thread that
searches while another inserts may miss what is there (`torn`); of what such a race may do,
this is the outcome taken, as the others (a crash of the process) leave nothing to say. A
report may be taken for one of another thread that reports meanwhile; `ReportsArrive` says
that the monitors it reaches are then those that the level of one of these reports asks for.

`CIntegers` has what C does with integers: division towards zero, its remainder, and the
conversion to a signed type.

## The runs

| run | instance | states | shows |
|---|---|---|---|
| `gates_and_lists` | 3 threads; a gate of both classes, 2 levels; 2 lists, 2 changes, 2 notifications inside each other; 3 copied objects, 2 callbacks | 831 547 | the properties of the gate, `ListsRight`, `CopiesRight` |
| `msgcb` | 2 to 3 threads, 3 callbacks of 2 objects, 2 nested notifications, 3 installations, 3 choices of roles | 568 317 | the properties of the list |
| `msgcb_nested` | 1 thread | | `NeedWhenTripped` is violated |
| `grdeque` | 3 threads, 2 elements, 3 permits | 131 533 | the properties of the deque and the refinement |
| `gotimer` | 2 receivers, 3 requests, 2 events, times to 6, clock modulo 16 from 0 or 13 | 1 102 780 | the properties of the timer |
| `gotimer_unnotify` | the same | | `AllRemoved` is violated |
| `timer_thread` | 2 users, 2 POSIX threads | 78 493 | the properties of start and stop |
| `thread_join` | 1 user | | `JoinHalts` is violated |
| `state_machine` | 1 user, 2 states with a timeout each or one, 1 event, 2 operations, 2 visits | 723 281 | the properties of the machine |
| `state_machine_token` | 2 users | | `TokenMatches` is violated |
| `blob_db` | 3 contents of 1, 2 and 3 blocks, 2 buffers, 3 blocks, 1 crash, 1 `getsz` at a time | 490 880 | the properties of the file and the refinement |
| `library` | see below | 1 026 799 | `FiguresRight`, `EveryoneTold`, `ContentsRight` |

The bounds. Three threads are the least with which a third party interferes with two that
interact; two levels are the least for nesting; three callbacks let one be removed before,
at and after the index, two of them share a receiver. Three installations are the point
where `cb_grow` is called a second time with the list in use. `MaxCount` only bounds
pushes; with two elements and `assign`, counts above the number of elements are reached.
`MCGatesAndLists` has three models in one run, one of which acts while the others rest: the
gate, the lists that use each other, and their copies. Two lists are the least that trigger
each other, and a callback in each of them lets two threads close a circle; what three lists
could add is covered by the theorem. Three objects are the least with a copy of a copy. No run
uses symmetry. In `gotimer`, two
events are the least that have an order; the delays (2 after clamping, 3 and 4) make a
periodic event overtake another; from 13 the clock turns over after 3 of the 6 steps of
time, with events on both sides of it; `MaxDelay` 4 keeps the code's relation to the clock
(twice the longest delay is less than a cycle). `unnotify(id)` is called once for each
event, as often as wanted for each receiver. In `timer_thread` two users can overlap each
operation with each other one, and a second handle is what a thread can be lost for.

`state_machine`: two states that lead to each other are the least with a visit that is over
and one that has begun again; two operations can overlap, be nested, or follow an edit; each
node has a timer's thread of its own, so three threads meet. `MaxToken` bounds the visits.
`blob_db`: three blocks hold one long blob, or short ones next to a chain of free blocks;
blobs of 1, 3 and 5 units fill their last block by half; a buffer of 2 ends at a block's
boundary and one of 3 within. A second crash finds nothing that the first did not.

`library`: vectors of up to 3 elements, so that the first, the last and another differ, of
numbers with both signs and 0; rates modulo 8 of 2 samples; watches whose seconds have 2
units; three zones and shifts below and above a second, up to 2.5 s; maps and sets of 2 keys, and
vectors, with an erasure inside another's callback (`MaxDepth`, `MaxNested`: 2), as one erasure
meets another only through what both leave behind; levels modulo 4 with 2 receivers installed
twice and one `install()` that others overlap; 3 sources for 4
tokens, so that the ticker comes round; 2 reporters, 2 monitors, ids shared or not; a buffer
that grows from 1 by 2 to at most 5; strings of 2 letters up to 3, printed into 3; one
section with 2 fields, set by 2 threads; files of 3 bytes, read in chunks of 1; lists with one argument
in place and two more one by one, so that they grow twice, with one or two oddities in a history. The deque, the containers and lists of these parts
are the values that other modules show them to be.

`CHECK_DEADLOCK` is on for the gate, the copies, the list and the timer. It is off for the deque,
`TimerThread` and the state machine, which stop where the behaviour of the process is
undefined or ends, and for the file and the library, which stop at their bounds.
`TriggeredLists`, where threads may wait for each other for ever (`NoCircle` says when not),
may stutter in its run.

Fairness. `MutexGate`: a thread inside an operation goes on (the scheduler runs it), and
one that holds a gate leaves it (`GateScope` does at the end of the block); no thread need
ever enter. `GRDeque`: a thread that was notified, or that holds the mutex between element
and permit, runs. `GOTimer`: the thread that serves the queue goes on and callbacks return; nothing is
said of how fast time passes or that anybody calls anything. `TimerThread`: each POSIX
thread runs, and each user that has begun an operation. `GOStateMachine`: every thread inside
an operation or callback goes on, the thread of each timer runs, and a timeout that is due is
not put off for ever behind other events, which `GOTimer` shows of its queue. `BlobDB`: an
operation that has begun goes on. No fairness is assumed of timeouts, of new operations or of the order in
which a mutex is granted, and the safety runs assume none.

Each property of a passing run has a mutant (the definitions introduced by "Mistake:"), a
plausible bug with which TLC finds the property violated; those that join several parts have
one for each part.

### Findings

`msgcb_nested`: `MsgCB::block` resets `_needToInvoke` whenever it is called. The header
says the flag is "true when blocked, then tripped by invoke"; after `block`, `invoke`,
`block` it is false, and the notification that was put off is never delivered.

`gotimer_unnotify`: `gotimer.h` (54) says that `unnotify(dest)` "will remove all timers to
this receiver". Called from the receiver's own callback it does not remove the timer that
is calling: that event is outside the queue while it is delivered, and is inserted again.

`thread_join`: `threads.h` (57) says that `join` "will halt calling thread until this thread
is done". A thread that has not yet set `_isActive` is canceled instead, and `join` returns
while it runs.

`state_machine_token`: `gostatenode.h` (49) says of `_token` "on timeout, token must match -
could leave state then return before 1st timeout happens". `set_active` makes the node
active, runs the on-enter callbacks and counts the token last: a timeout of the last visit
that is delivered in between finds everything in order and leaves the state at once.

### Observations

What the models showed of the code, where no line says otherwise. Names in brackets are the
conditions in which the model keeps them.

- A timeout that was removed may still fire (`RemoveTimeout` keeps the destination), and
  `remove_timeout_transition` makes the active node inactive. ["removed"]
- Threads of a state machine wait for each other for ever in four ways. A user's
  `set_active()` or `process()` that overlaps a timeout: one thread arms the timer of state b,
  whose gate the other's timer holds, and that one arms, or joins, the first's. ["users"]
  `process()` holds its transitions' gate and joins its timer's thread while that thread's
  on-enter callback pushes into the same state. ["users"] On-enter callbacks of two
  overlapping timeouts that both use the machine arm each other's timers. ["timers" and
  "nested"] And timers that run on in states that have become inactive, of which two may arm
  each other: this takes four states. ["removed"]
- A timeout action without a timeout transition leaves the state towards "" after the
  default delay, and `_active` becomes null.
- `remove_state` of the active state leaves the machine with a deleted node. ["removed"]
- `GOPriorityTable::remove` takes one callback of each level, its comment says "any callback
  at any level"; `GOEventTree::invoke` calls `_postEveryCB` only for events
  that have no list of their own.
- `GTokenMap`, once its ticker has come round, gives a token away that is in use. ["outlasted"]
- `PointInTime::operator+` of two points calls `get_TZAbbr(int16_t, uint16_t)`, which calls
  itself without end (`pointintime.cpp:569`); it is not in the model.
- `BlobDB::getsz` in one thread damages the file when another one writes or recycles at the
  wrong moment, and so does recycling a blob again after a crash in `recycle`. ["spoilt"]
- `GOPriorityTable::install` looks for its level twice without the gate and does not look whether
  it found it the second time. ["ub"]
- `GOVector::pop_back` and `GOMap::erase` erase whatever is last, or current, after their
  callbacks; `GOVector::clear` and the erasures by iterator go on with iterators that a callback may
  have made invalid. ["other", "stale"]
- Deriving from `ReportMonitor`, its destructor must call `shutdown()`, or a report that
  arrives meanwhile calls a pure virtual function; levels are never unregistered.
- An `ArgList` with more than six arguments deletes the texts among the first six twice: it
  copies its parameters as bytes, and both copies are destroyed in the end. The library's
  own calls have at most five, and no texts. ["moved"] A list that is added to itself is
  added to without end.
- `DAR::readWhile` says "put it back so it can be the next thing read"; `fputc` replaces the
  next byte. `DAR::readUntil` returns the end of the file as a byte. [`fileOdd`]
- `IniSection::remove`, `IniFileDB::clear` and `IniFileDB::import` never return.

## The proofs

`SequenceFacts` holds lemmas about `SubSeq`, `Append`, `InsertAt` and `RemoveAt` that the
other proofs cite, and about folds: `FoldLeft` goes through a sequence from its first element
to its last (`FoldIs`), so what each step keeps is true of the result (`FoldKeeps`), and
whatever begins and goes on like it ends like it (`FoldEnds`). `FoldLeft` is defined by a
recursive function on sets of indexes; that this function exists, and what it is, follows from
least counterexamples. The module's constants are the fold's operator, its base and what it
keeps: a proof about a fold cites an instance of the module in which they are its own.
Each proof module extends its component's module; `MsgCBProofs` is about the gate, too, and
`TimerProofs` about both sides of the timer.

- `MsgCBProofs`. `GateInv` ties the gate to the notifications: its owner is the one thread
  inside a notification, its count the depth. That is what keeps a `remove` of another
  thread away from a running callback (`MsgRunningIsInstalled`). `Capacity` counts the
  threads that have compared the capacity and not stored yet; with it the array is large
  enough (`MsgInBounds`). Also `MsgTypeCorrect`.
- `MsgCBProofs`, second part. `Counted`: while one thread blocks, the others are outside `block`
  and `unblock`, and the counter is that thread's blocks, one more inside `unblock`. With it
  `Noticed`: during a notification the list is enabled and nothing is owed, so the reset of
  the flag at its end loses nothing; and what is owed is pending. From them
  `MsgBlocksCounted` and `MsgOwedIsDelivered`. `AllWalk` is about the loop: what it called
  and was not removed lies at or before its index, in order, and what lies there and was
  not called is counted by the removals, together with the places by which the index is
  ahead of the end of the list. A lemma each says that installing, removing and calling
  keep this; the gate keeps the removals of other threads out. From it `MsgOnceInOrder` and
  `MsgSkipsOnlyByRemoval`. With these, all properties of the run `msgcb` are proved.
- `MsgCBProofs`, third part, of `MutexGate`. `GateIInv` adds to the types that, while the mutex
  was initialised at most once, the mutex and the scopes agree, and that creation is ordered
  (who is past `create` finds the gate created). Proved: `GateTypeCorrect`,
  `GateExclusion`, `GateInsideIsCreated`, `GateSettledForEver`.
- `MsgCBProofs`, fourth part, of `TriggeredLists`. `ListsInv`: a gate is locked as often as its
  list occurs among the notifications of its owner, and does not occur among those of anybody
  else; a thread that comes to a gate has recorded what it holds. In a circle of waiting
  threads, the one that waits for the last list in the order waits for one that holds this
  list and waits for a later one (`OrderLeadsOut`). Proved: `ListsTypeCorrect`,
  `NotifierHoldsAlways`, `NoCircleEver` and, of both, `ListsRightAlways`.
- `MsgCBProofs`, last part, of `ListCopies`. `CopiesInv`: two lists that are no copies have no
  callback in common, and, while originals outlive their copies, who has a callback of an
  original is a copy of it. A lemma for each operation; `ClearListTakes` says that nothing is
  deleted that somebody else has. Proved: `CopiesTypeCorrect`, `CopiesCallLive`,
  `CopiesDeleteOnce`, `CopiesLoseNothing` and, of all three, `CopiesRightAlways`.
- `GRDequeProofs`. `Accounting` and `NoLostWakeup` are inductive with the types; each step
  moves one unit between the places that are counted (lemma `Move`). Proved:
  `DequeTypeCorrect`, `DequeAccounting`, `DequeNoLostWakeup`, `DequeEraseNotStranded` and the refinement
  `DequeKeepsPromise`.

- `TimerProofs`, of `TimerThread`. Without haste, `Order` holds: the operation under way determines
  whether there is a thread, and the handle and `_isActive` are that thread's. Proved:
  `TimerThreadTypeCorrect`, `TimerThreadOneServer`, `TimerThreadServedOrOver`,
  `TimerThreadDefined`, for any number of users and handles.
- `TimerProofs`, of `GOTimer`. First what `insert`, `erase` and `stop` do to the events of a queue.
  `IInv` then says of an unnotified receiver that the queue has only stopped events of it,
  and of an unnotified event that it is among the dead or gone, and that the dead are swept
  before the next first event is looked at: `TimerTypeCorrect`, `TimerCustody`,
  `TimerQuiet`, `TimerOneMore`. `TInv` says that an event that is not stopped shows when it
  is due, modulo `Cycle`, at most `MaxDelay` ahead, and that an undisturbed queue is in
  order; a few lemmas about division carry that over to the true time:
  `TimerNeverEarly`, `TimerFirstIsEarliest`. They use that twice `MaxDelay` is less than
  `Cycle`, which is so for seven days and 32 bits of milliseconds.

- `BlobDBProofs`. A chain of the file is a path, the smallest set closed under "next
  block" (`PathInduction`); that the recursive functions of `BlobDB`, which give the chain of
  a block and the blob that is stored in it, do so is shown by a least counterexample
  (`LeastNumber`), as there is no induction to cite. Then a lemma says what a write of one
  block does to the paths it is not on (`PathFrame`, `ListFrame`) and one what it does to the
  path it extends. The invariant is `Sound`, said of the file and of the disk, which is one
  write behind: every blob that is live is stored in its chain, the chains have no block in
  common, nor one with the chain of free blocks. To it comes what the operation under way
  has done so far, and (`Measured`) that a `getsz` that is not astray is at a block of its blob
  and has added up what is before it. All this is `IInv`; the invariant is `IInv \/ Void`: a file
  that is spoilt stays so, and nothing is promised of it. Proved: `BlobTypeCorrect`, `BlobOwnBlocks`, `BlobReadsWhole` and the
  refinement `BlobKeepsPromise`, for any sizes of blocks, buffers and blobs, any number of
  blocks and of crashes.

- `GOStateMachineProofs`. The actions that change the stacks are instances of a few shapes (a
  frame is replaced, taken away, one or two are put on top), for which general lemmas say
  what becomes of the invariant (`FlowKeeps`, `BeginKeeps`, `QuietKeeps`, `EditKeeps`); then
  there is a lemma for each action. `IInv` is `Typed` (the types, what may stand on what in
  a stack, one holder of a gate), `Alone` (as long as nothing overlapped one thread is at
  work), `Agreement` (that thread's stack says which nodes are active), `Visits` (a timeout
  that will be accepted is of this visit) and `Defined` (who has a timer with a thread):
  `StateTypeCorrect`, `StateOneActive`, `StateDefinedIfTimed`, `StateTimeoutOfThisVisit`.
  `Untangled` is the invariant behind `StateNoDeadlock`, for uses that are `Apart`: one user
  at most is at work, the frames of a stack lie in an order in which the gates are taken
  (`Laid`), one thread at most is in a node's on-enter part, a node that is being entered or
  left has a timer that is quiet (`QuietEntered`, `QuietLeft`, `Unheld`), and of two threads
  that overlap one does not wait for the other (`InOrder`). A circle has then a thread in it
  that waits for nobody in it: the only one at work, or the last in that order. Both
  invariants were checked with TLC first, on machines of two to four states.

- `LibraryProofs`. The parts of `Library` do not touch each other, so its invariant,
  `LibraryInv`, is a conjunction with a part for each, and a step keeps each part by the lemma
  of that part. `TimesInv`: a time that was computed without an oddity is normal
  (milliseconds below 1000, no daylight saving) and stands for the exact instant; a lemma
  for each operator says what it does to the instant, by division and remainder by 1000.
  `VecInv`, `MapInv` and `SetInv` say what the watchers know in the middle of erasures inside
  each other: what the container holds less what they were told of and is still there
  (`Going`), and that every erasure will find that where it looks for it (`VecFits`). `TableInv`:
  who is in the priority table, counted by the places (`Spots`) at which it stands; what a call
  leaves out and calls twice is counted by the places that were passed. `TreeInv`: the lists
  that were handed out are those in the tree. `TokenInv`: how old a token is gives its distance
  to the ticker, so tokens differ, and what is being erased is there. `ReportInv`: every monitor's
  level is registered, and the message has the level of one of the reports under way.
  `WatchInv`: what a watch has shown was so when it was read. `AggInv`: the sum and mean are those
  of all numbers, and each extreme is one of them with none beyond it, unless it is 0 and was
  so of none (`Founded`); a sum is a fold, and
  lemmas say what it becomes when a number is inserted, erased or assigned. `LineInv`: the rate
  check under way has read what was received, modulo the width of the counter, and the figures
  are a recalculation of the true rates, which the watchers were told; that the average, which
  wraps around, lies between the extremes when the sum does not is the lemma `RecalcRight`.
  Proved: `LibraryEveryoneTold`, `LibraryFiguresRight` (its conjuncts `TimesCorrect` and
  `LibraryWatchesRight` for themselves) and, with `ContentsProofs`, `LibraryContentsRight`
  (its conjuncts `LibraryBufferFits` and `LibraryFileRight` for themselves).

- `ContentsProofs`, of the parts of `Library` that store something. `BufferInv`: what is used
  fits into what is allocated, and so does what an `append` found room for. `FileInv`: the end of file and the position agree with
  the disk. `StringInv`: memory holds the characters
  and then NUL; what is behind it may be anything, so each operation is a lemma about which
  places it writes. `ArgsInv`: the types of the parameters and, as long as nothing odd
  happened, that each text in memory belongs to one parameter in use (`Sound`), to which
  come, while a list is being deleted, the parameters whose texts are still to go (`Covers`):
  deleting a list is a fold, and so is adding one to another. `IniInv`: threads in `set()` are
  in a section that exists, and while only one is, what it is about to add is not there.
  That the file is read as it was saved (`FileRead`) is true of any sections: `FlattenSeq`
  puts the sections one behind the other (`FlattenIs`, from a least counterexample), so a
  section begins where the lines of those before it end (`FileLinesIs`), the marks of sections
  are where sections begin (`StartsAre`), and what lies between two of them is read as the
  section that was put there (`SectionRead`).

The types of `MutexGate`, `MsgCB`, `TriggeredLists`, `ListCopies`, `GRDeque`, `GOTimer`,
`TimerThread`, `GOStateMachine` and `BlobDB` are proved, for all values of the constants, and
no longer part of their runs.

The assumptions are the named ones of the modules: finitely many threads, `NoThread` is not
a thread, the constants have their types.

Only model-checked is what is temporal beyond safety (`SomeoneGetsIn`, `PermitIsTaken`,
`DueIsServed`, `StopsInTheEnd`, `JoinReturns`, `TimeoutComes`, `OperationsEnd`): liveness
under fairness is out of the prover's reach. Induction over data cannot be cited, either; where
it was needed (`BlobDBProofs`, the folds of `SequenceFacts`), a least counterexample does.

## The plan

Written so far, in this order: the gate, the list, the deque, the thread and the timer; the
state machine; the file of blobs; the parts of the library; their proofs; lists that trigger
each other, and copies of lists. Left: copies that are made while another thread uses the
list, which `operator=` does not lock, and the block count that a copy takes over.

## Not modelled

- `callback.h`, `cb_lambda.h`: calls of member functions. A callback is, in the models, the
  step in which it is called. Assigning one `ArgList` to another, which nobody does.
- `enum.h`, `goobject`: assignments that pass on to a list; nothing is related to anything.
- `grset.h` includes a header that does not exist and cannot be compiled.
- The calendar, formats and parsing (`pointintime`, `ptintm`, `gostring`, `dims`), CRCs, copies,
  locks and temporary names of `DAR`, the files that reports are written to: sequential conversions, and
  input and output.
- The Windows variants and wide characters, which the build does not have.
- Failing system calls (`pthread_create`, writes to the file): the code does not handle them.
