----------------------------- MODULE GOStateMachine -----------------------------
(***************************************************************************)
(* GOStateMachine (gostatemachine.cpp) and its GOStateNodes (gostatenode.cpp): *)
(* states with transitions on events and on a timeout, which their users and  *)
(* the thread of each node's GOTimer work on at the same time.               *)
(*                                                                         *)
(* A thread is where it is in the code: a stack of frames.  The gates that    *)
(* are held follow from the stacks.  Of a timer (GOTimer, TimerThread) it     *)
(* matters which events are in its queue, whether it has a thread and whether *)
(* that has been told to end; time is left out: any event may be due.        *)
(***************************************************************************)
EXTENDS Naturals, FiniteSets, Sequences, SequencesExt

CONSTANTS
  Users,      \* threads that use the machine
  Names,      \* the states; a node's timer thread bears the node's name
  Events,
  Pushes,     \* the events that on-enter callbacks answer with
  Nobody,     \* no node, or no event
  Gone,       \* a node that was deleted
  Machines,   \* what the users have built at first: [trans, dest]
  MaxOps,     \* bound: operations
  MaxDepth,   \* bound: frames of a thread whose callback uses the machine
  MaxToken    \* bound: visits of a node

Threads == Users \cup Names

ASSUME StateMachineAssumption ==
  /\ Users \cap Names = {} /\ Pushes \subseteq Events
  /\ Nobody # Gone /\ {Nobody, Gone} \cap (Names \cup Events) = {}
  /\ Machines \subseteq [trans : [Names -> [Events -> Names \cup {Nobody}]],
                         dest : [Names -> Names \cup {Nobody}]]
  /\ MaxOps \in Nat /\ MaxDepth \in Nat /\ MaxToken \in Nat

VARIABLES
  states,   \* the names in _states
  active,   \* _active of the machine
  node,     \* the nodes
  stack,    \* where each thread is
  ub,       \* the process aborted, or what it does is undefined
  ops,      \* operations begun
  odd       \* observer: what happened that the code is not prepared for

vars == <<states, active, node, stack, ub, ops, odd>>

(* An event of a node's timer: "held" if _hTimer is its id, "loose" if no longer,
   "dead" after unnotify(), "plain" if add_timeout_action() made it. *)
TimerEvent ==
  [token : Nat, kind : {"held", "loose", "dead", "plain"}, visit : Nat]

(* "doomed": the thread has canceled itself, which aborts the process if it
   sleeps again.  "over": it ended, and its handle is still known. *)
Node ==
  [isActive : BOOLEAN, trans : [Events -> Names \cup {Nobody}],
   hasTimeout : BOOLEAN, dest : Names \cup {Nobody}, token : Nat,
   queue : SUBSET TimerEvent, done : BOOLEAN, thread : {"none", "runs", "doomed", "over"},
   visit : Nat]

Places ==
  {"process", "moving", "left", "leaving", "activate", "entering", "inside",
   "push", "pushed", "close", "arm", "start", "choose", "deactivate", "stop",
   "join", "wait", "unnotify", "action", "timeout", "fired", "ending"}

(* "users", "timers": an operation or a timeout began while another one was under
   way, one of them of a user, or both of timers; "nested": in an on-enter
   callback; "stale": such a callback pushed away from a state that had been left;
   "again": the next state was active still; "untimed": a state was entered or
   pushed away from without its timer being started; "unstarted": its timer's
   thread was on its way out; "late": a timeout was given to an active state;
   "removed": it lost its timeout, or a state was removed. *)
Oddities ==
  {"users", "timers", "nested", "stale", "again", "untimed",
   "unstarted", "late", "removed"}

TypeOK ==
  /\ states \subseteq Names
  /\ active \in Names \cup {Nobody, Gone}
  /\ node \in [Names -> Node]
  /\ \A n \in Names : \A e, f \in node[n].queue :
       e.kind = "held" /\ f.kind = "held" => e = f
  /\ \A t \in Threads : \A i \in DOMAIN stack[t] :
       stack[t][i].at \in Places /\ stack[t][i].node \in Names
  /\ ub \in BOOLEAN /\ ops \in 0 .. MaxOps
  /\ odd \subseteq Oddities

(* add_timeout_transition() of a node that was not active yet. *)
Fresh(trans, dest) ==
  [isActive |-> FALSE, trans |-> trans, hasTimeout |-> dest # Nobody, dest |-> dest,
   token |-> 0,
   queue |-> IF dest = Nobody THEN {} ELSE {[token |-> 0, kind |-> "held", visit |-> 0]},
   done |-> FALSE, thread |-> "none", visit |-> 0]

Init ==
  /\ states = Names
  /\ active = Nobody
  /\ \E m \in Machines : node = [n \in Names |-> Fresh(m.trans[n], m.dest[n])]
  /\ stack = [t \in Threads |-> <<>>]
  /\ ub = FALSE
  /\ ops = 0
  /\ odd = {}

-------------------------------------------------------------------------------
(* Threads. *)
Frame(at, n, to) == [at |-> at, node |-> n, to |-> to]
At(t, place) == stack[t] # <<>> /\ Last(stack[t]).at = place
Here(t) == Last(stack[t]).node
To(t) == Last(stack[t]).to

Become(t, frames) == stack' = [stack EXCEPT ![t] = Front(@) \o frames]
Return(t) == Become(t, <<>>)

(* The frames that hold a gate of their node: of its transitions, its leave
   and enter callbacks and its timer. *)
Holders ==
  [trans |-> {"moving", "left", "pushed", "close"}, leave |-> {"leaving"},
   enter |-> {"inside"}, timer |-> {"action"}]

Free(t, gate, n) ==
  \A u \in Threads \ {t} : \A i \in DOMAIN stack[u] :
    ~(stack[u][i].node = n /\ stack[u][i].at \in Holders[gate])

(* A timer's thread that is only looking at its queue is not at work. *)
AtWork(t) == Len(stack[t]) > IF t \in Names THEN 1 ELSE 0

Oddly(what, happens) == odd' = IF happens THEN odd \cup {what} ELSE odd

Both(t, u) == IF {t, u} \subseteq Names THEN "timers" ELSE "users"

Overlap(t) ==
  odd' = odd \cup {Both(t, u) : u \in {v \in Threads \ {t} : AtWork(v)}}
             \cup {what \in {"nested"} : At(t, "inside")}

-------------------------------------------------------------------------------
(* The transition of a node, in set_active(), process() and onTimeout(). *)
Deactivated(n) == [node EXCEPT ![n].isActive = FALSE]

(* set_active(false) of a node that is not active does nothing. *)
Stopping(n) == IF node[n].isActive THEN <<Frame("stop", n, Nobody)>> ELSE <<>>

Stays(n, dest) == dest \in {Nobody, n}

(* process(), after the callbacks of the state's events: e is the event, or
   what they answered. *)
Move(t) ==
  /\ At(t, "process") /\ Free(t, "trans", Here(t))
  /\ LET n == Here(t)
         dest == node[n].trans[To(t)]
     IN IF Stays(n, dest)
        THEN Return(t) /\ UNCHANGED node
        ELSE /\ Become(t, <<Frame("moving", n, dest)>> \o Stopping(n))
             /\ node' = Deactivated(n)
  /\ UNCHANGED <<states, active, ub, ops, odd>>

(* The leave callback: onStateLeaveCB() activates the next state.  In process()
   the node was deactivated before, after a timeout or a push that follows. *)
Afterwards == [moving |-> "left", fired |-> "deactivate", pushed |-> "close"]

(* Mistake: without a next state, the machine stays where it is. *)
LeaveCBStays(t, from) ==
  /\ At(t, from) /\ Free(t, "leave", Here(t))
  /\ active' = IF To(t) \in states THEN To(t) ELSE active
  /\ Become(t, <<Frame(Afterwards[from], Here(t), To(t)), Frame("leaving", Here(t), To(t))>>
                 \o IF To(t) \in states THEN <<Frame("activate", To(t), Nobody)>> ELSE <<>>)
  /\ UNCHANGED <<states, node, ub, ops, odd>>

LeaveCB(t, from) ==
  /\ At(t, from) /\ Free(t, "leave", Here(t))
  /\ active' = IF To(t) \in states THEN To(t) ELSE Nobody
  /\ Become(t, <<Frame(Afterwards[from], Here(t), To(t)), Frame("leaving", Here(t), To(t))>>
                 \o IF To(t) \in states THEN <<Frame("activate", To(t), Nobody)>> ELSE <<>>)
  /\ UNCHANGED <<states, node, ub, ops, odd>>

Left(t) ==
  /\ At(t, "leaving") \/ At(t, "left")
  /\ Return(t)
  /\ UNCHANGED <<states, active, node, ub, ops, odd>>

(* set_active(true): not of a node that is active, even one that is being left. *)
Activate(t) ==
  /\ At(t, "activate")
  /\ Oddly("again", node[Here(t)].isActive)
  /\ IF node[Here(t)].isActive
     THEN Return(t) /\ UNCHANGED node
     ELSE /\ Become(t, <<Frame("entering", Here(t), Nobody)>>)
          /\ node' = [node EXCEPT ![Here(t)].isActive = TRUE, ![Here(t)].visit = @ + 1]
  /\ UNCHANGED <<states, active, ub, ops>>

(* onStateEnterCB(), and the users' on-enter callbacks. *)
EnterCB(t) ==
  /\ At(t, "entering") /\ Free(t, "enter", Here(t))
  /\ active' = Here(t)
  /\ Become(t, <<Frame("inside", Here(t), Nobody)>>)
  /\ UNCHANGED <<states, node, ub, ops, odd>>

(* Bound: they push on the first visits. *)
Entered(t, e) ==
  /\ At(t, "inside")
  /\ e # Nobody => node[Here(t)].visit < MaxToken
  /\ Become(t, <<Frame(IF e = Nobody THEN "arm" ELSE "push", Here(t), e)>>)
  /\ UNCHANGED <<states, active, node, ub, ops, odd>>

(* A callback pushed to the next state. *)
Push(t) ==
  /\ At(t, "push") /\ Free(t, "trans", Here(t))
  /\ LET n == Here(t)
         dest == node[n].trans[To(t)]
     IN /\ Become(t, <<Frame(IF Stays(n, dest) THEN "arm" ELSE "pushed", n, dest)>>)
        /\ Oddly("stale", ~Stays(n, dest) /\ ~node[n].isActive)
  /\ UNCHANGED <<states, active, node, ub, ops>>

Close(t) ==
  /\ At(t, "close")
  /\ node' = Deactivated(Here(t))
  /\ Become(t, <<Frame("left", Here(t), Nobody), Frame("stop", Here(t), Nobody)>>)
  /\ Oddly("untimed", TRUE)
  /\ UNCHANGED <<states, active, ub, ops>>

(* Events that are scheduled: the one that _hTimer knew is no longer known. *)
Scheduled(n, token) ==
  {[e EXCEPT !.kind = IF @ = "held" THEN "loose" ELSE @] : e \in node[n].queue}
    \cup {[token |-> token, kind |-> "held", visit |-> node[n].visit]}

(* With a timeout, or anything else in the timer's queue, the timer is started. *)
Timed(n) == node[n].hasTimeout \/ node[n].queue # {}

(* Mistake: the token is that of the last visit. *)
ArmSameToken(t) ==
  /\ At(t, "arm")
  /\ LET n == Here(t)
     IN IF ~Timed(n)
        THEN Return(t) /\ Oddly("untimed", TRUE) /\ UNCHANGED node
        ELSE /\ Free(t, "timer", n)
             /\ node' = [node EXCEPT ![n].queue = Scheduled(n, node[n].token)]
             /\ Become(t, <<Frame("start", n, Nobody)>>)
             /\ UNCHANGED odd
  /\ UNCHANGED <<states, active, ub, ops>>

(* Mistake: the event takes the token before it is counted. *)
ArmBefore(t) ==
  /\ At(t, "arm")
  /\ LET n == Here(t)
     IN IF ~Timed(n)
        THEN Return(t) /\ Oddly("untimed", TRUE) /\ UNCHANGED node
        ELSE /\ Free(t, "timer", n)
             /\ node' = [node EXCEPT ![n].token = @ + 1,
                                     ![n].queue = Scheduled(n, node[n].token)]
             /\ Become(t, <<Frame("start", n, Nobody)>>)
             /\ UNCHANGED odd
  /\ UNCHANGED <<states, active, ub, ops>>

Arm(t) ==
  /\ At(t, "arm")
  /\ LET n == Here(t)
     IN IF ~Timed(n)
        THEN Return(t) /\ Oddly("untimed", TRUE) /\ UNCHANGED node
        ELSE /\ Free(t, "timer", n)
             /\ node' = [node EXCEPT ![n].token = @ + 1,
                                     ![n].queue = Scheduled(n, node[n].token + 1)]
             /\ Become(t, <<Frame("start", n, Nobody)>>)
             /\ UNCHANGED odd
  /\ UNCHANGED <<states, active, ub, ops>>

(* GOTimer::start(): a thread that has not ended yet is not replaced. *)
Start(t) ==
  /\ At(t, "start")
  /\ node' = [node EXCEPT ![Here(t)].done = FALSE,
                          ![Here(t)].thread = IF @ \in {"none", "over"} THEN "runs" ELSE @]
  /\ Oddly("unstarted", node[Here(t)].thread \in {"runs", "doomed"})
  /\ Return(t)
  /\ UNCHANGED <<states, active, ub, ops>>

Deactivate(t) ==
  /\ At(t, "deactivate")
  /\ node' = Deactivated(Here(t))
  /\ Become(t, Stopping(Here(t)))
  /\ UNCHANGED <<states, active, ub, ops, odd>>

(* GOTimer::stop() ... *)
Stop(t) ==
  /\ At(t, "stop")
  /\ node' = [node EXCEPT ![Here(t)].done = TRUE]
  /\ Become(t, <<Frame("join", Here(t), Nobody)>>)
  /\ UNCHANGED <<states, active, ub, ops, odd>>

(* Mistake: the timer's thread waits for itself. *)
JoinSelf(t) ==
  /\ At(t, "join")
  /\ LET n == Here(t)
     IN /\ node' = [node EXCEPT ![n].thread = IF @ = "over" THEN "none" ELSE @]
        /\ ub' \in {FALSE, node[n].thread = "none"}
        /\ Become(t, <<Frame(IF node[n].thread = "runs" THEN "wait" ELSE "unnotify",
                             n, Nobody)>>)
  /\ UNCHANGED <<states, active, ops, odd>>

(* ... joins the thread, but for a thread that is doomed or that is to join
   itself, and cancels what is not there (TimerThread). *)
Join(t) ==
  /\ At(t, "join")
  /\ LET n == Here(t)
     IN /\ node' = [node EXCEPT ![n].thread =
                       IF t = n THEN "doomed" ELSE IF @ = "over" THEN "none" ELSE @]
        /\ ub' \in {FALSE, node[n].thread = "none"}
        /\ Become(t, <<Frame(IF t # n /\ node[n].thread = "runs" THEN "wait" ELSE "unnotify",
                             n, Nobody)>>)
  /\ UNCHANGED <<states, active, ops, odd>>

Killed(n) ==
  {[e EXCEPT !.kind = IF @ = "held" THEN "dead" ELSE @] : e \in node[n].queue}

Unnotify(t) ==
  /\ At(t, "unnotify")
  /\ node' = [node EXCEPT ![Here(t)].queue = Killed(Here(t))]
  /\ Return(t)
  /\ UNCHANGED <<states, active, ub, ops, odd>>

-------------------------------------------------------------------------------
(* The timer's thread of a node: timer_proc(), action() and onTimeout(). *)
Awake(n) == stack[n] = <<>> /\ node[n].thread \in {"runs", "doomed"}

Live(n) == {e \in node[n].queue : e.kind # "dead"}

(* Only an action of the users stays in the queue, if it is periodic. *)
Deliver(n, e) ==
  /\ e \in Live(n) /\ ~node[n].done /\ node[n].token < MaxToken
  /\ \/ Awake(n) /\ node[n].thread = "runs" /\ Free(n, "timer", n)
     \/ At(n, "action")
  /\ \/ node' = [node EXCEPT ![n].queue = Live(n) \ {e}]
     \/ e.kind = "plain" /\ node' = [node EXCEPT ![n].queue = Live(n)]
  /\ stack' = [stack EXCEPT ![n] =
                 <<Frame("action", n, Nobody)>>
                   \o IF e.kind = "plain" THEN <<>> ELSE <<Frame("timeout", n, e)>>]
  /\ Overlap(n)
  /\ UNCHANGED <<states, active, ub, ops>>

Sweep(n) ==
  /\ Awake(n) /\ node[n].thread = "runs" /\ ~node[n].done
  /\ Live(n) # node[n].queue
  /\ node' = [node EXCEPT ![n].queue = Live(n)]
  /\ UNCHANGED <<states, active, stack, ub, ops, odd>>

Ignored(n, e) ==
  \/ ~Timed(n)
  \/ ~node[n].isActive
  \/ e.token # node[n].token
  \/ node[n].dest = n

Timeout(n) ==
  /\ At(n, "timeout")
  /\ Become(n, IF Ignored(n, To(n)) THEN <<>> ELSE <<Frame("fired", n, node[n].dest)>>)
  /\ UNCHANGED <<states, active, node, ub, ops, odd>>

ActionEnds(n) ==
  /\ At(n, "action")
  /\ Return(n)
  /\ UNCHANGED <<states, active, node, ub, ops, odd>>

(* Mistake: the loop sleeps before it looks at _done. *)
LoopEndsAsleep(n) ==
  /\ Awake(n)
  /\ IF node[n].thread = "runs"
     THEN /\ node[n].done /\ UNCHANGED ub
          /\ stack' = [stack EXCEPT ![n] = <<Frame("ending", n, Nobody)>>]
     ELSE ub' = TRUE /\ UNCHANGED stack
  /\ UNCHANGED <<states, active, node, ops, odd>>

(* The loop ends when it sees _done, the thread a little later; one that has
   canceled itself and does not see it sleeps. *)
LoopEnds(n) ==
  /\ Awake(n)
  /\ IF node[n].done
     THEN stack' = [stack EXCEPT ![n] = <<Frame("ending", n, Nobody)>>] /\ UNCHANGED ub
     ELSE node[n].thread = "doomed" /\ ub' = TRUE /\ UNCHANGED stack
  /\ UNCHANGED <<states, active, node, ops, odd>>

ThreadEnds(n) ==
  /\ At(n, "ending")
  /\ LET joined == \E t \in Threads : At(t, "wait") /\ Here(t) = n
     IN node' = [node EXCEPT ![n].thread = IF @ = "doomed" \/ joined THEN "none" ELSE "over"]
  /\ stack' = [t \in Threads |->
                 IF t = n THEN <<>>
                 ELSE IF At(t, "wait") /\ Here(t) = n
                      THEN Append(Front(stack[t]), Frame("unnotify", n, Nobody))
                 ELSE stack[t]]
  /\ UNCHANGED <<states, active, ub, ops, odd>>

-------------------------------------------------------------------------------
(* What users call, on their own or, of process(), in an on-enter callback.  A
   machine without a state refuses events. *)
Idle(u) == u \in Users /\ stack[u] = <<>> /\ ops < MaxOps

Calls(u, frames) ==
  /\ stack' = [stack EXCEPT ![u] = @ \o frames]
  /\ ops' = ops + 1
  /\ UNCHANGED states

Process(u, e) ==
  /\ ops < MaxOps
  /\ Idle(u) \/ (At(u, "inside") /\ Len(stack[u]) < MaxDepth)
  /\ active # Nobody
  /\ ub' = (active = Gone)
  /\ active # Gone => node[active].isActive
  /\ Calls(u, IF active = Gone THEN <<>> ELSE <<Frame("process", active, e)>>)
  /\ Overlap(u)
  /\ UNCHANGED <<active, node>>

SetActive(u, n) ==
  /\ Idle(u)
  /\ ub' = (active = Gone)
  /\ Calls(u, <<Frame("choose", n, Nobody)>>
                \o IF active \in Names THEN <<Frame("deactivate", active, Nobody)>> ELSE <<>>)
  /\ Overlap(u)
  /\ UNCHANGED <<active, node>>

Choose(t) ==
  /\ At(t, "choose")
  /\ active' = IF Here(t) \in states THEN Here(t) ELSE Nobody
  /\ Become(t, IF Here(t) \in states THEN <<Frame("activate", Here(t), Nobody)>> ELSE <<>>)
  /\ UNCHANGED <<states, node, ub, ops, odd>>

(* What changes a node in one step.  Bound: while nothing else goes on (the
   code takes no gate that would make it possible). *)
Edits(n, changed, oddity) ==
  /\ ops < MaxOps /\ \A t \in Threads : ~AtWork(t)
  /\ odd' = odd \cup oddity
  /\ node' = [node EXCEPT ![n] = changed]
  /\ ops' = ops + 1
  /\ UNCHANGED stack

AddTransition(n, e, dest) ==
  /\ Edits(n, [node[n] EXCEPT !.trans[e] = IF @ = Nobody THEN dest ELSE @], {})
  /\ states' = states \cup {n, dest}
  /\ UNCHANGED <<active, ub>>

RemoveTransition(n, e) ==
  /\ n \in states /\ Free(n, "trans", n)
  /\ Edits(n, [node[n] EXCEPT !.trans[e] = Nobody], {})
  /\ UNCHANGED <<states, active, ub>>

(* Another delay unnotifies the timeout there was, the same does not; without
   a destination there is none.  The timer is not started. *)
AddTimeout(n, dest, sameDelay) ==
  /\ Free(n, "timer", n)
  /\ LET kept == IF sameDelay THEN node[n].queue ELSE Killed(n)
     IN Edits(n, [node[n] EXCEPT !.hasTimeout = dest # Nobody, !.dest = dest,
                    !.queue = IF dest = Nobody THEN kept
                              ELSE Scheduled(n, node[n].token) \cup (kept \ node[n].queue)],
              IF node[n].isActive THEN {"late"} ELSE {})
  /\ states' = states \cup {n}
  /\ UNCHANGED <<active, ub>>

(* It makes the node inactive, and does not forget the destination. *)
RemoveTimeout(n) ==
  /\ n \in states
  /\ Edits(n, [node[n] EXCEPT !.isActive = FALSE, !.hasTimeout = FALSE, !.queue = Killed(n)],
           IF node[n].isActive THEN {"removed"} ELSE {})
  /\ UNCHANGED <<states, active, ub>>

AddTimeoutAction(n) ==
  /\ Free(n, "timer", n)
  /\ Edits(n, [node[n] EXCEPT !.queue = @ \cup {[token |-> 0, kind |-> "plain", visit |-> 0]}], {})
  /\ states' = states \cup {n}
  /\ UNCHANGED <<active, ub>>

RemoveTimeoutAction(n) ==
  /\ Edits(n, [node[n] EXCEPT
       !.queue = {[e EXCEPT !.kind = IF @ = "plain" THEN "dead" ELSE @] : e \in @}], {})
  /\ states' = states \cup {n}
  /\ UNCHANGED <<active, ub>>

(* The machine keeps the pointer to a state that is removed while active.  The
   destructor stops the timer, started or not.  Bound: nobody is in the node. *)
RemoveState(n) ==
  /\ n \in states
  /\ \A t \in Threads : \A i \in DOMAIN stack[t] : stack[t][i].node # n
  /\ Edits(n, Fresh([e \in Events |-> Nobody], Nobody), {"removed"})
  /\ states' = states \ {n}
  /\ active' = IF active = n THEN Gone ELSE active
  /\ ub' \in {FALSE, node[n].thread \in {"none", "doomed"}}

Flow(t) ==
  \/ Move(t) \/ \E from \in DOMAIN Afterwards : LeaveCB(t, from)
  \/ Left(t) \/ Activate(t) \/ EnterCB(t)
  \/ \E e \in Pushes \cup {Nobody} : Entered(t, e)
  \/ Push(t) \/ Close(t) \/ Arm(t) \/ Start(t) \/ Deactivate(t)
  \/ Stop(t) \/ Join(t) \/ Unnotify(t) \/ Choose(t)

Timer(n) ==
  \/ \E e \in node[n].queue : Deliver(n, e)
  \/ Sweep(n) \/ Timeout(n) \/ ActionEnds(n) \/ LoopEnds(n) \/ ThreadEnds(n)
Edit(n) ==
  \/ \E e \in Events, dest \in Names : AddTransition(n, e, dest)
  \/ \E e \in Events : RemoveTransition(n, e)
  \/ \E dest \in Names \cup {Nobody}, sameDelay \in BOOLEAN : AddTimeout(n, dest, sameDelay)
  \/ RemoveTimeout(n) \/ AddTimeoutAction(n) \/ RemoveTimeoutAction(n) \/ RemoveState(n)

Operation ==
  \/ \E t \in Threads, e \in Events : Process(t, e)
  \/ \E u \in Users, n \in Names : SetActive(u, n)
  \/ \E n \in Names : Edit(n)

Next ==
  /\ ~ub
  /\ Operation \/ (\E t \in Threads : Flow(t)) \/ (\E n \in Names : Timer(n))

Spec == Init /\ [][Next]_vars

(* Calls and callbacks go on, and the timers' threads; an event does not wait
   for ever behind others (GOTimer). *)
DeliverTimeout(n) == \E e \in node[n].queue : e.kind # "plain" /\ Deliver(n, e)

FairSpec ==
  /\ Spec
  /\ \A t \in Threads : WF_vars(~ub /\ Flow(t))
  /\ \A n \in Names :
       WF_vars(~ub /\ Timer(n)) /\ WF_vars(~ub /\ DeliverTimeout(n))

-------------------------------------------------------------------------------
(* One operation or timeout after the other, on nodes that keep what they have. *)
Serial == {"users", "timers", "removed"} \cap odd = {}

Rest == ~ub /\ \A t \in Threads : ~AtWork(t)

(***************************************************************************)
(* At rest the machine's state is active and no other is: also if timeouts,   *)
(* pushes and nested calls took it there, as long as nothing overlapped, no    *)
(* state was entered that was still being left, and no callback pushed away    *)
(* from a state that its own nested call had left.                           *)
(***************************************************************************)
OneActive ==
  Rest /\ Serial /\ {"again", "stale"} \cap odd = {} =>
    {n \in Names : node[n].isActive} = {active} \ {Nobody}

(***************************************************************************)
(* The comment of gostatenode.h (49): the token keeps a timeout from a visit  *)
(* that is over ("could leave state then return").  It does if nothing        *)
(* overlaps ...                                                            *)
(***************************************************************************)
Moves(n) == At(n, "timeout") /\ (At(n, "fired"))'

TimeoutOfThisVisit ==
  [][\A n \in Names : Moves(n) /\ Serial => To(n).visit = node[n].visit]_vars

(***************************************************************************)
(* ... and not otherwise: a node is active before it has its new token.       *)
(***************************************************************************)
TokenMatches == [][\A n \in Names : Moves(n) => To(n).visit = node[n].visit]_vars

(***************************************************************************)
(* The process does not abort if all timers are started and all threads of    *)
(* timers have ended before they are started again: also where a thread stops *)
(* its own timer.                                                          *)
(***************************************************************************)
DefinedIfTimed == ub => odd # {}

(***************************************************************************)
(* No threads wait for each other in a circle, in gates or in join(): however *)
(* timeouts overlap or else on-enter callbacks use the machine, and whatever   *)
(* is pushed, as long as users keep out of the way and an active state keeps  *)
(* its timeout (afterwards it is inactive with a timer that runs).           *)
(***************************************************************************)
Needs ==
  [process |-> "trans", push |-> "trans", moving |-> "leave", fired |-> "leave",
   pushed |-> "leave", entering |-> "enter", arm |-> "timer"]

Blockers(t) ==
  IF stack[t] = <<>> THEN {}
  ELSE IF At(t, "wait") THEN {Here(t)}
  ELSE {u \in Threads \ {t} :
          /\ Last(stack[t]).at \in DOMAIN Needs
          /\ \E i \in DOMAIN stack[u] :
               /\ stack[u][i].node = Here(t)
               /\ stack[u][i].at \in Holders[Needs[Last(stack[t]).at]]}

NoCircle == \A S \in (SUBSET Threads) \ {{}} : \E t \in S : Blockers(t) \cap S = {}

NoDeadlock ==
  {"users", "removed"} \cap odd = {} /\ ~({"timers", "nested"} \subseteq odd) => NoCircle

(***************************************************************************)
(* A state with a timeout to another state is left in the end.                *)
(***************************************************************************)
Armed(n) ==
  /\ Rest /\ active = n /\ node[n].hasTimeout /\ node[n].dest # n
  /\ node[n].token < MaxToken

TimeoutComes == \A n \in Names : Armed(n) ~> ~node[n].isActive \/ ub \/ odd # {}
===============================================================================
