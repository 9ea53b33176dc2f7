-------------------------- MODULE GOStateMachineProofs --------------------------
(***************************************************************************)
(* Proofs about GOStateMachine, for any machine and any number of users: what *)
(* the stacks of the threads look like; as long as one operation or timeout   *)
(* comes after the other, which node is active, whose timeouts are delivered,  *)
(* and that no timer is stopped that has no thread; and, also where timeouts   *)
(* overlap, that no threads wait for each other in a circle.                  *)
(***************************************************************************)
EXTENDS GOStateMachine, SequenceTheorems, TLAPS

(* Where a thread is when its innermost call has called nothing yet; the others
   are callers of the frame above them. *)
Halting == {"stop", "join", "wait", "unnotify"}
Callers == {"moving", "left", "leaving", "inside", "choose", "deactivate", "close", "action"}

(* A node that is about to be deactivated, by whoever left it. *)
Pending == {"deactivate", "close"}
Late == Pending \cup {"entering", "inside", "push"}

FrameOf ==
  [at : Places, node : Names, to : Names \cup {Nobody} \cup Events \cup TimerEvent]

(* What a frame of thread t is about. *)
Fits(t, f) ==
  /\ f \in FrameOf
  /\ f.at \in {"process", "push"} => f.to \in Events
  /\ f.at = "timeout" => f.to \in TimerEvent
  /\ f.at \in {"moving", "fired", "pushed"} => f.to \in Names \cup {Nobody}
  /\ f.at \in {"action", "timeout", "fired", "ending"} => t = f.node
  /\ f.at = "choose" => t \in Users
  /\ f.at = "wait" => t # f.node

(* Which frames lie on which. *)
Shape(t, s) ==
  /\ \A i \in 1 .. Len(s) :
       /\ Fits(t, s[i])
       /\ s[i].at \in {"action", "ending", "choose"} => i = 1
       /\ s[i].at \in {"timeout", "fired"} => i = 2
       /\ s[i].at = "deactivate" => i = 2 /\ s[1].at \in {"action", "choose"}
       /\ i = 1 /\ t \in Names => s[i].at \in {"action", "ending"}
  /\ \A i \in 1 .. Len(s) - 1 :
       /\ s[i].at \in Callers
       /\ s[i].at = "moving" => s[i + 1].at \in Halting
       /\ s[i].at = "choose" => i + 1 = Len(s) /\ s[i + 1].at \in Halting \cup {"deactivate"}

HeldOnce ==
  \A n \in Names : \A e, f \in node[n].queue :
    e.kind = "held" /\ f.kind = "held" => e = f

Typed ==
  /\ states \subseteq Names
  /\ active \in Names \cup {Nobody, Gone}
  /\ node \in [Names -> Node]
  /\ HeldOnce
  /\ stack \in [Threads -> Seq(FrameOf)]
  /\ \A t \in Threads : Shape(t, stack[t])
  /\ ub \in BOOLEAN /\ ops \in 0 .. MaxOps
  /\ odd \subseteq Oddities

(* Nobody's work overlaps: one thread at most is at work. *)
Alone == Serial => \A t, u \in Threads : AtWork(t) /\ AtWork(u) => t = u

-------------------------------------------------------------------------------
(* A state was left and the next one is not active yet. *)
Between(s) ==
  /\ Len(s) > 0
  /\ \/ s[Len(s)].at \in {"moving", "choose", "activate"}
     \/ /\ s[Len(s)].at \in Halting \cup {"deactivate"}
        /\ Len(s) > 1 /\ s[Len(s) - 1].at \in {"moving", "choose"}

(* Frames of node n at some places. *)
Has(s, n, places) == \E i \in 1 .. Len(s) : s[i].node = n /\ s[i].at \in places

(* A node that is to be deactivated is not entered, or left, again. *)
Distinct(s) ==
  \A i, j \in 1 .. Len(s) :
    /\ i < j /\ s[i].at \in Pending
    /\ s[j].at \in Late
    => s[j].node # s[i].node

(* Of a stack s, nodes nd and a machine in a: the active nodes are those that the
   stack will deactivate, and the machine's. *)
AgreesWith(s, nd, a) ==
  /\ a \in Names \cup {Nobody}
  /\ \A n \in Names : Has(s, n, Pending) => nd[n].isActive /\ (n = a => Between(s))
  /\ \A n \in Names : nd[n].isActive => (n = a /\ ~Between(s)) \/ Has(s, n, Pending)
  /\ Distinct(s)
  /\ a \in Names /\ ~Between(s) => nd[a].isActive
  /\ Len(s) > 0 /\ s[Len(s)].at \in {"activate", "entering", "process", "pushed", "fired"} =>
       s[Len(s)].node = a

Agrees(s) == AgreesWith(s, node, active)

Agreement ==
  /\ Serial => active # Gone
  /\ Serial /\ {"again", "stale"} \cap odd = {} =>
       \A t \in Threads : (\A u \in Threads \ {t} : ~AtWork(u)) => Agrees(stack[t])

-------------------------------------------------------------------------------
(* A visit whose timer has not been set. *)
Unset == {"entering", "inside", "push", "pushed", "close", "arm"}

OfThisVisit(n, e) ==
  node[n].isActive /\ e.token = node[n].token => e.visit = node[n].visit

VisitsOf(n) ==
  /\ \A e \in node[n].queue : e.kind \in {"held", "loose"} =>
       OfThisVisit(n, e) \/ \E t \in Threads : Has(stack[t], n, Unset)
  /\ At(n, "timeout") => OfThisVisit(n, To(n))

Visits ==
  /\ \A n \in Names : \A e \in node[n].queue : e.token <= node[n].token
  /\ Serial => \A n \in Names : VisitsOf(n)

-------------------------------------------------------------------------------
(* A visit whose timer has not been started. *)
Unstarted == {"entering", "inside", "push", "pushed", "close", "arm", "start"}

Serves(n) == node[n].thread = "runs" /\ ~node[n].done /\ ~At(n, "ending")

Halted(f) ==
  /\ f.at \in Halting => ~node[f.node].isActive
  /\ f.at = "stop" => Serves(f.node)
  /\ f.at = "join" => node[f.node].done /\ node[f.node].thread \in {"runs", "over"}

HasThread(n) == stack[n] # <<>> => node[n].thread \in {"runs", "doomed"}

DefinedFor(n) ==
  /\ node[n].thread = "doomed" => node[n].done
  /\ ~node[n].isActive \/ Serves(n) \/ \E t \in Threads : Has(stack[t], n, Unstarted)

DefinedAt(t) ==
  \A i \in 1 .. Len(stack[t]) :
    Halted(stack[t][i]) /\ (stack[t][i].at = "process" => i = 1)

Defined ==
  /\ \A n \in Names : HasThread(n)
  /\ odd = {} =>
       /\ ~ub
       /\ \A n \in Names : DefinedFor(n)
       /\ \A t \in Threads : DefinedAt(t)

IInv == Typed /\ Alone /\ Agreement /\ Visits /\ Defined

-------------------------------------------------------------------------------
(***************************************************************************)
(* Stacks: r is s with the frames fs in the place of the topmost.             *)
(***************************************************************************)
Over(s, fs, r) ==
  /\ Len(r) = Len(s) - 1 + Len(fs)
  /\ \A i \in 1 .. Len(s) - 1 : r[i] = s[i]
  /\ \A j \in 1 .. Len(fs) : r[Len(s) - 1 + j] = fs[j]

LEMMA StackOf ==
  ASSUME Typed, NEW t \in Threads
  PROVE  /\ stack[t] \in Seq(FrameOf) /\ Len(stack[t]) \in Nat
         /\ Shape(t, stack[t])
         /\ stack[t] = <<>> <=> Len(stack[t]) = 0
         /\ \A i \in 1 .. Len(stack[t]) : stack[t][i] \in FrameOf
<1>1. stack[t] \in Seq(FrameOf) /\ Shape(t, stack[t])
  BY DEF Typed
<1> QED
  BY <1>1, LenProperties, EmptySeq, ElementOfSeq

LEMMA StackPrimed ==
  ASSUME Typed', NEW t \in Threads
  PROVE  /\ stack'[t] \in Seq(FrameOf) /\ Len(stack'[t]) \in Nat
         /\ Shape(t, stack'[t])
<1>1. stack'[t] \in Seq(FrameOf) /\ Shape(t, stack'[t])
  BY DEF Typed
<1> QED
  BY <1>1, LenProperties

LEMMA TopOf ==
  ASSUME Typed, NEW t \in Threads, NEW place, At(t, place)
  PROVE  /\ Len(stack[t]) \in Nat \ {0}
         /\ stack[t][Len(stack[t])].at = place
         /\ Here(t) = stack[t][Len(stack[t])].node /\ Here(t) \in Names
         /\ To(t) = stack[t][Len(stack[t])].to
         /\ Fits(t, stack[t][Len(stack[t])])
<1>1. stack[t] # <<>> /\ stack[t][Len(stack[t])].at = place
  BY DEF At, Last
<1>2. Len(stack[t]) \in Nat \ {0} /\ Len(stack[t]) \in 1 .. Len(stack[t])
  BY <1>1, StackOf
<1>3. Fits(t, stack[t][Len(stack[t])])
  BY <1>2, StackOf DEF Shape
<1> QED
  BY <1>1, <1>2, <1>3 DEF Here, To, Last, Fits, FrameOf

LEMMA FrontIs ==
  ASSUME NEW s \in Seq(FrameOf), s # <<>>, NEW fs \in Seq(FrameOf)
  PROVE  Front(s) \o fs \in Seq(FrameOf) /\ Over(s, fs, Front(s) \o fs)
<1>1. Len(s) \in Nat \ {0}
  BY EmptySeq
<1>2. \A i \in 1 .. Len(s) - 1 : s[i] \in FrameOf
  BY <1>1, ElementOfSeq
<1>3. /\ Front(s) \in Seq(FrameOf) /\ Len(Front(s)) = Len(s) - 1
      /\ \A i \in 1 .. Len(s) - 1 : Front(s)[i] = s[i]
  <2>1. PICK m \in Int : m = 1
    OBVIOUS
  <2>2. PICK n \in Int : n = Len(s) - 1
    BY <1>1
  <2>3. \A i \in m .. n : s[i] \in FrameOf
    BY <1>2, <2>1, <2>2
  <2>4. /\ SubSeq(s, m, n) \in Seq(FrameOf)
        /\ Len(SubSeq(s, m, n)) = IF m <= n THEN n - m + 1 ELSE 0
        /\ \A i \in 1 .. n - m + 1 : SubSeq(s, m, n)[i] = s[m + i - 1]
    BY <2>3, SubSeqProperties
  <2>5. Front(s) = SubSeq(s, m, n)
    BY <2>1, <2>2 DEF Front
  <2> QED
    BY <1>1, <2>1, <2>2, <2>4, <2>5
<1>4. Len(fs) \in Nat
  BY LenProperties
<1>5. PICK h \in Seq(FrameOf) : h = Front(s)
  BY <1>3
<1>6. /\ h \o fs \in Seq(FrameOf) /\ Len(h \o fs) = Len(h) + Len(fs)
      /\ \A i \in 1 .. Len(h) + Len(fs) :
           (h \o fs)[i] = IF i <= Len(h) THEN h[i] ELSE fs[i - Len(h)]
  BY ConcatProperties
<1>7. PICK r \in Seq(FrameOf) : r = h \o fs
  BY <1>6
<1>8. Len(h) = Len(s) - 1 /\ \A i \in 1 .. Len(s) - 1 : h[i] = s[i]
  BY <1>3, <1>5
<1>9. Len(r) = Len(s) - 1 + Len(fs)
  BY <1>6, <1>7, <1>8
<1>10. ASSUME NEW i \in 1 .. Len(s) - 1 PROVE r[i] = s[i]
  BY <1>1, <1>4, <1>6, <1>7, <1>8
<1>11. ASSUME NEW j \in 1 .. Len(fs) PROVE r[Len(s) - 1 + j] = fs[j]
  <2>1. PICK i \in Int : i = Len(s) - 1 + j
    <3>1. Len(s) - 1 + j \in Int
      BY <1>1, <1>4
    <3> QED
      BY <3>1
  <2>2. i \in 1 .. Len(h) + Len(fs) /\ ~(i <= Len(h)) /\ i - Len(h) = j
    BY <1>1, <1>4, <1>8, <2>1
  <2> QED
    BY <1>6, <1>7, <2>1, <2>2
<1> QED
  BY <1>5, <1>7, <1>9, <1>10, <1>11 DEF Over

LEMMA BecomeIs ==
  ASSUME Typed, NEW t \in Threads, NEW fs \in Seq(FrameOf), stack[t] # <<>>, Become(t, fs)
  PROVE  /\ stack' \in [Threads -> Seq(FrameOf)]
         /\ \A u \in Threads \ {t} : stack'[u] = stack[u]
         /\ Over(stack[t], fs, stack'[t])
<1>1. Front(stack[t]) \o fs \in Seq(FrameOf) /\ Over(stack[t], fs, Front(stack[t]) \o fs)
  BY StackOf, FrontIs
<1>2. stack' = [stack EXCEPT ![t] = Front(stack[t]) \o fs]
  BY DEF Become
<1> HIDE DEF Typed
<1>3. stack \in [Threads -> Seq(FrameOf)]
  BY DEF Typed
<1> QED
  BY <1>1, <1>2, <1>3

(* The four ways in which a step changes the top of a stack. *)
Popped(s, r) ==
  /\ Len(r) = Len(s) - 1
  /\ \A i \in 1 .. Len(s) - 1 : r[i] = s[i]

Replaced(s, r, f) ==
  /\ Len(r) = Len(s) /\ r[Len(s)] = f
  /\ \A i \in 1 .. Len(s) - 1 : r[i] = s[i]

Called(s, r, f, g) ==
  /\ Len(r) = Len(s) + 1 /\ r[Len(s)] = f /\ r[Len(s) + 1] = g
  /\ \A i \in 1 .. Len(s) - 1 : r[i] = s[i]

CalledOn(s, r, f, g, h) ==
  /\ Len(r) = Len(s) + 2 /\ r[Len(s)] = f /\ r[Len(s) + 1] = g /\ r[Len(s) + 2] = h
  /\ \A i \in 1 .. Len(s) - 1 : r[i] = s[i]

LEMMA OverIs ==
  ASSUME NEW s \in Seq(FrameOf), s # <<>>, NEW r,
         NEW f \in FrameOf, NEW g \in FrameOf, NEW h \in FrameOf
  PROVE  /\ Over(s, <<>>, r) => Popped(s, r)
         /\ Over(s, <<f>>, r) => Replaced(s, r, f)
         /\ Over(s, <<f, g>>, r) => Called(s, r, f, g)
         /\ Over(s, <<f, g, h>>, r) => CalledOn(s, r, f, g, h)
<1>1. Len(s) \in Nat \ {0}
  BY EmptySeq
<1>2. Len(<<>>) = 0
  OBVIOUS
<1>3. Len(<<f>>) = 1 /\ <<f>>[1] = f
  OBVIOUS
<1>4. Len(<<f, g>>) = 2 /\ <<f, g>>[1] = f /\ <<f, g>>[2] = g
  OBVIOUS
<1>5. Len(<<f, g, h>>) = 3 /\ <<f, g, h>>[1] = f /\ <<f, g, h>>[2] = g /\ <<f, g, h>>[3] = h
  OBVIOUS
<1>6. Over(s, <<>>, r) => Popped(s, r)
  BY <1>1, <1>2 DEF Over, Popped
<1>7. Over(s, <<f>>, r) => Replaced(s, r, f)
  BY <1>1, <1>3 DEF Over, Replaced
<1>8. Over(s, <<f, g>>, r) => Called(s, r, f, g)
  BY <1>1, <1>4 DEF Over, Called
<1>9. Over(s, <<f, g, h>>, r) => CalledOn(s, r, f, g, h)
  BY <1>1, <1>5 DEF Over, CalledOn
<1> QED
  BY <1>6, <1>7, <1>8, <1>9

(* What is left of a stack's shape below its top, and what may come on it. *)
Under(t, s) ==
  /\ Len(s) \in Nat \ {0}
  /\ s[Len(s)].at \notin {"action", "ending"}
  /\ Shape(t, s)

LEMMA ShapePopped ==
  ASSUME NEW t, NEW s, NEW r, Under(t, s), Popped(s, r)
  PROVE  Shape(t, r)
BY DEF Under, Popped, Shape

LEMMA ShapeReplaced ==
  ASSUME NEW t, NEW s, NEW r, NEW f, Under(t, s), Replaced(s, r, f), Fits(t, f),
         f.at \notin {"action", "ending", "choose", "deactivate"},
         s[Len(s)].at \in Halting \cup {"deactivate"} => f.at \in Halting,
         f.at \in {"timeout", "fired"} => s[Len(s)].at \in {"timeout", "fired"}
  PROVE  Shape(t, r)
BY DEF Under, Replaced, Shape

LEMMA ShapeCalled ==
  ASSUME NEW t, NEW s, NEW r, NEW f, NEW g, Under(t, s), Called(s, r, f, g),
         Fits(t, f), Fits(t, g),
         s[Len(s)].at \notin Halting \cup {"deactivate"},
         f.at \in Callers \ {"action", "choose"},
         f.at = "moving" => g.at \in Halting,
         f.at = "deactivate" => Len(s) = 2 /\ s[1].at = "action",
         g.at \notin {"action", "ending", "choose", "deactivate", "timeout", "fired"}
  PROVE  Shape(t, r)
<1>1. ASSUME NEW i \in 1 .. Len(r)
      PROVE  /\ Fits(t, r[i])
             /\ r[i].at \in {"action", "ending", "choose"} => i = 1
             /\ r[i].at \in {"timeout", "fired"} => i = 2
             /\ r[i].at = "deactivate" => i = 2 /\ r[1].at \in {"action", "choose"}
             /\ i = 1 /\ t \in Names => r[i].at \in {"action", "ending"}
  <2>1. CASE i < Len(s)
    BY <2>1 DEF Under, Called, Shape
  <2>2. CASE i = Len(s)
    BY <2>2 DEF Under, Called, Shape, Callers
  <2>3. CASE i = Len(s) + 1
    BY <2>3 DEF Under, Called, Shape
  <2> QED
    BY <2>1, <2>2, <2>3 DEF Under, Called
<1>2. ASSUME NEW i \in 1 .. Len(r) - 1
      PROVE  /\ r[i].at \in Callers
             /\ r[i].at = "moving" => r[i + 1].at \in Halting
             /\ r[i].at = "choose" =>
                  i + 1 = Len(r) /\ r[i + 1].at \in Halting \cup {"deactivate"}
  <2>1. CASE i < Len(s) - 1
    BY <2>1 DEF Under, Called, Shape
  <2>2. CASE i = Len(s) - 1
    BY <2>2 DEF Under, Called, Shape
  <2>3. CASE i = Len(s)
    BY <2>3 DEF Under, Called, Shape
  <2> QED
    BY <2>1, <2>2, <2>3 DEF Under, Called
<1> QED
  BY <1>1, <1>2 DEF Shape

LEMMA ShapeCalledOn ==
  ASSUME NEW t, NEW s, NEW r, NEW f, NEW g, NEW h, Under(t, s), CalledOn(s, r, f, g, h),
         Fits(t, f), Fits(t, g), Fits(t, h),
         s[Len(s)].at \notin Halting \cup {"deactivate"},
         f.at \in Callers \ {"action", "choose", "moving"},
         f.at = "deactivate" => Len(s) = 2 /\ s[1].at = "action",
         g.at = "leaving",
         h.at \notin {"action", "ending", "choose", "deactivate", "timeout", "fired"}
  PROVE  Shape(t, r)
<1>1. ASSUME NEW i \in 1 .. Len(r)
      PROVE  /\ Fits(t, r[i])
             /\ r[i].at \in {"action", "ending", "choose"} => i = 1
             /\ r[i].at \in {"timeout", "fired"} => i = 2
             /\ r[i].at = "deactivate" => i = 2 /\ r[1].at \in {"action", "choose"}
             /\ i = 1 /\ t \in Names => r[i].at \in {"action", "ending"}
  <2>1. CASE i < Len(s)
    BY <2>1 DEF Under, CalledOn, Shape
  <2>2. CASE i = Len(s)
    BY <2>2 DEF Under, CalledOn, Shape, Callers
  <2>3. CASE i = Len(s) + 1
    BY <2>3 DEF Under, CalledOn, Shape
  <2>4. CASE i = Len(s) + 2
    BY <2>4 DEF Under, CalledOn, Shape
  <2> QED
    BY <2>1, <2>2, <2>3, <2>4 DEF Under, CalledOn
<1>2. ASSUME NEW i \in 1 .. Len(r) - 1
      PROVE  /\ r[i].at \in Callers
             /\ r[i].at = "moving" => r[i + 1].at \in Halting
             /\ r[i].at = "choose" =>
                  i + 1 = Len(r) /\ r[i + 1].at \in Halting \cup {"deactivate"}
  <2>1. CASE i < Len(s) - 1
    BY <2>1 DEF Under, CalledOn, Shape
  <2>2. CASE i = Len(s) - 1
    BY <2>2 DEF Under, CalledOn, Shape
  <2>3. CASE i = Len(s)
    BY <2>3 DEF Under, CalledOn, Shape, Callers
  <2>4. CASE i = Len(s) + 1
    BY <2>4 DEF Under, CalledOn, Shape, Callers
  <2> QED
    BY <2>1, <2>2, <2>3, <2>4 DEF Under, CalledOn
<1> QED
  BY <1>1, <1>2 DEF Shape

(* What is below the top of a stack, and what is on it. *)
Below(s, n, places) == \E i \in 1 .. Len(s) - 1 : s[i].node = n /\ s[i].at \in places
Is(f, n, places) == f.node = n /\ f.at \in places

LEMMA HasIs ==
  ASSUME NEW s, Len(s) \in Nat \ {0}, NEW n, NEW places
  PROVE  Has(s, n, places) <=> Below(s, n, places) \/ Is(s[Len(s)], n, places)
BY DEF Has, Below, Is

LEMMA HasPopped ==
  ASSUME NEW s, NEW r, Len(s) \in Nat \ {0}, Popped(s, r), NEW n, NEW places
  PROVE  Has(r, n, places) <=> Below(s, n, places)
BY DEF Has, Below, Popped

LEMMA HasReplaced ==
  ASSUME NEW s, NEW r, NEW f, Len(s) \in Nat \ {0}, Replaced(s, r, f), NEW n, NEW places
  PROVE  Has(r, n, places) <=> Below(s, n, places) \/ Is(f, n, places)
BY DEF Has, Below, Is, Replaced

LEMMA HasCalled ==
  ASSUME NEW s, NEW r, NEW f, NEW g, Len(s) \in Nat \ {0}, Called(s, r, f, g),
         NEW n, NEW places
  PROVE  Has(r, n, places) <=>
           Below(s, n, places) \/ Is(f, n, places) \/ Is(g, n, places)
BY DEF Has, Below, Is, Called

LEMMA HasCalledOn ==
  ASSUME NEW s, NEW r, NEW f, NEW g, NEW h, Len(s) \in Nat \ {0}, CalledOn(s, r, f, g, h),
         NEW n, NEW places
  PROVE  Has(r, n, places) <=>
           \/ Below(s, n, places) \/ Is(f, n, places) \/ Is(g, n, places)
           \/ Is(h, n, places)
BY DEF Has, Below, Is, CalledOn

LEMMA DistinctBelow ==
  ASSUME NEW s, Len(s) \in Nat \ {0}, Distinct(s), s[Len(s)].at \in Late
  PROVE  ~Below(s, s[Len(s)].node, Pending)
BY DEF Distinct, Below

LEMMA DistinctPopped ==
  ASSUME NEW s, NEW r, Len(s) \in Nat \ {0}, Distinct(s), Popped(s, r)
  PROVE  Distinct(r)
BY DEF Distinct, Popped

LEMMA DistinctReplaced ==
  ASSUME NEW s, NEW r, NEW f, Len(s) \in Nat \ {0}, Distinct(s), Replaced(s, r, f),
         f.at \in Late => ~Below(s, f.node, Pending)
  PROVE  Distinct(r)
BY DEF Distinct, Below, Replaced

LEMMA DistinctCalled ==
  ASSUME NEW s, NEW r, NEW f, NEW g, Len(s) \in Nat \ {0}, Distinct(s), Called(s, r, f, g),
         f.at \in Late => ~Below(s, f.node, Pending), g.at \notin Late
  PROVE  Distinct(r)
<1> SUFFICES ASSUME NEW i \in 1 .. Len(r), NEW j \in 1 .. Len(r), i < j,
                    r[i].at \in Pending, r[j].at \in Late
             PROVE  r[j].node # r[i].node
  BY DEF Distinct
<1>1. j <= Len(s) /\ i <= Len(s) - 1
  <2>1. i \in 1 .. Len(s) + 1 /\ j \in 1 .. Len(s) + 1
    BY DEF Called
  <2>2. j # Len(s) + 1
    BY DEF Called
  <2> QED
    BY <2>1, <2>2
<1>2. r[i] = s[i]
  BY <1>1 DEF Called
<1>3. CASE j < Len(s)
  BY <1>1, <1>2, <1>3 DEF Called, Distinct
<1>4. CASE j = Len(s)
  BY <1>1, <1>2, <1>4 DEF Called, Below
<1> QED
  BY <1>1, <1>3, <1>4

LEMMA DistinctCalledOn ==
  ASSUME NEW s, NEW r, NEW f, NEW g, NEW h, Len(s) \in Nat \ {0}, Distinct(s),
         CalledOn(s, r, f, g, h), f.at \in Late => ~Below(s, f.node, Pending),
         g.at \notin Late, h.at \notin Late
  PROVE  Distinct(r)
BY DEF Distinct, Below, CalledOn, Late

(* Where a stack is between two states. *)
Turning == {"moving", "choose", "activate"}
Stopped == Halting \cup {"deactivate"}

LEMMA BetweenTop ==
  ASSUME NEW t, NEW s, Under(t, s)
  PROVE  /\ s[Len(s)].at \in Turning => Between(s)
         /\ s[Len(s)].at \notin Turning \cup Stopped => ~Between(s)
BY DEF Between, Under, Turning, Stopped

LEMMA BetweenPopped ==
  ASSUME NEW t, NEW s, NEW r, Under(t, s), Popped(s, r)
  PROVE  /\ s[Len(s)].at \notin Stopped => ~Between(r)
         /\ s[Len(s)].at \in Stopped => (Between(r) <=> Between(s))
<1>1. s[Len(s)].at \notin Stopped => ~Between(r)
  BY DEF Between, Under, Popped, Shape, Callers, Halting, Stopped
<1>2. s[Len(s)].at \in Stopped => (Between(r) <=> Between(s))
  BY DEF Between, Under, Popped, Shape, Callers, Halting, Stopped
<1> QED
  BY <1>1, <1>2

LEMMA BetweenReplaced ==
  ASSUME NEW t, NEW s, NEW r, NEW f, Under(t, s), Replaced(s, r, f)
  PROVE  /\ f.at \in Turning => Between(r)
         /\ f.at \notin Turning \cup Stopped => ~Between(r)
         /\ s[Len(s)].at \in Stopped /\ f.at \in Halting => (Between(r) <=> Between(s))
<1>1. /\ f.at \in Turning => Between(r)
      /\ f.at \notin Turning \cup Stopped => ~Between(r)
  BY DEF Between, Under, Replaced, Turning, Stopped
<1>2. s[Len(s)].at \in Stopped /\ f.at \in Halting => (Between(r) <=> Between(s))
  BY DEF Between, Under, Replaced, Halting, Stopped
<1> QED
  BY <1>1, <1>2

LEMMA BetweenCalled ==
  ASSUME NEW t, NEW s, NEW r, NEW f, NEW g, Under(t, s), Called(s, r, f, g)
  PROVE  /\ g.at \in Halting => (Between(r) <=> f.at \in {"moving", "choose"})
         /\ g.at = "leaving" => ~Between(r)
<1>1. g.at \in Halting => (Between(r) <=> f.at \in {"moving", "choose"})
  BY DEF Between, Under, Called, Halting
<1>2. g.at = "leaving" => ~Between(r)
  BY DEF Between, Under, Called, Halting
<1> QED
  BY <1>1, <1>2

LEMMA BetweenCalledOn ==
  ASSUME NEW t, NEW s, NEW r, NEW f, NEW g, NEW h, Under(t, s), CalledOn(s, r, f, g, h),
         h.at = "activate"
  PROVE  Between(r)
BY DEF Between, Under, CalledOn

-------------------------------------------------------------------------------
(***************************************************************************)
(* Threads that are at work, and others.                                     *)
(***************************************************************************)
Resting(s) ==
  /\ Len(s) \in {0, 1}
  /\ Len(s) = 1 => s[1].at \in {"action", "ending"}

LEMMA RestingStack ==
  ASSUME Typed, NEW t \in Threads, ~AtWork(t)
  PROVE  Resting(stack[t])
<1>1. Len(stack[t]) \in Nat /\ Shape(t, stack[t])
  BY StackOf
<1>2. CASE t \in Names
  <2>1. ~(Len(stack[t]) > 1)
    BY <1>2 DEF AtWork
  <2>2. Len(stack[t]) \in {0, 1}
    <3>1. PICK k \in Nat : k = Len(stack[t])
      BY <1>1
    <3>2. ~(k > 1)
      BY <2>1, <3>1
    <3>3. k = 0 \/ k = 1
      BY <3>2
    <3> QED
      BY <3>1, <3>3
  <2>3. Len(stack[t]) = 1 => stack[t][1].at \in {"action", "ending"}
    BY <1>1, <1>2 DEF Shape
  <2> QED
    BY <2>2, <2>3 DEF Resting
<1>3. CASE t \notin Names
  <2>1. ~(Len(stack[t]) > 0)
    BY <1>3 DEF AtWork
  <2>2. Len(stack[t]) = 0
    BY <1>1, <2>1
  <2> QED
    BY <2>2 DEF Resting
<1> QED
  BY <1>2, <1>3

LEMMA RestingPrimed ==
  ASSUME Typed', NEW t \in Threads, ~AtWork(t)'
  PROVE  Resting(stack'[t])
<1>1. Len(stack'[t]) \in Nat /\ Shape(t, stack'[t])
  BY StackPrimed
<1>2. CASE t \in Names
  <2>1. ~(Len(stack'[t]) > 1)
    BY <1>2 DEF AtWork
  <2>2. Len(stack'[t]) \in {0, 1}
    <3>1. PICK k \in Nat : k = Len(stack'[t])
      BY <1>1
    <3>2. ~(k > 1)
      BY <2>1, <3>1
    <3>3. k = 0 \/ k = 1
      BY <3>2
    <3> QED
      BY <3>1, <3>3
  <2>3. Len(stack'[t]) = 1 => stack'[t][1].at \in {"action", "ending"}
    BY <1>1, <1>2 DEF Shape
  <2> QED
    BY <2>2, <2>3 DEF Resting
<1>3. CASE t \notin Names
  <2>1. ~(Len(stack'[t]) > 0)
    BY <1>3 DEF AtWork
  <2>2. Len(stack'[t]) = 0
    BY <1>1, <2>1
  <2> QED
    BY <2>2 DEF Resting
<1> QED
  BY <1>2, <1>3

LEMMA WorkingStack ==
  ASSUME Typed, NEW t \in Threads, NEW place, At(t, place), place \notin {"action", "ending"}
  PROVE  AtWork(t) /\ Under(t, stack[t])
<1>1. /\ Len(stack[t]) \in Nat \ {0} /\ stack[t][Len(stack[t])].at = place
      /\ Shape(t, stack[t])
  BY TopOf, StackOf
<1>2. t \in Names => stack[t][1].at \in {"action", "ending"}
  BY <1>1 DEF Shape
<1>3. t \in Names => Len(stack[t]) > 1
  BY <1>1, <1>2
<1>4. AtWork(t)
  BY <1>1, <1>3 DEF AtWork
<1> QED
  BY <1>1, <1>4 DEF Under

LEMMA RestingHas ==
  ASSUME NEW s, Resting(s), NEW n, NEW places, places \cap {"action", "ending"} = {}
  PROVE  ~Has(s, n, places)
BY DEF Resting, Has

LEMMA RestingAgree ==
  ASSUME NEW s, NEW r, NEW nd, NEW a, Resting(s), Resting(r), AgreesWith(s, nd, a)
  PROVE  AgreesWith(r, nd, a)
<1>1. ~Between(s) /\ ~Between(r)
  BY DEF Resting, Between, Halting
<1>2. \A n \in Names : ~Has(s, n, Pending) /\ ~Has(r, n, Pending)
  BY RestingHas DEF Pending
<1>3. Len(r) > 0 =>
        r[Len(r)].at \notin {"activate", "entering", "process", "pushed", "fired"}
  BY DEF Resting
<1>4. Distinct(r)
  BY DEF Resting, Distinct
<1> QED
  BY <1>1, <1>2, <1>3, <1>4 DEF AgreesWith

LEMMA OthersRest ==
  ASSUME Alone, NEW t \in Threads, AtWork(t), odd \subseteq odd', Serial',
         NEW u \in Threads \ {t}
  PROVE  Serial /\ ~AtWork(u)
<1>1. Serial
  BY DEF Serial
<1> QED
  BY <1>1 DEF Alone

(* What a step of a thread at work leaves to be shown. *)
LEMMA WorkKeeps ==
  ASSUME Typed, Typed', Alone, Agreement, odd \subseteq odd',
         NEW t \in Threads, AtWork(t), \A u \in Threads \ {t} : stack'[u] = stack[u],
         active # Gone => active' # Gone,
         Serial' /\ {"again", "stale"} \cap odd' = {} /\ AgreesWith(stack[t], node, active) =>
           AgreesWith(stack'[t], node', active')
  PROVE  Alone' /\ Agreement'
<1>1. \A u \in Threads \ {t} : AtWork(u)' <=> AtWork(u)
  BY DEF AtWork
<1>2. Alone'
  BY <1>1 DEF Alone, Serial
<1>3. Serial' => active' # Gone
  BY DEF Agreement, Serial
<1>4. ASSUME Serial', {"again", "stale"} \cap odd' = {}, NEW u \in Threads,
             \A v \in Threads \ {u} : ~AtWork(v)'
      PROVE  Agrees(stack[u])'
  <2>1. Serial /\ {"again", "stale"} \cap odd = {}
    BY <1>4 DEF Serial
  <2>2. \A v \in Threads \ {t} : ~AtWork(v)
    BY <1>4, OthersRest
  <2>3. AgreesWith(stack[t], node, active)
    BY <2>1, <2>2 DEF Agreement, Agrees
  <2>4. AgreesWith(stack'[t], node', active')
    BY <1>4, <2>3
  <2>5. CASE u # t
    <3>1. ~AtWork(u)' /\ ~AtWork(t)'
      BY <1>1, <1>4, <2>2, <2>5
    <3>2. Resting(stack'[u]) /\ Resting(stack'[t])
      BY <3>1, RestingPrimed
    <3> QED
      BY <2>4, <3>2, RestingAgree DEF Agrees
  <2> QED
    BY <2>4, <2>5 DEF Agrees
<1> QED
  BY <1>2, <1>3, <1>4 DEF Agreement

-------------------------------------------------------------------------------
(***************************************************************************)
(* A step of a thread at work, t: nobody else moves.                         *)
(***************************************************************************)
Steps(t) ==
  /\ stack' \in [Threads -> Seq(FrameOf)]
  /\ \A u \in Threads \ {t} : stack'[u] = stack[u]
  /\ Shape(t, stack'[t])
  /\ ~At(t, "ending")' /\ ~At(t, "timeout")'

AgreementKept(t) ==
  Serial' /\ {"again", "stale"} \cap odd' = {} /\ AgreesWith(stack[t], node, active) =>
    AgreesWith(stack'[t], node', active')

(* An event that is due in this visit is so before, or the timer is not set yet. *)
DueBefore(t, n, e) ==
  /\ \E d \in node[n].queue :
       d.kind \in {"held", "loose"} /\ d.token = e.token /\ d.visit = e.visit
  /\ OfThisVisit(n, e) => OfThisVisit(n, e)'
  /\ Has(stack[t], n, Unset) => Has(stack'[t], n, Unset) \/ OfThisVisit(n, e)'

VisitsKept(t) ==
  \A n \in Names : \A e \in node'[n].queue :
    /\ e.token <= node'[n].token
    /\ e.kind \in {"held", "loose"} =>
         OfThisVisit(n, e)' \/ Has(stack'[t], n, Unset) \/ DueBefore(t, n, e)

(* What Defined says of the thread that is at work. *)
Sound(t) ==
  \A n \in Names :
    /\ node[n].thread = "doomed" => node[n].done
    /\ ~node[n].isActive \/ Serves(n) \/ Has(stack[t], n, Unstarted)

TopDefined(t) ==
  Len(stack[t]) > 0 =>
    /\ Halted(stack[t][Len(stack[t])])
    /\ stack[t][Len(stack[t])].at = "process" => Len(stack[t]) = 1

DefinedKept(t) ==
  /\ \A n \in Names : HasThread(n)'
  /\ odd = {} /\ odd' = {} /\ ~ub /\ Sound(t) /\ TopDefined(t) =>
       ~ub' /\ Sound(t)' /\ TopDefined(t)'

LEMMA WorkVisits ==
  ASSUME Typed, Typed', Alone, Visits, odd \subseteq odd',
         NEW t \in Threads, AtWork(t), Steps(t), VisitsKept(t)
  PROVE  Visits'
<1>1. ASSUME Serial', NEW n \in Names, NEW e \in node'[n].queue,
             e.kind \in {"held", "loose"}
      PROVE  OfThisVisit(n, e)' \/ \E u \in Threads : Has(stack'[u], n, Unset)
  <2>1. CASE OfThisVisit(n, e)' \/ Has(stack'[t], n, Unset)
    BY <2>1
  <2>2. CASE DueBefore(t, n, e)
    <3>1. OfThisVisit(n, e) \/ \E u \in Threads : Has(stack[u], n, Unset)
      <4>1. PICK d \in node[n].queue :
              d.kind \in {"held", "loose"} /\ d.token = e.token /\ d.visit = e.visit
        BY <2>2 DEF DueBefore
      <4>2. Serial
        BY <1>1 DEF Serial
      <4>3. OfThisVisit(n, d) \/ \E u \in Threads : Has(stack[u], n, Unset)
        BY <4>1, <4>2 DEF Visits, VisitsOf
      <4> QED
        BY <4>1, <4>3 DEF OfThisVisit
    <3>2. CASE OfThisVisit(n, e)
      BY <2>2, <3>2 DEF DueBefore
    <3>3. CASE \E u \in Threads : Has(stack[u], n, Unset)
      <4>1. PICK u \in Threads : Has(stack[u], n, Unset)
        BY <3>3
      <4>2. CASE u = t
        BY <2>2, <4>1, <4>2 DEF DueBefore
      <4>3. CASE u # t
        BY <4>1, <4>3 DEF Steps
      <4> QED
        BY <4>2, <4>3
    <3> QED
      BY <3>1, <3>2, <3>3
  <2> QED
    BY <1>1, <2>1, <2>2 DEF VisitsKept
<1>2. ASSUME Serial', NEW n \in Names, At(n, "timeout")'
      PROVE  FALSE
  <2>1. n # t /\ n \in Threads
    BY <1>2 DEF Steps, Threads
  <2>2. At(n, "timeout")
    BY <1>2, <2>1 DEF Steps, At
  <2>3. AtWork(n)
    BY <2>1, <2>2, WorkingStack
  <2> QED
    BY <1>2, <2>1, <2>3, OthersRest
<1> QED
  BY <1>1, <1>2 DEF Visits, VisitsOf, VisitsKept

LEMMA DefinedAtWork ==
  ASSUME Typed, Alone, Defined, odd = {}, NEW t \in Threads, AtWork(t)
  PROVE  ~ub /\ Sound(t) /\ TopDefined(t)
<1>1. Serial
  BY DEF Serial
<1>2. ASSUME NEW u \in Threads \ {t}, NEW n PROVE ~Has(stack[u], n, Unstarted)
  <2>1. Resting(stack[u])
    BY <1>1, RestingStack DEF Alone
  <2> QED
    BY <2>1, RestingHas DEF Unstarted
<1>3. Sound(t)
  BY <1>2 DEF Defined, DefinedFor, Sound
<1>4. TopDefined(t)
  <2>1. Len(stack[t]) > 0 => Len(stack[t]) \in 1 .. Len(stack[t])
    BY StackOf
  <2>2. DefinedAt(t)
    BY DEF Defined
  <2> QED
    BY <2>1, <2>2 DEF DefinedAt, TopDefined
<1> QED
  BY <1>3, <1>4 DEF Defined

LEMMA WorkDefined ==
  ASSUME Typed, Typed', Alone, Defined, odd \subseteq odd',
         NEW t \in Threads, AtWork(t), Steps(t), DefinedKept(t)
  PROVE  Defined'
<1>1. ASSUME odd' = {} PROVE ~ub' /\ Sound(t)' /\ TopDefined(t)'
  BY <1>1, DefinedAtWork DEF DefinedKept
<1>2. ASSUME odd' = {}, NEW u \in Threads PROVE DefinedAt(u)'
  <2>1. CASE u # t
    <3>1. Resting(stack[u])
      BY <1>2, <2>1, OthersRest, RestingStack DEF Serial
    <3>2. stack'[u] = stack[u]
      BY <2>1 DEF Steps
    <3> QED
      BY <3>1, <3>2 DEF Resting, DefinedAt, Halted, Halting
  <2>2. CASE u = t
    <3>1. ASSUME NEW i \in 1 .. Len(stack'[t])
          PROVE  Halted(stack[t][i])' /\ (stack'[t][i].at = "process" => i = 1)
      <4>1. Len(stack'[t]) \in Nat /\ Shape(t, stack'[t])
        BY StackPrimed
      <4>2. CASE i < Len(stack'[t])
        <5>1. stack'[t][i].at \in Callers
          BY <4>1, <4>2 DEF Shape
        <5> QED
          BY <5>1 DEF Halted, Halting, Callers
      <4>3. CASE i = Len(stack'[t])
        <5>1. Len(stack'[t]) > 0
          BY <4>1, <4>3
        <5> QED
          BY <1>1, <1>2, <4>3, <5>1 DEF TopDefined
      <4> QED
        BY <4>1, <4>2, <4>3
    <3> QED
      BY <2>2, <3>1 DEF DefinedAt
  <2> QED
    BY <2>1, <2>2
<1>3. ASSUME odd' = {}, NEW n \in Names PROVE DefinedFor(n)'
  BY <1>1, <1>3 DEF Sound, DefinedFor
<1> QED
  BY <1>1, <1>2, <1>3 DEF Defined, DefinedKept

LEMMA FlowKeeps ==
  ASSUME IInv, NEW t \in Threads, AtWork(t), Steps(t),
         states' \subseteq Names, active' \in Names \cup {Nobody, Gone},
         active # Gone => active' # Gone, node' \in [Names -> Node], HeldOnce',
         ub' \in BOOLEAN, ops' \in 0 .. MaxOps, odd \subseteq odd', odd' \subseteq Oddities,
         AgreementKept(t), VisitsKept(t), DefinedKept(t)
  PROVE  IInv'
<1>1. \A u \in Threads : Shape(u, stack'[u])
  BY DEF IInv, Typed, Steps
<1>2. Typed'
  BY <1>1 DEF IInv, Typed, Steps
<1>3. Alone' /\ Agreement'
  BY <1>2, WorkKeeps DEF IInv, Steps, AgreementKept
<1>4. Visits' /\ Defined'
  BY <1>2, WorkVisits, WorkDefined DEF IInv
<1> QED
  BY <1>2, <1>3, <1>4 DEF IInv

(* The same of a step that changes the thread's stack and the machine's state only. *)
LEMMA StackKeeps ==
  ASSUME IInv, NEW t \in Threads, AtWork(t), ~At(t, "ending"), Steps(t),
         UNCHANGED <<states, node, ub, ops>>, active' \in Names \cup {Nobody, Gone},
         active # Gone => active' # Gone, odd \subseteq odd', odd' \subseteq Oddities,
         AgreementKept(t),
         \A n : /\ Has(stack[t], n, Unset) => Has(stack'[t], n, Unset)
                /\ Has(stack[t], n, Unstarted) => Has(stack'[t], n, Unstarted),
         Len(stack'[t]) > 0 =>
           stack'[t][Len(stack'[t])].at \notin Halting \cup {"process"}
  PROVE  IInv'
<1>1. /\ \A n \in Names : \A e \in node[n].queue : e.token <= node[n].token
      /\ \A n \in Names : HasThread(n)
      /\ Typed
  BY DEF IInv, Visits, Defined
<1>2. VisitsKept(t)
  BY <1>1 DEF VisitsKept, DueBefore, OfThisVisit
<1>3. ASSUME NEW n \in Names PROVE HasThread(n)'
  <2>1. CASE n = t
    <3>1. stack[n] # <<>>
      <4>1. Len(stack[t]) > 0
        BY <1>1, StackOf DEF AtWork
      <4> QED
        BY <2>1, <1>1, <4>1, StackOf
    <3> QED
      BY <1>1, <3>1 DEF HasThread
  <2>2. CASE n # t
    <3>1. n \in Threads \ {t}
      BY <2>2 DEF Threads
    <3> QED
      BY <1>1, <3>1 DEF HasThread, Steps
  <2> QED
    BY <2>1, <2>2
<1>4. ASSUME NEW n \in Names, Serves(n) PROVE Serves(n)'
  <2>1. n \in Threads /\ (n # t => stack'[n] = stack[n])
    BY DEF Threads, Steps
  <2> QED
    BY <1>4, <2>1 DEF Serves, Steps, At
<1>5. ASSUME Sound(t) PROVE Sound(t)' /\ TopDefined(t)'
  BY <1>4, <1>5 DEF Sound, TopDefined, Halted, Halting
<1>6. DefinedKept(t)
  BY <1>3, <1>5 DEF DefinedKept
<1> QED
  BY <1>1, <1>2, <1>6, FlowKeeps DEF IInv, Typed, HeldOnce

-------------------------------------------------------------------------------
(* The four kinds of steps of a thread at work. *)
LEMMA TopPrimed ==
  ASSUME NEW t, NEW s \in Seq(FrameOf), stack'[t] = s,
         Len(s) > 0 => s[Len(s)].at \notin {"ending", "timeout"}
  PROVE  ~At(t, "ending")' /\ ~At(t, "timeout")'
BY EmptySeq DEF At, Last

LEMMA Pops ==
  ASSUME Typed, NEW t \in Threads, NEW place, At(t, place), place \notin {"action", "ending"},
         Return(t)
  PROVE  /\ Steps(t) /\ AtWork(t) /\ Under(t, stack[t]) /\ Popped(stack[t], stack'[t])
         /\ Len(stack'[t]) > 0 => stack'[t][Len(stack'[t])].at \in Callers
<1>1. Under(t, stack[t]) /\ AtWork(t) /\ stack[t] # <<>> /\ stack[t] \in Seq(FrameOf)
  BY WorkingStack, StackOf DEF At
<1>2. /\ stack' \in [Threads -> Seq(FrameOf)]
      /\ \A u \in Threads \ {t} : stack'[u] = stack[u]
      /\ Over(stack[t], <<>>, stack'[t])
  <2>1. <<>> \in Seq(FrameOf)
    OBVIOUS
  <2> QED
    BY <1>1, <2>1, BecomeIs DEF Return
<1>3. PICK f \in FrameOf : f = stack[t][Len(stack[t])]
  BY <1>1, TopOf DEF Fits
<1>4. Popped(stack[t], stack'[t])
  BY <1>1, <1>2, <1>3, OverIs
<1>5. Shape(t, stack'[t])
  BY <1>1, <1>4, ShapePopped
<1>6. Len(stack'[t]) > 0 => stack'[t][Len(stack'[t])].at \in Callers
  BY <1>1, <1>4 DEF Popped, Under, Shape
<1>7. ~At(t, "ending")' /\ ~At(t, "timeout")'
  BY <1>2, <1>6, TopPrimed DEF Callers
<1> QED
  BY <1>1, <1>2, <1>4, <1>5, <1>6, <1>7 DEF Steps

LEMMA Replaces ==
  ASSUME Typed, NEW t \in Threads, NEW place, At(t, place), place \notin {"action", "ending"},
         NEW f, Fits(t, f), Become(t, <<f>>),
         f.at \notin {"action", "ending", "choose", "deactivate", "timeout"},
         place \in Halting \cup {"deactivate"} => f.at \in Halting,
         f.at = "fired" => place = "timeout"
  PROVE  Steps(t) /\ AtWork(t) /\ Under(t, stack[t]) /\ Replaced(stack[t], stack'[t], f)
<1>1. /\ Under(t, stack[t]) /\ AtWork(t) /\ stack[t] # <<>> /\ stack[t] \in Seq(FrameOf)
      /\ stack[t][Len(stack[t])].at = place
  BY WorkingStack, StackOf, TopOf DEF At
<1>2. /\ stack' \in [Threads -> Seq(FrameOf)]
      /\ \A u \in Threads \ {t} : stack'[u] = stack[u]
      /\ Over(stack[t], <<f>>, stack'[t])
  <2>1. <<f>> \in Seq(FrameOf)
    BY DEF Fits
  <2> QED
    BY <1>1, <2>1, BecomeIs
<1>3. Replaced(stack[t], stack'[t], f)
  BY <1>1, <1>2, OverIs DEF Fits
<1>4. Shape(t, stack'[t])
  BY <1>1, <1>3, ShapeReplaced
<1>5. ~At(t, "ending")' /\ ~At(t, "timeout")'
  BY <1>2, <1>3, TopPrimed DEF Replaced
<1> QED
  BY <1>1, <1>2, <1>3, <1>4, <1>5 DEF Steps

LEMMA FiredBelow ==
  ASSUME NEW t, NEW s, Under(t, s), s[Len(s)].at = "fired"
  PROVE  Len(s) = 2 /\ s[1].at = "action"
<1>1. Len(s) = 2
  <2>1. PICK k \in 1 .. Len(s) : k = Len(s)
    BY DEF Under
  <2> QED
    BY <2>1 DEF Under, Shape
<1>2. t \in Names
  BY <1>1 DEF Under, Shape, Fits, FrameOf
<1>3. s[1].at \in {"action", "ending"} /\ s[1].at \in Callers
  BY <1>1, <1>2 DEF Under, Shape
<1> QED
  BY <1>1, <1>3 DEF Callers

LEMMA Calls2 ==
  ASSUME Typed, NEW t \in Threads, NEW place, At(t, place),
         place \notin {"action", "ending", "deactivate"} \cup Halting,
         NEW f, NEW g, Fits(t, f), Fits(t, g), Become(t, <<f, g>>),
         f.at \in Callers \ {"action", "choose"},
         f.at = "moving" => g.at \in Halting,
         f.at = "deactivate" => place = "fired",
         g.at \notin {"action", "ending", "choose", "deactivate", "timeout", "fired"}
  PROVE  Steps(t) /\ AtWork(t) /\ Under(t, stack[t]) /\ Called(stack[t], stack'[t], f, g)
<1>1. /\ Under(t, stack[t]) /\ AtWork(t) /\ stack[t] # <<>> /\ stack[t] \in Seq(FrameOf)
      /\ stack[t][Len(stack[t])].at = place
  BY WorkingStack, StackOf, TopOf DEF At
<1>2. /\ stack' \in [Threads -> Seq(FrameOf)]
      /\ \A u \in Threads \ {t} : stack'[u] = stack[u]
      /\ Over(stack[t], <<f, g>>, stack'[t])
  <2>1. <<f, g>> \in Seq(FrameOf)
    BY DEF Fits
  <2> QED
    BY <1>1, <2>1, BecomeIs
<1>3. Called(stack[t], stack'[t], f, g)
  BY <1>1, <1>2, OverIs DEF Fits
<1>4. f.at = "deactivate" => Len(stack[t]) = 2 /\ stack[t][1].at = "action"
  BY <1>1, FiredBelow
<1>5. Shape(t, stack'[t])
  BY <1>1, <1>3, <1>4, ShapeCalled
<1>6. ~At(t, "ending")' /\ ~At(t, "timeout")'
  BY <1>1, <1>2, <1>3, TopPrimed DEF Called, Under
<1> QED
  BY <1>1, <1>2, <1>3, <1>5, <1>6 DEF Steps

LEMMA Calls3 ==
  ASSUME Typed, NEW t \in Threads, NEW place, At(t, place),
         place \notin {"action", "ending", "deactivate"} \cup Halting,
         NEW f, NEW g, NEW h, Fits(t, f), Fits(t, g), Fits(t, h), Become(t, <<f, g, h>>),
         f.at \in Callers \ {"action", "choose", "moving"},
         f.at = "deactivate" => place = "fired",
         g.at = "leaving",
         h.at \notin {"action", "ending", "choose", "deactivate", "timeout", "fired"}
  PROVE  Steps(t) /\ AtWork(t) /\ Under(t, stack[t]) /\ CalledOn(stack[t], stack'[t], f, g, h)
<1>1. /\ Under(t, stack[t]) /\ AtWork(t) /\ stack[t] # <<>> /\ stack[t] \in Seq(FrameOf)
      /\ stack[t][Len(stack[t])].at = place
  BY WorkingStack, StackOf, TopOf DEF At
<1>2. /\ stack' \in [Threads -> Seq(FrameOf)]
      /\ \A u \in Threads \ {t} : stack'[u] = stack[u]
      /\ Over(stack[t], <<f, g, h>>, stack'[t])
  <2>1. <<f, g, h>> \in Seq(FrameOf)
    BY DEF Fits
  <2> QED
    BY <1>1, <2>1, BecomeIs
<1>3. CalledOn(stack[t], stack'[t], f, g, h)
  BY <1>1, <1>2, OverIs DEF Fits
<1>4. f.at = "deactivate" => Len(stack[t]) = 2 /\ stack[t][1].at = "action"
  BY <1>1, FiredBelow
<1>5. Shape(t, stack'[t])
  BY <1>1, <1>3, <1>4, ShapeCalledOn
<1>6. ~At(t, "ending")' /\ ~At(t, "timeout")'
  BY <1>1, <1>2, <1>3, TopPrimed DEF CalledOn, Under
<1> QED
  BY <1>1, <1>2, <1>3, <1>5, <1>6 DEF Steps

-------------------------------------------------------------------------------
LEMMA AgreePopped ==
  ASSUME NEW t, NEW s, NEW r, NEW nd, NEW a, Under(t, s), Popped(s, r), AgreesWith(s, nd, a),
         s[Len(s)].at \notin Turning \cup Pending
  PROVE  AgreesWith(r, nd, a)
<1>1. Len(s) \in Nat \ {0}
  BY DEF Under
<1>2. \A n \in Names : Has(r, n, Pending) <=> Has(s, n, Pending)
  BY <1>1, HasIs, HasPopped DEF Is
<1>3. Between(r) <=> Between(s)
  BY BetweenTop, BetweenPopped
<1>4. Distinct(r)
  BY <1>1, DistinctPopped DEF AgreesWith
<1>5. Len(r) > 0 => r[Len(r)].at \in Callers
  BY <1>1 DEF Popped, Under, Shape
<1> QED
  BY <1>2, <1>3, <1>4, <1>5 DEF AgreesWith, Callers

LEMMA AgreeReplaced ==
  ASSUME NEW t, NEW s, NEW r, NEW f, NEW nd, NEW a, Under(t, s), Replaced(s, r, f),
         AgreesWith(s, nd, a), s[Len(s)].at \notin Pending, f.at \notin Pending,
         Between(r) <=> Between(s),
         f.at \in Late => s[Len(s)].at \in Late /\ f.node = s[Len(s)].node,
         f.at \in {"activate", "entering", "process", "pushed", "fired"} => f.node = a
  PROVE  AgreesWith(r, nd, a)
<1>1. Len(s) \in Nat \ {0}
  BY DEF Under
<1>2. \A n \in Names : Has(r, n, Pending) <=> Has(s, n, Pending)
  BY <1>1, HasIs, HasReplaced DEF Is
<1>3. f.at \in Late => ~Below(s, f.node, Pending)
  BY <1>1, DistinctBelow DEF AgreesWith
<1>4. Distinct(r)
  BY <1>1, <1>3, DistinctReplaced DEF AgreesWith
<1> QED
  BY <1>1, <1>2, <1>4 DEF AgreesWith, Replaced

(* A frame that is replaced by one of the same node, not yet set and started. *)
LEMMA KeptReplaced ==
  ASSUME NEW s, NEW r, NEW f, Len(s) \in Nat \ {0}, Replaced(s, r, f),
         f.node = s[Len(s)].node, s[Len(s)].at \in Unstarted => f.at \in Unset
  PROVE  \A n : /\ Has(s, n, Unset) => Has(r, n, Unset)
                /\ Has(s, n, Unstarted) => Has(r, n, Unstarted)
<1>1. Unset \subseteq Unstarted
  BY DEF Unset, Unstarted
<1> QED
  BY <1>1, HasIs, HasReplaced DEF Is

LEMMA KeptPopped ==
  ASSUME NEW s, NEW r, Len(s) \in Nat \ {0}, Popped(s, r), s[Len(s)].at \notin Unstarted
  PROVE  \A n : /\ Has(s, n, Unset) => Has(r, n, Unset)
                /\ Has(s, n, Unstarted) => Has(r, n, Unstarted)
<1>1. Unset \subseteq Unstarted
  BY DEF Unset, Unstarted
<1> QED
  BY <1>1, HasIs, HasPopped DEF Is

LEMMA LeftKeeps ==
  ASSUME IInv, NEW t \in Threads, Left(t)
  PROVE  IInv'
<1>1. PICK place \in {"leaving", "left"} : At(t, place)
  BY DEF Left
<1>2. Typed /\ Return(t) /\ ~At(t, "ending")
  BY <1>1 DEF IInv, Left, At
<1>3. /\ Steps(t) /\ AtWork(t) /\ Under(t, stack[t]) /\ Popped(stack[t], stack'[t])
      /\ Len(stack'[t]) > 0 => stack'[t][Len(stack'[t])].at \in Callers
  BY <1>1, <1>2, Pops
<1>4. Len(stack[t]) \in Nat \ {0} /\ stack[t][Len(stack[t])].at = place
  BY <1>1, <1>2, TopOf
<1>5. AgreementKept(t)
  BY <1>1, <1>3, <1>4, AgreePopped DEF AgreementKept, Left, Turning, Pending
<1>6. \A n : /\ Has(stack[t], n, Unset) => Has(stack'[t], n, Unset)
             /\ Has(stack[t], n, Unstarted) => Has(stack'[t], n, Unstarted)
  BY <1>1, <1>3, <1>4, KeptPopped DEF Unstarted
<1>7. UNCHANGED <<states, active, node, ub, ops, odd>>
  BY DEF Left
<1> QED
  BY <1>2, <1>3, <1>5, <1>6, <1>7, StackKeeps DEF Typed, Callers, Halting

LEMMA EnterCBKeeps ==
  ASSUME IInv, NEW t \in Threads, EnterCB(t)
  PROVE  IInv'
<1>1. Typed /\ At(t, "entering") /\ ~At(t, "ending")
  BY DEF IInv, EnterCB, At
<1>2. /\ Len(stack[t]) \in Nat \ {0} /\ stack[t][Len(stack[t])].at = "entering"
      /\ Here(t) = stack[t][Len(stack[t])].node /\ Here(t) \in Names
  BY <1>1, TopOf
<1>3. PICK f : f = [at |-> "inside", node |-> Here(t), to |-> Nobody]
  OBVIOUS
<1>4. f.at = "inside" /\ f.node = Here(t) /\ Fits(t, f)
  BY <1>2, <1>3 DEF Fits, FrameOf, Places
<1>5. Become(t, <<f>>)
  BY <1>3 DEF EnterCB, Frame
<1>6. Steps(t) /\ AtWork(t) /\ Under(t, stack[t]) /\ Replaced(stack[t], stack'[t], f)
  BY <1>1, <1>4, <1>5, Replaces DEF Halting
<1>7. ASSUME AgreesWith(stack[t], node, active) PROVE AgreesWith(stack'[t], node', active')
  <2>1. ~Between(stack[t]) /\ ~Between(stack'[t])
    BY <1>2, <1>4, <1>6, BetweenTop, BetweenReplaced DEF Turning, Stopped, Halting
  <2>2. active' = active /\ node' = node
    BY <1>2, <1>7 DEF EnterCB, AgreesWith
  <2> QED
    BY <1>2, <1>4, <1>6, <1>7, <2>1, <2>2, AgreeReplaced DEF Late, Pending
<1>8. \A n : /\ Has(stack[t], n, Unset) => Has(stack'[t], n, Unset)
             /\ Has(stack[t], n, Unstarted) => Has(stack'[t], n, Unstarted)
  BY <1>2, <1>4, <1>6, KeptReplaced DEF Unset
<1>9. Len(stack'[t]) = Len(stack[t]) /\ stack'[t][Len(stack'[t])].at = "inside"
  BY <1>4, <1>6 DEF Replaced
<1>10. AgreementKept(t)
  BY <1>7 DEF AgreementKept
<1>11. UNCHANGED <<states, node, ub, ops, odd>> /\ active' \in Names
  BY <1>2 DEF EnterCB
<1>12. active' # Gone /\ odd \subseteq Oddities
  BY <1>1, <1>11, StateMachineAssumption DEF Typed
<1> QED
  BY <1>1, <1>6, <1>8, <1>9, <1>10, <1>11, <1>12, StackKeeps DEF Halting

LEMMA EnteredKeeps ==
  ASSUME IInv, NEW t \in Threads, NEW e \in Pushes \cup {Nobody}, Entered(t, e)
  PROVE  IInv'
<1>1. Typed /\ At(t, "inside") /\ ~At(t, "ending")
  BY DEF IInv, Entered, At
<1>2. /\ Len(stack[t]) \in Nat \ {0} /\ stack[t][Len(stack[t])].at = "inside"
      /\ Here(t) = stack[t][Len(stack[t])].node /\ Here(t) \in Names
  BY <1>1, TopOf
<1>3. PICK f : f = [at |-> IF e = Nobody THEN "arm" ELSE "push", node |-> Here(t), to |-> e]
  OBVIOUS
<1>4. f.at \in {"arm", "push"} /\ f.node = Here(t) /\ Fits(t, f)
  <2>1. f.at \in {"arm", "push"} /\ f.node = Here(t) /\ f.to = e
    BY <1>3
  <2>2. f.at = "push" => e \in Events
    BY <1>3, StateMachineAssumption
  <2>3. f \in FrameOf
    BY <1>2, <1>3, StateMachineAssumption DEF FrameOf, Places
  <2> QED
    BY <2>1, <2>2, <2>3 DEF Fits
<1>5. Become(t, <<f>>)
  BY <1>3 DEF Entered, Frame
<1>6. Steps(t) /\ AtWork(t) /\ Under(t, stack[t]) /\ Replaced(stack[t], stack'[t], f)
  BY <1>1, <1>4, <1>5, Replaces DEF Halting
<1>7. ASSUME AgreesWith(stack[t], node, active) PROVE AgreesWith(stack'[t], node', active')
  <2>1. ~Between(stack[t]) /\ ~Between(stack'[t])
    BY <1>2, <1>4, <1>6, BetweenTop, BetweenReplaced DEF Turning, Stopped, Halting
  <2>2. active' = active /\ node' = node
    BY DEF Entered
  <2> QED
    BY <1>2, <1>4, <1>6, <1>7, <2>1, <2>2, AgreeReplaced DEF Late, Pending
<1>8. \A n : /\ Has(stack[t], n, Unset) => Has(stack'[t], n, Unset)
             /\ Has(stack[t], n, Unstarted) => Has(stack'[t], n, Unstarted)
  BY <1>2, <1>4, <1>6, KeptReplaced DEF Unset
<1>9. Len(stack'[t]) = Len(stack[t]) /\ stack'[t][Len(stack'[t])].at \in {"arm", "push"}
  BY <1>4, <1>6 DEF Replaced
<1>10. AgreementKept(t)
  BY <1>7 DEF AgreementKept
<1>11. UNCHANGED <<states, active, node, ub, ops, odd>>
  BY DEF Entered
<1>12. active \in Names \cup {Nobody, Gone} /\ odd \subseteq Oddities
  BY <1>1 DEF Typed
<1> QED
  BY <1>1, <1>6, <1>8, <1>9, <1>10, <1>11, <1>12, StackKeeps DEF Halting

LEMMA PushKeeps ==
  ASSUME IInv, NEW t \in Threads, Push(t)
  PROVE  IInv'
<1>1. Typed /\ At(t, "push") /\ ~At(t, "ending")
  BY DEF IInv, Push, At
<1>2. /\ Len(stack[t]) \in Nat \ {0} /\ stack[t][Len(stack[t])].at = "push"
      /\ Here(t) = stack[t][Len(stack[t])].node /\ Here(t) \in Names
      /\ To(t) \in Events
  BY <1>1, TopOf DEF Fits
<1>3. PICK n \in Names : n = Here(t)
  BY <1>2
<1>4. PICK dest \in Names \cup {Nobody} : dest = node[n].trans[To(t)]
  BY <1>1, <1>2 DEF Typed, Node
<1>5. PICK f : f = [at |-> IF Stays(n, dest) THEN "arm" ELSE "pushed", node |-> n, to |-> dest]
  OBVIOUS
<1>6. /\ f.at = IF Stays(n, dest) THEN "arm" ELSE "pushed"
      /\ f.node = n /\ Fits(t, f)
  <2>1. f.at = (IF Stays(n, dest) THEN "arm" ELSE "pushed") /\ f.node = n /\ f.to = dest
    BY <1>5
  <2>2. f \in FrameOf
    BY <1>5 DEF FrameOf, Places
  <2> QED
    BY <2>1, <2>2 DEF Fits
<1>7. /\ Become(t, <<f>>)
      /\ Oddly("stale", ~Stays(n, dest) /\ ~node[n].isActive)
      /\ UNCHANGED <<states, active, node, ub, ops>>
  BY <1>3, <1>4, <1>5 DEF Push, Frame
<1>8. Steps(t) /\ AtWork(t) /\ Under(t, stack[t]) /\ Replaced(stack[t], stack'[t], f)
  BY <1>1, <1>6, <1>7, Replaces DEF Halting
<1>9. ASSUME "stale" \notin odd', AgreesWith(stack[t], node, active)
      PROVE  AgreesWith(stack'[t], node', active')
  <2>1. ~Between(stack[t]) /\ ~Between(stack'[t])
    BY <1>2, <1>6, <1>8, BetweenTop, BetweenReplaced DEF Turning, Stopped, Halting
  <2>2. ~Has(stack[t], n, Pending)
    BY <1>2, <1>3, <1>9, HasIs, DistinctBelow DEF AgreesWith, Is, Pending, Late
  <2>3. f.at = "pushed" => n = active
    BY <1>6, <1>7, <1>9, <2>2 DEF Oddly, AgreesWith
  <2> QED
    BY <1>2, <1>3, <1>6, <1>7, <1>8, <1>9, <2>1, <2>3, AgreeReplaced DEF Late, Pending
<1>10. AgreementKept(t)
  BY <1>9 DEF AgreementKept
<1>11. \A m : /\ Has(stack[t], m, Unset) => Has(stack'[t], m, Unset)
              /\ Has(stack[t], m, Unstarted) => Has(stack'[t], m, Unstarted)
  BY <1>2, <1>3, <1>6, <1>8, KeptReplaced DEF Unset
<1>12. Len(stack'[t]) = Len(stack[t]) /\ stack'[t][Len(stack'[t])].at \in {"arm", "pushed"}
  BY <1>6, <1>8 DEF Replaced
<1>13. odd \subseteq odd' /\ odd' \subseteq Oddities /\ active \in Names \cup {Nobody, Gone}
  BY <1>1, <1>7 DEF Typed, Oddly, Oddities
<1> QED
  BY <1>1, <1>7, <1>8, <1>10, <1>11, <1>12, <1>13, StackKeeps DEF Halting

-------------------------------------------------------------------------------
(* Short sequences of frames. *)
LEMMA Frames ==
  ASSUME NEW f \in FrameOf, NEW g \in FrameOf, NEW h \in FrameOf
  PROVE  /\ <<f>> \o <<>> = <<f>> /\ <<f>> \o <<g>> = <<f, g>>
         /\ <<f, g>> \o <<>> = <<f, g>> /\ <<f, g>> \o <<h>> = <<f, g, h>>
<1>1. <<f>> \o <<>> = <<f>>
  OBVIOUS
<1>2. <<f>> \o <<g>> = <<f, g>>
  <2>1. PICK p \in Seq(FrameOf) : p = <<f>>
    <3>1. <<f>> \in Seq(FrameOf)
      OBVIOUS
    <3> QED
      BY <3>1
  <2>2. PICK q \in Seq(FrameOf) : q = <<g>>
    <3>1. <<g>> \in Seq(FrameOf)
      OBVIOUS
    <3> QED
      BY <3>1
  <2>3. Len(p) = 1 /\ p[1] = f /\ Len(q) = 1 /\ q[1] = g
    BY <2>1, <2>2
  <2>4. /\ p \o q \in Seq(FrameOf) /\ Len(p \o q) = 2
        /\ (p \o q)[1] = f /\ (p \o q)[2] = g
    BY <2>3, ConcatProperties
  <2>5. <<f, g>> \in Seq(FrameOf) /\ Len(<<f, g>>) = 2 /\ <<f, g>>[1] = f /\ <<f, g>>[2] = g
    OBVIOUS
  <2>6. PICK v \in Seq(FrameOf) : v = p \o q
    BY <2>4
  <2>7. PICK w \in Seq(FrameOf) : w = <<f, g>>
    BY <2>5
  <2>8. Len(v) = Len(w) /\ \A i \in 1 .. Len(v) : v[i] = w[i]
    BY <2>4, <2>5, <2>6, <2>7
  <2> QED
    BY <2>1, <2>2, <2>6, <2>7, <2>8, SeqEqual
<1>3. <<f, g>> \o <<>> = <<f, g>>
  OBVIOUS
<1>4. <<f, g>> \o <<h>> = <<f, g, h>>
  <2>1. PICK p \in Seq(FrameOf) : p = <<f, g>>
    <3>1. <<f, g>> \in Seq(FrameOf)
      OBVIOUS
    <3> QED
      BY <3>1
  <2>2. PICK q \in Seq(FrameOf) : q = <<h>>
    <3>1. <<h>> \in Seq(FrameOf)
      OBVIOUS
    <3> QED
      BY <3>1
  <2>3. Len(p) = 2 /\ p[1] = f /\ p[2] = g /\ Len(q) = 1 /\ q[1] = h
    BY <2>1, <2>2
  <2>4. /\ p \o q \in Seq(FrameOf) /\ Len(p \o q) = 3
        /\ \A i \in 1 .. 3 : (p \o q)[i] = IF i <= 2 THEN p[i] ELSE q[i - 2]
    <3>1. /\ p \o q \in Seq(FrameOf) /\ Len(p \o q) = Len(p) + Len(q)
          /\ \A i \in 1 .. Len(p) + Len(q) :
               (p \o q)[i] = IF i <= Len(p) THEN p[i] ELSE q[i - Len(p)]
      BY ConcatProperties
    <3> QED
      BY <2>3, <3>1
  <2>5. /\ <<f, g, h>> \in Seq(FrameOf) /\ Len(<<f, g, h>>) = 3
        /\ <<f, g, h>>[1] = f /\ <<f, g, h>>[2] = g /\ <<f, g, h>>[3] = h
    OBVIOUS
  <2>6. PICK v \in Seq(FrameOf) : v = p \o q
    BY <2>4
  <2>7. PICK w \in Seq(FrameOf) : w = <<f, g, h>>
    BY <2>5
  <2>8. v[1] = f /\ v[2] = g /\ v[3] = h
    BY <2>3, <2>4, <2>6
  <2>9. Len(v) = Len(w) /\ \A i \in 1 .. Len(v) : v[i] = w[i]
    BY <2>4, <2>5, <2>6, <2>7, <2>8
  <2> QED
    BY <2>1, <2>2, <2>6, <2>7, <2>9, SeqEqual
<1> QED
  BY <1>1, <1>2, <1>3, <1>4

(* The state of frame s[Len(s)] was left: a is the machine's state then, b the next. *)
Leaves(s, r, f, g, h, b) ==
  \/ Called(s, r, f, g) /\ b = Nobody
  \/ CalledOn(s, r, f, g, h) /\ h.at = "activate" /\ h.node = b /\ b \in Names

LEMMA AgreeLeaving ==
  ASSUME NEW t, NEW s, NEW r, NEW f, NEW g, NEW h, NEW nd, NEW a, NEW b, Under(t, s),
         AgreesWith(s, nd, a), s[Len(s)].at \in {"moving", "fired", "pushed"},
         f.node = s[Len(s)].node, f.node \in Names,
         f.at = IF s[Len(s)].at = "moving" THEN "left"
                ELSE IF s[Len(s)].at = "fired" THEN "deactivate" ELSE "close",
         g.at = "leaving", Leaves(s, r, f, g, h, b)
  PROVE  AgreesWith(r, nd, b)
<1>1. Len(s) \in Nat \ {0}
  BY DEF Under
<1>2. \A m \in Names : Has(s, m, Pending) <=> Below(s, m, Pending)
  BY <1>1, HasIs DEF Is, Pending
<1>3. \A m \in Names : Has(r, m, Pending) <=> Below(s, m, Pending) \/ Is(f, m, Pending)
  <2>1. \A m \in Names : ~Is(g, m, Pending)
    BY DEF Is, Pending
  <2>2. CASE Called(s, r, f, g)
    BY <1>1, <2>1, <2>2, HasCalled
  <2>3. CASE CalledOn(s, r, f, g, h) /\ h.at = "activate"
    <3>1. \A m \in Names : ~Is(h, m, Pending)
      BY <2>3 DEF Is, Pending
    <3> QED
      BY <1>1, <2>1, <2>3, <3>1, HasCalledOn
  <2> QED
    BY <2>2, <2>3 DEF Leaves
<1>4. s[Len(s)].at = "moving" => Between(s) /\ \A m : ~Is(f, m, Pending)
  BY BetweenTop DEF Turning, Is, Pending
<1>5. s[Len(s)].at # "moving" =>
        /\ ~Between(s) /\ f.node = a /\ nd[a].isActive /\ ~Below(s, a, Pending)
        /\ \A m : Is(f, m, Pending) <=> m = a
  <2>1. s[Len(s)].at # "moving" => ~Between(s)
    BY BetweenTop DEF Turning, Stopped, Halting
  <2>2. s[Len(s)].at # "moving" => f.node = a
    BY <1>1 DEF AgreesWith
  <2>3. s[Len(s)].at # "moving" => nd[a].isActive /\ ~Below(s, a, Pending)
    BY <1>2, <2>1, <2>2 DEF AgreesWith
  <2>4. s[Len(s)].at # "moving" => \A m : Is(f, m, Pending) <=> m = a
    BY <2>2 DEF Is, Pending
  <2> QED
    BY <2>1, <2>2, <2>3, <2>4
<1>6. Distinct(r)
  <2>1. f.at \in Late => ~Below(s, f.node, Pending)
    BY <1>5 DEF Late, Pending
  <2>2. g.at \notin Late /\ (h.at = "activate" => h.at \notin Late)
    BY DEF Late, Pending
  <2> QED
    BY <1>1, <2>1, <2>2, DistinctCalled, DistinctCalledOn DEF AgreesWith, Leaves
<1>7. /\ b \in Names => Between(r)
      /\ b \in Names \cup {Nobody}
      /\ Len(r) > 0 /\ r[Len(r)].at \in {"leaving", "activate"}
      /\ r[Len(r)].at = "activate" => r[Len(r)].node = b
  <2>1. CASE Called(s, r, f, g) /\ b = Nobody
    BY <1>1, <2>1, StateMachineAssumption DEF Called
  <2>2. CASE CalledOn(s, r, f, g, h) /\ h.at = "activate" /\ h.node = b /\ b \in Names
    <3>1. Between(r)
      BY <2>2, BetweenCalledOn
    <3> QED
      BY <1>1, <2>2, <3>1 DEF CalledOn
  <2> QED
    BY <2>1, <2>2 DEF Leaves
<1>8. \A m \in Names : Has(r, m, Pending) => nd[m].isActive /\ (m = b => Between(r))
  BY <1>2, <1>3, <1>4, <1>5, <1>7 DEF AgreesWith
<1>9. \A m \in Names : nd[m].isActive => Has(r, m, Pending)
  BY <1>2, <1>3, <1>4, <1>5 DEF AgreesWith
<1> QED
  BY <1>6, <1>7, <1>8, <1>9 DEF AgreesWith

LEMMA LeaveCBKeeps ==
  ASSUME IInv, NEW t \in Threads, NEW from \in DOMAIN Afterwards, LeaveCB(t, from)
  PROVE  IInv'
<1>1. from \in {"moving", "fired", "pushed"}
  BY DEF Afterwards
<1>2. Typed /\ At(t, from) /\ ~At(t, "ending")
  BY <1>1 DEF IInv, LeaveCB, At
<1>3. /\ Len(stack[t]) \in Nat \ {0} /\ stack[t][Len(stack[t])].at = from
      /\ Here(t) = stack[t][Len(stack[t])].node /\ Here(t) \in Names
      /\ To(t) \in Names \cup {Nobody}
      /\ from = "fired" => t = Here(t)
  BY <1>1, <1>2, TopOf DEF Fits
<1>4. PICK after : after = Afterwards[from]
  OBVIOUS
<1>5. after = IF from = "moving" THEN "left" ELSE IF from = "fired" THEN "deactivate" ELSE "close"
  BY <1>1, <1>4 DEF Afterwards
<1>6. PICK f : f = [at |-> after, node |-> Here(t), to |-> To(t)]
  OBVIOUS
<1>7. f.at = after /\ f.node = Here(t) /\ Fits(t, f)
  BY <1>1, <1>3, <1>5, <1>6 DEF Fits, FrameOf, Places
<1>8. PICK g : g = [at |-> "leaving", node |-> Here(t), to |-> To(t)]
  OBVIOUS
<1>9. g.at = "leaving" /\ g.node = Here(t) /\ Fits(t, g)
  BY <1>3, <1>8 DEF Fits, FrameOf, Places
<1>10. f \in FrameOf /\ g \in FrameOf
  BY <1>7, <1>9 DEF Fits
<1>11. UNCHANGED <<states, node, ub, ops, odd>> /\ odd \subseteq Oddities /\ states \subseteq Names
  BY <1>2 DEF LeaveCB, Typed
<1>12. CASE To(t) \in states
  <2>1. PICK h : h = [at |-> "activate", node |-> To(t), to |-> Nobody]
    OBVIOUS
  <2>2. h.at = "activate" /\ h.node = To(t) /\ Fits(t, h) /\ To(t) \in Names
    BY <1>11, <1>12, <2>1 DEF Fits, FrameOf, Places
  <2>3. active' = To(t) /\ Become(t, <<f, g>> \o <<h>>)
    BY <1>4, <1>6, <1>8, <1>12, <2>1 DEF LeaveCB, Frame
  <2>4. Become(t, <<f, g, h>>)
    BY <1>10, <2>2, <2>3, Frames DEF Fits
  <2>5. /\ Steps(t) /\ AtWork(t) /\ Under(t, stack[t])
        /\ CalledOn(stack[t], stack'[t], f, g, h)
    BY <1>1, <1>2, <1>5, <1>7, <1>9, <2>2, <2>4, Calls3 DEF Halting, Callers
  <2>6. AgreementKept(t)
    <3>1. Leaves(stack[t], stack'[t], f, g, h, active')
      BY <2>2, <2>3, <2>5 DEF Leaves
    <3> QED
      BY <1>1, <1>3, <1>5, <1>7, <1>9, <1>11, <2>5, <3>1, AgreeLeaving DEF AgreementKept
  <2>7. \A n, places : Has(stack[t], n, places) /\ (Is(stack[t][Len(stack[t])], n, places) =>
          Is(f, n, places)) => Has(stack'[t], n, places)
    BY <1>3, <2>5, HasIs, HasCalledOn
  <2>8. \A n : /\ Has(stack[t], n, Unset) => Has(stack'[t], n, Unset)
               /\ Has(stack[t], n, Unstarted) => Has(stack'[t], n, Unstarted)
    BY <1>1, <1>3, <1>5, <1>7, <2>7 DEF Is, Unset, Unstarted
  <2>9. Len(stack'[t]) > 0 => stack'[t][Len(stack'[t])].at = "activate"
    BY <1>3, <2>2, <2>5 DEF CalledOn
  <2>10. active' \in Names /\ active' # Gone
    BY <2>2, <2>3, StateMachineAssumption
  <2> QED
    BY <1>2, <1>11, <2>5, <2>6, <2>8, <2>9, <2>10, StackKeeps DEF Halting
<1>13. CASE To(t) \notin states
  <2>1. active' = Nobody /\ Become(t, <<f, g>> \o <<>>)
    BY <1>4, <1>6, <1>8, <1>13 DEF LeaveCB, Frame
  <2>2. Become(t, <<f, g>>)
    BY <1>10, <2>1, Frames
  <2>3. /\ Steps(t) /\ AtWork(t) /\ Under(t, stack[t])
        /\ Called(stack[t], stack'[t], f, g)
    BY <1>1, <1>2, <1>5, <1>7, <1>9, <2>2, Calls2 DEF Halting, Callers
  <2>4. AgreementKept(t)
    <3>1. Leaves(stack[t], stack'[t], f, g, g, active')
      BY <2>1, <2>3 DEF Leaves
    <3> QED
      BY <1>1, <1>3, <1>5, <1>7, <1>9, <1>11, <2>3, <3>1, AgreeLeaving DEF AgreementKept
  <2>5. \A n, places : Has(stack[t], n, places) /\ (Is(stack[t][Len(stack[t])], n, places) =>
          Is(f, n, places)) => Has(stack'[t], n, places)
    BY <1>3, <2>3, HasIs, HasCalled
  <2>6. \A n : /\ Has(stack[t], n, Unset) => Has(stack'[t], n, Unset)
               /\ Has(stack[t], n, Unstarted) => Has(stack'[t], n, Unstarted)
    BY <1>1, <1>3, <1>5, <1>7, <2>5 DEF Is, Unset, Unstarted
  <2>7. Len(stack'[t]) > 0 => stack'[t][Len(stack'[t])].at = "leaving"
    BY <1>3, <1>9, <2>3 DEF Called
  <2>8. active' = Nobody /\ active' # Gone
    BY <2>1, StateMachineAssumption
  <2> QED
    BY <1>2, <1>11, <2>3, <2>4, <2>6, <2>7, <2>8, StackKeeps DEF Halting
<1> QED
  BY <1>12, <1>13

LEMMA TimeoutKeeps ==
  ASSUME IInv, NEW n \in Names, Timeout(n)
  PROVE  IInv'
<1>1. Typed /\ At(n, "timeout") /\ ~At(n, "ending") /\ n \in Threads
  BY DEF IInv, Timeout, At, Threads
<1>2. /\ Len(stack[n]) \in Nat \ {0} /\ stack[n][Len(stack[n])].at = "timeout"
      /\ Here(n) = stack[n][Len(stack[n])].node /\ Here(n) = n
  BY <1>1, TopOf DEF Fits
<1>3. UNCHANGED <<states, active, node, ub, ops, odd>>
  BY DEF Timeout
<1>4. odd \subseteq Oddities /\ active \in Names \cup {Nobody, Gone}
  BY <1>1 DEF Typed
<1>5. CASE Ignored(n, To(n))
  <2>1. Return(n)
    BY <1>5 DEF Timeout, Return
  <2>2. /\ Steps(n) /\ AtWork(n) /\ Under(n, stack[n]) /\ Popped(stack[n], stack'[n])
        /\ Len(stack'[n]) > 0 => stack'[n][Len(stack'[n])].at \in Callers
    BY <1>1, <2>1, Pops
  <2>3. AgreementKept(n)
    BY <1>2, <1>3, <2>2, AgreePopped DEF AgreementKept, Turning, Pending
  <2>4. \A m : /\ Has(stack[n], m, Unset) => Has(stack'[n], m, Unset)
               /\ Has(stack[n], m, Unstarted) => Has(stack'[n], m, Unstarted)
    BY <1>2, <2>2, KeptPopped DEF Unstarted
  <2> QED
    BY <1>1, <1>3, <1>4, <2>2, <2>3, <2>4, StackKeeps DEF Callers, Halting
<1>6. CASE ~Ignored(n, To(n))
  <2>1. PICK f : f = [at |-> "fired", node |-> n, to |-> node[n].dest]
    OBVIOUS
  <2>2. f.at = "fired" /\ f.node = n /\ Fits(n, f)
    <3>1. node[n].dest \in Names \cup {Nobody}
      BY <1>1 DEF Typed, Node
    <3> QED
      BY <2>1, <3>1 DEF Fits, FrameOf, Places
  <2>3. Become(n, <<f>>)
    BY <1>6, <2>1 DEF Timeout, Frame
  <2>4. Steps(n) /\ AtWork(n) /\ Under(n, stack[n]) /\ Replaced(stack[n], stack'[n], f)
    BY <1>1, <2>2, <2>3, Replaces DEF Halting
  <2>5. Len(stack[n]) = 2 /\ stack[n][1].at \in {"action", "ending"}
    <3>1. PICK k \in 1 .. Len(stack[n]) : k = Len(stack[n])
      BY <1>2
    <3>2. Len(stack[n]) = 2
      BY <1>2, <2>4, <3>1 DEF Under, Shape
    <3> QED
      BY <2>4, <3>2 DEF Under, Shape
  <2>6. ASSUME AgreesWith(stack[n], node, active) PROVE AgreesWith(stack'[n], node', active')
    <3>1. ~Between(stack[n]) /\ ~Between(stack'[n])
      BY <1>2, <2>2, <2>4, BetweenTop, BetweenReplaced DEF Turning, Stopped, Halting
    <3>2. ~Has(stack[n], n, Pending)
      BY <1>2, <2>5 DEF Has, Pending
    <3>3. n = active
      BY <1>6, <2>6, <3>2 DEF Ignored, AgreesWith
    <3> QED
      BY <1>2, <1>3, <2>2, <2>4, <2>6, <3>1, <3>3, AgreeReplaced DEF Late, Pending
  <2>7. AgreementKept(n)
    BY <2>6 DEF AgreementKept
  <2>8. \A m : /\ Has(stack[n], m, Unset) => Has(stack'[n], m, Unset)
               /\ Has(stack[n], m, Unstarted) => Has(stack'[n], m, Unstarted)
    BY <1>2, <2>2, <2>4, KeptReplaced DEF Unstarted
  <2>9. Len(stack'[n]) = Len(stack[n]) /\ stack'[n][Len(stack'[n])].at = "fired"
    BY <2>2, <2>4 DEF Replaced
  <2> QED
    BY <1>1, <1>3, <1>4, <2>4, <2>7, <2>8, <2>9, StackKeeps DEF Halting
<1> QED
  BY <1>5, <1>6

LEMMA ChooseKeeps ==
  ASSUME IInv, NEW t \in Threads, Choose(t)
  PROVE  IInv'
<1>1. Typed /\ At(t, "choose") /\ ~At(t, "ending")
  BY DEF IInv, Choose, At
<1>2. /\ Len(stack[t]) \in Nat \ {0} /\ stack[t][Len(stack[t])].at = "choose"
      /\ Here(t) = stack[t][Len(stack[t])].node /\ Here(t) \in Names
  BY <1>1, TopOf
<1>3. Under(t, stack[t])
  BY <1>1, WorkingStack
<1>4. Len(stack[t]) = 1
  <2>1. PICK k \in 1 .. Len(stack[t]) : k = Len(stack[t])
    BY <1>2
  <2> QED
    BY <1>2, <1>3, <2>1 DEF Under, Shape
<1>5. \A n, places : ~Below(stack[t], n, places)
  BY <1>4 DEF Below
<1>6. UNCHANGED <<states, node, ub, ops, odd>> /\ odd \subseteq Oddities
  BY <1>1 DEF Typed, Choose
<1>7. ASSUME AgreesWith(stack[t], node, active), NEW n \in Names
      PROVE  ~node[n].isActive
  <2>1. Between(stack[t])
    BY <1>2, <1>3, BetweenTop DEF Turning
  <2>2. ~Has(stack[t], n, Pending)
    BY <1>2, <1>5, HasIs DEF Is, Pending
  <2> QED
    BY <1>7, <2>1, <2>2 DEF AgreesWith
<1>8. CASE Here(t) \in states
  <2>1. PICK f : f = [at |-> "activate", node |-> Here(t), to |-> Nobody]
    OBVIOUS
  <2>2. f.at = "activate" /\ f.node = Here(t) /\ Fits(t, f)
    BY <1>2, <2>1 DEF Fits, FrameOf, Places
  <2>3. Become(t, <<f>>) /\ active' = Here(t)
    BY <1>8, <2>1 DEF Choose, Frame
  <2>4. Steps(t) /\ AtWork(t) /\ Replaced(stack[t], stack'[t], f)
    BY <1>1, <2>2, <2>3, Replaces DEF Halting
  <2>5. ASSUME AgreesWith(stack[t], node, active) PROVE AgreesWith(stack'[t], node', active')
    <3>1. Between(stack'[t])
      BY <1>3, <2>2, <2>4, BetweenReplaced DEF Turning
    <3>2. \A n \in Names : ~Has(stack'[t], n, Pending)
      BY <1>2, <1>5, <2>2, <2>4, HasReplaced DEF Is, Pending
    <3>3. Distinct(stack'[t])
      BY <1>4, <2>4 DEF Distinct, Replaced
    <3>4. Len(stack'[t]) = 1 /\ stack'[t][1] = f
      BY <1>4, <2>4 DEF Replaced
    <3> QED
      BY <1>2, <1>6, <1>7, <2>2, <2>3, <2>5, <3>1, <3>2, <3>3, <3>4 DEF AgreesWith
  <2>6. AgreementKept(t)
    BY <2>5 DEF AgreementKept
  <2>7. \A m : /\ Has(stack[t], m, Unset) => Has(stack'[t], m, Unset)
               /\ Has(stack[t], m, Unstarted) => Has(stack'[t], m, Unstarted)
    BY <1>2, <2>2, <2>4, KeptReplaced DEF Unstarted
  <2>8. Len(stack'[t]) = Len(stack[t]) /\ stack'[t][Len(stack'[t])].at = "activate"
    BY <2>2, <2>4 DEF Replaced
  <2>9. active' \in Names /\ active' # Gone
    BY <1>2, <2>3, StateMachineAssumption
  <2> QED
    BY <1>1, <1>6, <2>4, <2>6, <2>7, <2>8, <2>9, StackKeeps DEF Halting
<1>9. CASE Here(t) \notin states
  <2>1. Return(t) /\ active' = Nobody
    BY <1>9 DEF Choose, Return
  <2>2. Steps(t) /\ AtWork(t) /\ Popped(stack[t], stack'[t])
    BY <1>1, <2>1, Pops
  <2>3. Len(stack'[t]) = 0
    BY <1>4, <2>2 DEF Popped
  <2>4. ASSUME AgreesWith(stack[t], node, active) PROVE AgreesWith(stack'[t], node', active')
    <3>1. ~Between(stack'[t]) /\ Distinct(stack'[t])
      BY <2>3 DEF Between, Distinct
    <3>2. Nobody \notin Names
      BY StateMachineAssumption
    <3>3. \A n \in Names : ~Has(stack'[t], n, Pending)
      BY <2>3 DEF Has
    <3> QED
      BY <1>6, <1>7, <2>1, <2>3, <2>4, <3>1, <3>2, <3>3 DEF AgreesWith
  <2>5. AgreementKept(t)
    BY <2>4 DEF AgreementKept
  <2>6. \A m : /\ Has(stack[t], m, Unset) => Has(stack'[t], m, Unset)
               /\ Has(stack[t], m, Unstarted) => Has(stack'[t], m, Unstarted)
    BY <1>2, <2>2, KeptPopped DEF Unstarted
  <2>7. active' = Nobody /\ active' # Gone
    BY <2>1, StateMachineAssumption
  <2> QED
    BY <1>1, <1>6, <2>2, <2>3, <2>5, <2>6, <2>7, StackKeeps
<1> QED
  BY <1>8, <1>9

-------------------------------------------------------------------------------
(***************************************************************************)
(* Steps that change a node.                                                 *)
(***************************************************************************)
LEMMA ServesKept ==
  ASSUME NEW t \in Threads, Steps(t), ~At(t, "ending"), NEW m \in Names,
         node'[m].thread = node[m].thread, node'[m].done = node[m].done
  PROVE  Serves(m)' <=> Serves(m)
<1>1. m \in Threads /\ (m # t => stack'[m] = stack[m])
  BY DEF Threads, Steps
<1> QED
  BY <1>1 DEF Serves, Steps, At

LEMMA ThreadsKept ==
  ASSUME Typed, Defined, NEW t \in Threads, AtWork(t), Steps(t),
         \A m \in Names :
           \/ node'[m].thread \in {node[m].thread, "runs", "doomed"}
           \/ m # t /\ stack[m] = <<>>
  PROVE  \A m \in Names : HasThread(m)'
<1> SUFFICES ASSUME NEW m \in Names PROVE HasThread(m)'
  OBVIOUS
<1>1. HasThread(m)
  BY DEF Defined
<1>2. CASE m = t
  <2>1. Len(stack[t]) > 0
    BY StackOf DEF AtWork
  <2>2. stack[m] # <<>>
    BY <1>2, <2>1, StackOf
  <2> QED
    BY <1>1, <1>2, <2>2 DEF HasThread
<1>3. CASE m # t
  <2>1. m \in Threads \ {t}
    BY <1>3 DEF Threads
  <2> QED
    BY <1>1, <2>1 DEF HasThread, Steps
<1> QED
  BY <1>2, <1>3

(* A step that at most deactivates nodes. *)
LEMMA NodeKeeps ==
  ASSUME IInv, NEW t \in Threads, AtWork(t), ~At(t, "ending"), Steps(t),
         UNCHANGED <<states, active, ub, ops>>, odd \subseteq odd', odd' \subseteq Oddities,
         node' \in [Names -> Node],
         \A m \in Names :
           /\ node'[m].queue = node[m].queue /\ node'[m].token = node[m].token
           /\ node'[m].visit = node[m].visit /\ node'[m].thread = node[m].thread
           /\ node'[m].done = node[m].done
           /\ node'[m].isActive =>
                /\ node[m].isActive
                /\ Has(stack[t], m, Unset) => Has(stack'[t], m, Unset)
                /\ Has(stack[t], m, Unstarted) => Has(stack'[t], m, Unstarted),
         AgreementKept(t),
         odd = {} /\ odd' = {} /\ Sound(t) /\ TopDefined(t) => TopDefined(t)'
  PROVE  IInv'
<1>1. Typed /\ Visits /\ Defined
  BY DEF IInv
<1>2. \A m \in Names : \A e \in node[m].queue : e.token <= node[m].token
  BY <1>1 DEF Visits
<1>3. VisitsKept(t)
  <2> SUFFICES ASSUME NEW m \in Names, NEW e \in node'[m].queue
               PROVE  /\ e.token <= node'[m].token
                      /\ e.kind \in {"held", "loose"} =>
                           OfThisVisit(m, e)' \/ DueBefore(t, m, e)
    BY DEF VisitsKept
  <2>1. e \in node[m].queue /\ e.token <= node'[m].token
    BY <1>2
  <2>2. OfThisVisit(m, e) => OfThisVisit(m, e)'
    BY DEF OfThisVisit
  <2>3. ~node'[m].isActive => OfThisVisit(m, e)'
    BY DEF OfThisVisit
  <2> QED
    BY <2>1, <2>2, <2>3 DEF DueBefore
<1>4. \A m \in Names : HasThread(m)'
  BY <1>1, ThreadsKept
<1>5. ASSUME Sound(t) PROVE Sound(t)'
  <2>1. \A m \in Names : Serves(m)' <=> Serves(m)
    BY ServesKept
  <2> QED
    BY <1>5, <2>1 DEF Sound
<1>6. DefinedKept(t)
  BY <1>4, <1>5 DEF DefinedKept
<1>7. HeldOnce'
  BY <1>1 DEF Typed, HeldOnce
<1>8. /\ states \subseteq Names /\ active \in Names \cup {Nobody, Gone}
      /\ ub \in BOOLEAN /\ ops \in 0 .. MaxOps
  BY <1>1 DEF Typed
<1> QED
  BY <1>3, <1>6, <1>7, <1>8, FlowKeeps

LEMMA DeactivatedIs ==
  ASSUME Typed, NEW n \in Names
  PROVE  /\ Deactivated(n) \in [Names -> Node]
         /\ \A m \in Names :
              /\ Deactivated(n)[m].queue = node[m].queue
              /\ Deactivated(n)[m].token = node[m].token
              /\ Deactivated(n)[m].visit = node[m].visit
              /\ Deactivated(n)[m].thread = node[m].thread
              /\ Deactivated(n)[m].done = node[m].done
              /\ Deactivated(n)[m].isActive <=> node[m].isActive /\ m # n
<1>1. node \in [Names -> Node]
  BY DEF Typed
<1> QED
  BY <1>1 DEF Deactivated, Node

LEMMA StoppingIs ==
  ASSUME NEW n \in Names
  PROVE  \E f : /\ f.at = "stop" /\ f.node = n /\ (\A t : Fits(t, f))
                /\ Stopping(n) = IF node[n].isActive THEN <<f>> ELSE <<>>
<1>1. PICK f : f = [at |-> "stop", node |-> n, to |-> Nobody]
  OBVIOUS
<1>2. f.at = "stop" /\ f.node = n /\ (\A t : Fits(t, f))
  BY <1>1 DEF Fits, FrameOf, Places
<1>3. Stopping(n) = IF node[n].isActive THEN <<f>> ELSE <<>>
  BY <1>1 DEF Stopping, Frame
<1> QED
  BY <1>2, <1>3

(* The active state n is left in process(). *)
LEMMA AgreeMoved ==
  ASSUME NEW t, NEW s, NEW r, NEW n \in Names, NEW nd, NEW md, NEW a, Under(t, s),
         AgreesWith(s, nd, a), s[Len(s)].at = "process", s[Len(s)].node = n,
         \A m \in Names : md[m].isActive <=> nd[m].isActive /\ m # n,
         \A m \in Names : Has(r, m, Pending) <=> Below(s, m, Pending),
         Distinct(s) => Distinct(r), Between(r), Len(r) > 0,
         r[Len(r)].at \in {"moving", "stop"}
  PROVE  AgreesWith(r, md, a)
<1>1. Len(s) \in Nat \ {0}
  BY DEF Under
<1>2. ~Between(s) /\ n = a
  BY <1>1, BetweenTop DEF Turning, Stopped, Halting, AgreesWith
<1>3. \A m \in Names : Has(s, m, Pending) <=> Has(r, m, Pending)
  BY <1>1, HasIs DEF Is, Pending
<1> QED
  BY <1>2, <1>3 DEF AgreesWith

LEMMA MoveKeeps ==
  ASSUME IInv, NEW t \in Threads, Move(t)
  PROVE  IInv'
<1>1. Typed /\ At(t, "process") /\ ~At(t, "ending")
  BY DEF IInv, Move, At
<1>2. /\ Len(stack[t]) \in Nat \ {0} /\ stack[t][Len(stack[t])].at = "process"
      /\ Here(t) = stack[t][Len(stack[t])].node /\ Here(t) \in Names
      /\ To(t) \in Events
  BY <1>1, TopOf DEF Fits
<1>3. PICK n \in Names : n = Here(t)
  BY <1>2
<1>4. PICK dest \in Names \cup {Nobody} : dest = node[n].trans[To(t)]
  BY <1>1, <1>2 DEF Typed, Node
<1>5. UNCHANGED <<states, active, ub, ops, odd>>
  BY DEF Move
<1>6. odd \subseteq Oddities /\ active \in Names \cup {Nobody, Gone}
  BY <1>1 DEF Typed
<1>7. CASE Stays(n, dest)
  <2>1. Return(t) /\ node' = node
    BY <1>3, <1>4, <1>7 DEF Move
  <2>2. /\ Steps(t) /\ AtWork(t) /\ Under(t, stack[t]) /\ Popped(stack[t], stack'[t])
        /\ Len(stack'[t]) > 0 => stack'[t][Len(stack'[t])].at \in Callers
    BY <1>1, <2>1, Pops
  <2>3. AgreementKept(t)
    BY <1>2, <1>5, <2>1, <2>2, AgreePopped DEF AgreementKept, Turning, Pending
  <2>4. \A m : /\ Has(stack[t], m, Unset) => Has(stack'[t], m, Unset)
               /\ Has(stack[t], m, Unstarted) => Has(stack'[t], m, Unstarted)
    BY <1>2, <2>2, KeptPopped DEF Unstarted
  <2> QED
    BY <1>1, <1>5, <1>6, <2>1, <2>2, <2>3, <2>4, StackKeeps DEF Callers, Halting
<1>8. CASE ~Stays(n, dest)
  <2>1. PICK f : f = [at |-> "moving", node |-> n, to |-> dest]
    OBVIOUS
  <2>2. f.at = "moving" /\ f.node = n /\ Fits(t, f)
    BY <2>1 DEF Fits, FrameOf, Places
  <2>3. PICK g : /\ g.at = "stop" /\ g.node = n /\ Fits(t, g)
                 /\ Stopping(n) = IF node[n].isActive THEN <<g>> ELSE <<>>
    BY StoppingIs
  <2>4. f \in FrameOf /\ g \in FrameOf
    BY <2>2, <2>3 DEF Fits
  <2>5. Become(t, <<f>> \o Stopping(n)) /\ node' = Deactivated(n)
    BY <1>3, <1>4, <1>8, <2>1 DEF Move, Frame
  <2>6. /\ node' \in [Names -> Node]
        /\ \A m \in Names :
             /\ node'[m].queue = node[m].queue /\ node'[m].token = node[m].token
             /\ node'[m].visit = node[m].visit /\ node'[m].thread = node[m].thread
             /\ node'[m].done = node[m].done
             /\ node'[m].isActive <=> node[m].isActive /\ m # n
    BY <1>1, <2>5, DeactivatedIs
  <2>7. /\ Steps(t) /\ AtWork(t) /\ Under(t, stack[t])
        /\ IF node[n].isActive THEN Called(stack[t], stack'[t], f, g)
                               ELSE Replaced(stack[t], stack'[t], f)
    <3>1. CASE node[n].isActive
      <4>1. Become(t, <<f, g>>)
        BY <2>3, <2>4, <2>5, <3>1, Frames
      <4> QED
        BY <1>1, <2>2, <2>3, <3>1, <4>1, Calls2 DEF Halting, Callers
    <3>2. CASE ~node[n].isActive
      <4>1. Become(t, <<f>>)
        BY <2>3, <2>4, <2>5, <3>2, Frames
      <4> QED
        BY <1>1, <2>2, <3>2, <4>1, Replaces DEF Halting
    <3> QED
      BY <3>1, <3>2
  <2>8. \A m, places : f.at \notin places /\ g.at \notin places =>
          (Has(stack'[t], m, places) <=> Below(stack[t], m, places))
    <3>1. CASE node[n].isActive
      BY <1>2, <2>7, <3>1, HasCalled DEF Is
    <3>2. CASE ~node[n].isActive
      BY <1>2, <2>7, <3>2, HasReplaced DEF Is
    <3> QED
      BY <3>1, <3>2
  <2>9. /\ Between(stack'[t]) /\ Len(stack'[t]) > 0
        /\ stack'[t][Len(stack'[t])].at \in {"moving", "stop"}
        /\ stack'[t][Len(stack'[t])].at = "stop" =>
             node[n].isActive /\ stack'[t][Len(stack'[t])].node = n
        /\ Distinct(stack[t]) => Distinct(stack'[t])
    <3>1. f.at \notin Late /\ g.at \notin Late
      BY <2>2, <2>3 DEF Late, Pending
    <3>2. CASE node[n].isActive
      <4>1. Called(stack[t], stack'[t], f, g)
        BY <2>7, <3>2
      <4>2. Between(stack'[t])
        BY <2>2, <2>3, <2>7, <4>1, BetweenCalled DEF Halting
      <4>3. Distinct(stack[t]) => Distinct(stack'[t])
        BY <1>2, <3>1, <4>1, DistinctCalled
      <4> QED
        BY <1>2, <2>3, <3>2, <4>1, <4>2, <4>3 DEF Called
    <3>3. CASE ~node[n].isActive
      <4>1. Replaced(stack[t], stack'[t], f)
        BY <2>7, <3>3
      <4>2. Between(stack'[t])
        BY <2>2, <2>7, <4>1, BetweenReplaced DEF Turning
      <4>3. Distinct(stack[t]) => Distinct(stack'[t])
        BY <1>2, <3>1, <4>1, DistinctReplaced
      <4> QED
        BY <1>2, <2>2, <3>3, <4>1, <4>2, <4>3 DEF Replaced
    <3> QED
      BY <3>2, <3>3
  <2>10. AgreementKept(t)
    <3>1. \A m \in Names : Has(stack'[t], m, Pending) <=> Below(stack[t], m, Pending)
      BY <2>2, <2>3, <2>8 DEF Pending
    <3>2. AgreesWith(stack[t], node, active) => AgreesWith(stack'[t], node', active)
      BY <1>2, <1>3, <2>6, <2>7, <2>9, <3>1, AgreeMoved
    <3> QED
      BY <1>5, <3>2 DEF AgreementKept
  <2>11. \A m : /\ Has(stack[t], m, Unset) => Has(stack'[t], m, Unset)
                /\ Has(stack[t], m, Unstarted) => Has(stack'[t], m, Unstarted)
    <3>1. /\ f.at \notin Unset /\ g.at \notin Unset /\ f.at \notin Unstarted
          /\ g.at \notin Unstarted
      BY <2>2, <2>3 DEF Unset, Unstarted
    <3>2. \A m : ~Is(stack[t][Len(stack[t])], m, Unset) /\ ~Is(stack[t][Len(stack[t])], m, Unstarted)
      BY <1>2 DEF Is, Unset, Unstarted
    <3> QED
      BY <1>2, <2>8, <3>1, <3>2, HasIs
  <2>12. ASSUME odd = {}, Sound(t), TopDefined(t) PROVE TopDefined(t)'
    <3>1. Len(stack[t]) = 1
      BY <1>2, <2>12 DEF TopDefined
    <3>2. ~Has(stack[t], n, Unstarted)
      BY <1>2, <3>1 DEF Has, Unstarted
    <3>3. node[n].isActive => Serves(n)
      BY <2>12, <3>2 DEF Sound
    <3>4. Serves(n)' <=> Serves(n)
      BY <1>1, <2>6, <2>7, ServesKept
    <3> QED
      BY <2>6, <2>9, <3>3, <3>4 DEF TopDefined, Halted, Halting
  <2> QED
    BY <1>1, <1>5, <1>6, <2>6, <2>7, <2>10, <2>11, <2>12, NodeKeeps
<1> QED
  BY <1>7, <1>8

LEMMA AgreeNodes ==
  ASSUME NEW s, NEW nd, NEW md, NEW a, AgreesWith(s, nd, a),
         \A m \in Names : md[m].isActive <=> nd[m].isActive
  PROVE  AgreesWith(s, md, a)
BY DEF AgreesWith

LEMMA ActivateKeeps ==
  ASSUME IInv, NEW t \in Threads, Activate(t)
  PROVE  IInv'
<1>1. Typed /\ Visits /\ Defined /\ At(t, "activate") /\ ~At(t, "ending")
  BY DEF IInv, Activate, At
<1>2. /\ Len(stack[t]) \in Nat \ {0} /\ stack[t][Len(stack[t])].at = "activate"
      /\ Here(t) = stack[t][Len(stack[t])].node /\ Here(t) \in Names
  BY <1>1, TopOf
<1>3. PICK n \in Names : n = Here(t)
  BY <1>2
<1>4. UNCHANGED <<states, active, ub, ops>>
  BY DEF Activate
<1>5. /\ odd \subseteq odd' /\ odd' \subseteq Oddities
      /\ active \in Names \cup {Nobody, Gone} /\ states \subseteq Names
      /\ ub \in BOOLEAN /\ ops \in 0 .. MaxOps /\ node \in [Names -> Node] /\ HeldOnce
  BY <1>1 DEF Typed, Activate, Oddly, Oddities
<1>6. CASE node[n].isActive
  <2>1. Return(t) /\ node' = node /\ "again" \in odd'
    BY <1>3, <1>6 DEF Activate, Oddly
  <2>2. /\ Steps(t) /\ AtWork(t) /\ Under(t, stack[t]) /\ Popped(stack[t], stack'[t])
        /\ Len(stack'[t]) > 0 => stack'[t][Len(stack'[t])].at \in Callers
    BY <1>1, <2>1, Pops
  <2>3. AgreementKept(t)
    BY <2>1 DEF AgreementKept
  <2>4. \A m : /\ Has(stack[t], m, Unset) => Has(stack'[t], m, Unset)
               /\ Has(stack[t], m, Unstarted) => Has(stack'[t], m, Unstarted)
    BY <1>2, <2>2, KeptPopped DEF Unstarted
  <2> QED
    BY <1>1, <1>4, <1>5, <2>1, <2>2, <2>3, <2>4, StackKeeps DEF Callers, Halting
<1>7. CASE ~node[n].isActive
  <2>1. PICK f : f = [at |-> "entering", node |-> n, to |-> Nobody]
    OBVIOUS
  <2>2. f.at = "entering" /\ f.node = n /\ Fits(t, f)
    BY <2>1 DEF Fits, FrameOf, Places
  <2>3. /\ Become(t, <<f>>) /\ odd' = odd
        /\ node' = [node EXCEPT ![n].isActive = TRUE, ![n].visit = @ + 1]
    BY <1>3, <1>7, <2>1 DEF Activate, Frame, Oddly
  <2>4. Steps(t) /\ AtWork(t) /\ Under(t, stack[t]) /\ Replaced(stack[t], stack'[t], f)
    BY <1>1, <2>2, <2>3, Replaces DEF Halting
  <2>5. /\ node' \in [Names -> Node]
        /\ \A m \in Names :
             /\ node'[m].queue = node[m].queue /\ node'[m].token = node[m].token
             /\ node'[m].thread = node[m].thread /\ node'[m].done = node[m].done
             /\ m # n => node'[m].visit = node[m].visit
             /\ node'[m].isActive <=> node[m].isActive \/ m = n
    BY <1>5, <2>3 DEF Node
  <2>6. \A m : /\ Has(stack[t], m, Unset) => Has(stack'[t], m, Unset)
               /\ Has(stack[t], m, Unstarted) => Has(stack'[t], m, Unstarted)
    BY <1>2, <1>3, <2>2, <2>4, KeptReplaced DEF Unset
  <2>7. Has(stack'[t], n, Unset) /\ Has(stack'[t], n, Unstarted)
    BY <1>2, <2>2, <2>4, HasReplaced DEF Is, Unset, Unstarted
  <2>8. ASSUME AgreesWith(stack[t], node, active) PROVE AgreesWith(stack'[t], node', active)
    <3>1. Between(stack[t]) /\ ~Between(stack'[t])
      BY <1>2, <2>2, <2>4, BetweenTop, BetweenReplaced DEF Turning, Stopped, Halting
    <3>2. \A m \in Names : Has(stack[t], m, Pending) <=> Has(stack'[t], m, Pending)
      BY <1>2, <2>2, <2>4, HasIs, HasReplaced DEF Is, Pending
    <3>3. n = active
      BY <1>2, <1>3, <2>8 DEF AgreesWith
    <3>4. ~Below(stack[t], n, Pending)
      BY <1>2, <1>7, <2>8, HasIs DEF AgreesWith
    <3>5. Distinct(stack'[t])
      BY <1>2, <2>2, <2>4, <2>8, <3>4, DistinctReplaced DEF AgreesWith
    <3>6. ~Has(stack'[t], n, Pending)
      BY <1>2, <2>2, <2>4, <3>4, HasReplaced DEF Is, Pending
    <3>7. Len(stack'[t]) = Len(stack[t]) /\ stack'[t][Len(stack'[t])] = f
      BY <2>4 DEF Replaced
    <3> QED
      BY <2>2, <2>5, <2>8, <3>1, <3>2, <3>3, <3>5, <3>6, <3>7 DEF AgreesWith
  <2>9. AgreementKept(t)
    BY <1>4, <2>8 DEF AgreementKept
  <2>10. VisitsKept(t)
    <3>1. \A m \in Names : \A e \in node[m].queue : e.token <= node[m].token
      BY <1>1 DEF Visits
    <3>2. \A m \in Names \ {n} : \A e : OfThisVisit(m, e) => OfThisVisit(m, e)'
      BY <2>5 DEF OfThisVisit
    <3> QED
      BY <2>5, <2>6, <2>7, <3>1, <3>2 DEF VisitsKept, DueBefore
  <2>11. DefinedKept(t)
    <3>1. \A m \in Names : HasThread(m)'
      BY <1>1, <2>4, <2>5, ThreadsKept
    <3>2. \A m \in Names : Serves(m)' <=> Serves(m)
      BY <1>1, <2>4, <2>5, ServesKept
    <3>3. Sound(t) => Sound(t)'
      BY <2>5, <2>6, <2>7, <3>2 DEF Sound
    <3>4. Len(stack'[t]) = Len(stack[t]) /\ stack'[t][Len(stack'[t])] = f
      BY <2>4 DEF Replaced
    <3>5. TopDefined(t)'
      BY <2>2, <3>4 DEF TopDefined, Halted, Halting
    <3> QED
      BY <1>4, <3>1, <3>3, <3>5 DEF DefinedKept
  <2>12. HeldOnce'
    BY <1>5, <2>5 DEF HeldOnce
  <2> QED
    BY <1>4, <1>5, <2>4, <2>5, <2>9, <2>10, <2>11, <2>12, FlowKeeps
<1> QED
  BY <1>6, <1>7

LEMMA CloseKeeps ==
  ASSUME IInv, NEW t \in Threads, Close(t)
  PROVE  IInv'
<1>1. Typed /\ At(t, "close") /\ ~At(t, "ending")
  BY DEF IInv, Close, At
<1>2. /\ Len(stack[t]) \in Nat \ {0} /\ stack[t][Len(stack[t])].at = "close"
      /\ Here(t) = stack[t][Len(stack[t])].node /\ Here(t) \in Names
  BY <1>1, TopOf
<1>3. PICK n \in Names : n = Here(t)
  BY <1>2
<1>4. PICK f : f = [at |-> "left", node |-> n, to |-> Nobody]
  OBVIOUS
<1>5. f.at = "left" /\ f.node = n /\ Fits(t, f)
  BY <1>4 DEF Fits, FrameOf, Places
<1>6. PICK g : g = [at |-> "stop", node |-> n, to |-> Nobody]
  OBVIOUS
<1>7. g.at = "stop" /\ g.node = n /\ Fits(t, g)
  BY <1>6 DEF Fits, FrameOf, Places
<1>8. /\ Become(t, <<f, g>>) /\ node' = Deactivated(n)
      /\ odd' = odd \cup {"untimed"} /\ UNCHANGED <<states, active, ub, ops>>
  BY <1>3, <1>4, <1>6 DEF Close, Frame, Oddly
<1>9. Steps(t) /\ AtWork(t) /\ Under(t, stack[t]) /\ Called(stack[t], stack'[t], f, g)
  BY <1>1, <1>5, <1>7, <1>8, Calls2 DEF Halting, Callers
<1>10. /\ node' \in [Names -> Node]
       /\ \A m \in Names :
            /\ node'[m].queue = node[m].queue /\ node'[m].token = node[m].token
            /\ node'[m].visit = node[m].visit /\ node'[m].thread = node[m].thread
            /\ node'[m].done = node[m].done
            /\ node'[m].isActive <=> node[m].isActive /\ m # n
  BY <1>1, <1>8, DeactivatedIs
<1>11. \A m : m # n =>
         /\ Has(stack[t], m, Unset) => Has(stack'[t], m, Unset)
         /\ Has(stack[t], m, Unstarted) => Has(stack'[t], m, Unstarted)
  BY <1>2, <1>3, <1>9, HasIs, HasCalled DEF Is
<1>12. ASSUME AgreesWith(stack[t], node, active) PROVE AgreesWith(stack'[t], node', active)
  <2>1. ~Between(stack[t]) /\ ~Between(stack'[t])
    BY <1>2, <1>5, <1>7, <1>9, BetweenTop, BetweenCalled DEF Turning, Stopped, Halting
  <2>2. ~Below(stack[t], n, Pending) /\ Distinct(stack[t])
    BY <1>2, <1>3, <1>12, DistinctBelow DEF Late, Pending, AgreesWith
  <2>3. \A m \in Names : Has(stack[t], m, Pending) <=> Below(stack[t], m, Pending) \/ m = n
    BY <1>2, <1>3, HasIs DEF Is, Pending
  <2>4. \A m \in Names : Has(stack'[t], m, Pending) <=> Below(stack[t], m, Pending)
    BY <1>2, <1>5, <1>7, <1>9, HasCalled DEF Is, Pending
  <2>5. Distinct(stack'[t])
    BY <1>2, <1>5, <1>7, <1>9, <2>2, DistinctCalled DEF Late, Pending
  <2>6. Len(stack'[t]) > 0 /\ stack'[t][Len(stack'[t])].at = "stop"
    BY <1>2, <1>7, <1>9 DEF Called
  <2> QED
    BY <1>10, <1>12, <2>1, <2>2, <2>3, <2>4, <2>5, <2>6 DEF AgreesWith
<1>13. AgreementKept(t)
  BY <1>8, <1>12 DEF AgreementKept
<1>14. odd' # {} /\ odd' \subseteq Oddities
  BY <1>1, <1>8 DEF Typed, Oddities
<1> QED
  BY <1>1, <1>8, <1>9, <1>10, <1>11, <1>13, <1>14, NodeKeeps

LEMMA DeactivateKeeps ==
  ASSUME IInv, NEW t \in Threads, Deactivate(t)
  PROVE  IInv'
<1>1. Typed /\ At(t, "deactivate") /\ ~At(t, "ending")
  BY DEF IInv, Deactivate, At
<1>2. /\ Len(stack[t]) \in Nat \ {0} /\ stack[t][Len(stack[t])].at = "deactivate"
      /\ Here(t) = stack[t][Len(stack[t])].node /\ Here(t) \in Names
  BY <1>1, TopOf
<1>3. PICK n \in Names : n = Here(t)
  BY <1>2
<1>4. PICK g : /\ g.at = "stop" /\ g.node = n /\ Fits(t, g)
               /\ Stopping(n) = IF node[n].isActive THEN <<g>> ELSE <<>>
  BY StoppingIs
<1>5. /\ Become(t, Stopping(n)) /\ node' = Deactivated(n)
      /\ UNCHANGED <<states, active, ub, ops, odd>>
  BY <1>3 DEF Deactivate
<1>6. /\ Steps(t) /\ AtWork(t) /\ Under(t, stack[t])
      /\ IF node[n].isActive THEN Replaced(stack[t], stack'[t], g)
         ELSE /\ Popped(stack[t], stack'[t])
              /\ Len(stack'[t]) > 0 => stack'[t][Len(stack'[t])].at \in Callers
  <2>1. CASE node[n].isActive
    <3>1. Become(t, <<g>>)
      BY <1>4, <1>5, <2>1
    <3> QED
      BY <1>1, <1>4, <2>1, <3>1, Replaces DEF Halting
  <2>2. CASE ~node[n].isActive
    <3>1. Return(t)
      BY <1>4, <1>5, <2>2 DEF Return
    <3> QED
      BY <1>1, <2>2, <3>1, Pops
  <2> QED
    BY <2>1, <2>2
<1>7. /\ node' \in [Names -> Node]
      /\ \A m \in Names :
           /\ node'[m].queue = node[m].queue /\ node'[m].token = node[m].token
           /\ node'[m].visit = node[m].visit /\ node'[m].thread = node[m].thread
           /\ node'[m].done = node[m].done
           /\ node'[m].isActive <=> node[m].isActive /\ m # n
  BY <1>1, <1>5, DeactivatedIs
<1>8. \A m : /\ Has(stack[t], m, Unset) => Has(stack'[t], m, Unset)
             /\ Has(stack[t], m, Unstarted) => Has(stack'[t], m, Unstarted)
  BY <1>2, <1>3, <1>4, <1>6, KeptReplaced, KeptPopped DEF Unstarted
<1>9. ASSUME AgreesWith(stack[t], node, active) PROVE AgreesWith(stack'[t], node', active)
  <2>1. ~Below(stack[t], n, Pending) /\ Distinct(stack[t])
    BY <1>2, <1>3, <1>9, DistinctBelow DEF Late, Pending, AgreesWith
  <2>2. \A m \in Names : Has(stack[t], m, Pending) <=> Below(stack[t], m, Pending) \/ m = n
    BY <1>2, <1>3, HasIs DEF Is, Pending
  <2>3. node[n].isActive /\ (n = active => Between(stack[t]))
    BY <1>9, <2>2 DEF AgreesWith
  <2>4. Replaced(stack[t], stack'[t], g)
    BY <1>6, <2>3
  <2>5. \A m \in Names : Has(stack'[t], m, Pending) <=> Below(stack[t], m, Pending)
    BY <1>2, <1>4, <2>4, HasReplaced DEF Is, Pending
  <2>6. Between(stack'[t]) <=> Between(stack[t])
    BY <1>2, <1>4, <1>6, <2>4, BetweenReplaced DEF Stopped, Halting
  <2>7. Distinct(stack'[t])
    BY <1>2, <1>4, <2>1, <2>4, DistinctReplaced DEF Late, Pending
  <2>8. Len(stack'[t]) > 0 /\ stack'[t][Len(stack'[t])].at = "stop"
    BY <1>2, <1>4, <2>4 DEF Replaced
  <2> QED
    BY <1>7, <1>9, <2>1, <2>2, <2>3, <2>5, <2>6, <2>7, <2>8 DEF AgreesWith
<1>10. AgreementKept(t)
  BY <1>5, <1>9 DEF AgreementKept
<1>11. ASSUME Sound(t) PROVE TopDefined(t)'
  <2>1. CASE node[n].isActive
    <3>1. Len(stack[t]) = 2 /\ stack[t][1].at \in {"action", "choose"}
      <4>1. PICK k \in 1 .. Len(stack[t]) : k = Len(stack[t])
        BY <1>2
      <4> QED
        BY <1>2, <1>6, <4>1 DEF Under, Shape
    <3>2. ~Has(stack[t], n, Unstarted)
      BY <1>2, <3>1 DEF Has, Unstarted
    <3>3. Serves(n)
      BY <1>11, <2>1, <3>2 DEF Sound
    <3>4. Serves(n)'
      BY <1>1, <1>6, <1>7, <3>3, ServesKept
    <3>5. Len(stack'[t]) = Len(stack[t]) /\ stack'[t][Len(stack'[t])] = g
      BY <1>6, <2>1 DEF Replaced
    <3> QED
      BY <1>4, <1>7, <3>4, <3>5 DEF TopDefined, Halted, Halting
  <2>2. CASE ~node[n].isActive
    BY <1>6, <2>2 DEF TopDefined, Halted, Halting, Callers
  <2> QED
    BY <2>1, <2>2
<1>12. odd \subseteq Oddities
  BY <1>1 DEF Typed
<1> QED
  BY <1>1, <1>5, <1>6, <1>7, <1>8, <1>10, <1>11, <1>12, NodeKeeps

(* A step that leaves the visits and what is active alone. *)
LEMMA TimerKeeps ==
  ASSUME IInv, NEW t \in Threads, AtWork(t), Steps(t),
         UNCHANGED <<states, active, ops>>, ub' \in BOOLEAN,
         odd \subseteq odd', odd' \subseteq Oddities,
         node' \in [Names -> Node],
         \A m \in Names :
           /\ node'[m].queue = node[m].queue /\ node'[m].token = node[m].token
           /\ node'[m].visit = node[m].visit
           /\ node'[m].isActive <=> node[m].isActive,
         \A m : Has(stack[t], m, Unset) => Has(stack'[t], m, Unset),
         AgreesWith(stack[t], node, active) => AgreesWith(stack'[t], node, active),
         DefinedKept(t)
  PROVE  IInv'
<1>1. Typed /\ Visits
  BY DEF IInv
<1>2. \A m \in Names : \A e \in node[m].queue : e.token <= node[m].token
  BY <1>1 DEF Visits
<1>3. \A m \in Names : \A e : OfThisVisit(m, e) => OfThisVisit(m, e)'
  BY DEF OfThisVisit
<1>4. VisitsKept(t)
  BY <1>2, <1>3 DEF VisitsKept, DueBefore
<1>5. AgreementKept(t)
  BY AgreeNodes DEF AgreementKept
<1>6. HeldOnce'
  BY <1>1 DEF Typed, HeldOnce
<1>7. /\ states \subseteq Names /\ active \in Names \cup {Nobody, Gone} /\ ops \in 0 .. MaxOps
  BY <1>1 DEF Typed
<1> QED
  BY <1>4, <1>5, <1>6, <1>7, FlowKeeps

LEMMA StopKeeps ==
  ASSUME IInv, NEW t \in Threads, Stop(t)
  PROVE  IInv'
<1>1. Typed /\ Defined /\ At(t, "stop") /\ ~At(t, "ending")
  BY DEF IInv, Stop, At
<1>2. /\ Len(stack[t]) \in Nat \ {0} /\ stack[t][Len(stack[t])].at = "stop"
      /\ Here(t) = stack[t][Len(stack[t])].node /\ Here(t) \in Names
  BY <1>1, TopOf
<1>3. PICK n \in Names : n = Here(t)
  BY <1>2
<1>4. PICK f : f = [at |-> "join", node |-> n, to |-> Nobody]
  OBVIOUS
<1>5. f.at = "join" /\ f.node = n /\ Fits(t, f)
  BY <1>4 DEF Fits, FrameOf, Places
<1>6. /\ Become(t, <<f>>) /\ node' = [node EXCEPT ![n].done = TRUE]
      /\ UNCHANGED <<states, active, ub, ops, odd>>
  BY <1>3, <1>4 DEF Stop, Frame
<1>7. Steps(t) /\ AtWork(t) /\ Under(t, stack[t]) /\ Replaced(stack[t], stack'[t], f)
  BY <1>1, <1>5, <1>6, Replaces DEF Halting
<1>8. node \in [Names -> Node] /\ ub \in BOOLEAN /\ odd \subseteq Oddities
  BY <1>1 DEF Typed
<1>9. /\ node' \in [Names -> Node]
      /\ \A m \in Names :
           /\ node'[m].queue = node[m].queue /\ node'[m].token = node[m].token
           /\ node'[m].visit = node[m].visit
           /\ node'[m].isActive <=> node[m].isActive
           /\ node'[m].thread = node[m].thread
           /\ m # n => node'[m].done = node[m].done
      /\ node'[n].done
  BY <1>6, <1>8 DEF Node
<1>10. \A m : /\ Has(stack[t], m, Unset) => Has(stack'[t], m, Unset)
              /\ Has(stack[t], m, Unstarted) => Has(stack'[t], m, Unstarted)
  BY <1>2, <1>3, <1>5, <1>7, KeptReplaced DEF Unstarted
<1>11. ASSUME AgreesWith(stack[t], node, active) PROVE AgreesWith(stack'[t], node, active)
  <2>1. Between(stack'[t]) <=> Between(stack[t])
    BY <1>2, <1>5, <1>7, BetweenReplaced DEF Stopped, Halting
  <2> QED
    BY <1>2, <1>5, <1>7, <1>11, <2>1, AgreeReplaced DEF Late, Pending
<1>12. DefinedKept(t)
  <2>1. \A m \in Names : HasThread(m)'
    BY <1>1, <1>7, <1>9, ThreadsKept
  <2>2. \A m \in Names \ {n} : Serves(m)' <=> Serves(m)
    BY <1>1, <1>7, <1>9, ServesKept
  <2>3. ASSUME TopDefined(t)
        PROVE  ~node[n].isActive /\ node[n].thread = "runs"
    BY <1>2, <1>3, <2>3 DEF TopDefined, Halted, Halting, Serves
  <2>4. Sound(t) /\ TopDefined(t) => Sound(t)'
    BY <1>9, <1>10, <2>2, <2>3 DEF Sound
  <2>5. Len(stack'[t]) = Len(stack[t]) /\ stack'[t][Len(stack'[t])] = f
    BY <1>7 DEF Replaced
  <2>6. TopDefined(t) => TopDefined(t)'
    BY <1>5, <1>9, <2>3, <2>5 DEF TopDefined, Halted
  <2> QED
    BY <1>6, <2>1, <2>4, <2>6 DEF DefinedKept
<1> QED
  BY <1>6, <1>7, <1>8, <1>9, <1>10, <1>11, <1>12, TimerKeeps

LEMMA JoinKeeps ==
  ASSUME IInv, NEW t \in Threads, Join(t)
  PROVE  IInv'
<1>1. Typed /\ Defined /\ At(t, "join") /\ ~At(t, "ending")
  BY DEF IInv, Join, At
<1>2. /\ Len(stack[t]) \in Nat \ {0} /\ stack[t][Len(stack[t])].at = "join"
      /\ Here(t) = stack[t][Len(stack[t])].node /\ Here(t) \in Names
  BY <1>1, TopOf
<1>3. PICK n \in Names : n = Here(t)
  BY <1>2
<1>4. PICK f : f = [at |-> IF t # n /\ node[n].thread = "runs" THEN "wait" ELSE "unnotify",
                    node |-> n, to |-> Nobody]
  OBVIOUS
<1>5. f.at \in {"wait", "unnotify"} /\ f.node = n /\ Fits(t, f)
  BY <1>4 DEF Fits, FrameOf, Places
<1>6. /\ Become(t, <<f>>)
      /\ node' = [node EXCEPT ![n].thread =
                     IF t = n THEN "doomed" ELSE IF @ = "over" THEN "none" ELSE @]
      /\ ub' \in {FALSE, node[n].thread = "none"}
      /\ UNCHANGED <<states, active, ops, odd>>
  BY <1>3, <1>4 DEF Join, Frame
<1>7. Steps(t) /\ AtWork(t) /\ Under(t, stack[t]) /\ Replaced(stack[t], stack'[t], f)
  BY <1>1, <1>5, <1>6, Replaces DEF Halting
<1>8. node \in [Names -> Node] /\ odd \subseteq Oddities
  BY <1>1 DEF Typed
<1>9. /\ node' \in [Names -> Node]
      /\ \A m \in Names :
           /\ node'[m].queue = node[m].queue /\ node'[m].token = node[m].token
           /\ node'[m].visit = node[m].visit
           /\ node'[m].isActive <=> node[m].isActive
           /\ node'[m].done = node[m].done
           /\ m # n => node'[m].thread = node[m].thread
      /\ node'[n].thread \in {node[n].thread, "doomed"} \/ (n # t /\ node[n].thread = "over")
  BY <1>6, <1>8 DEF Node
<1>10. \A m : /\ Has(stack[t], m, Unset) => Has(stack'[t], m, Unset)
              /\ Has(stack[t], m, Unstarted) => Has(stack'[t], m, Unstarted)
  BY <1>2, <1>3, <1>5, <1>7, KeptReplaced DEF Unstarted
<1>11. ASSUME AgreesWith(stack[t], node, active) PROVE AgreesWith(stack'[t], node, active)
  <2>1. Between(stack'[t]) <=> Between(stack[t])
    BY <1>2, <1>5, <1>7, BetweenReplaced DEF Stopped, Halting
  <2> QED
    BY <1>2, <1>5, <1>7, <1>11, <2>1, AgreeReplaced DEF Late, Pending
<1>12. DefinedKept(t)
  <2>1. node[n].thread = "over" => stack[n] = <<>>
    BY <1>1 DEF Defined, HasThread
  <2>2. \A m \in Names : HasThread(m)'
    BY <1>1, <1>7, <1>9, <2>1, ThreadsKept
  <2>3. \A m \in Names \ {n} : Serves(m)' <=> Serves(m)
    BY <1>1, <1>7, <1>9, ServesKept
  <2>4. ASSUME TopDefined(t)
        PROVE  ~node[n].isActive /\ node[n].done /\ node[n].thread \in {"runs", "over"}
    BY <1>2, <1>3, <2>4 DEF TopDefined, Halted, Halting
  <2>5. Sound(t) /\ TopDefined(t) => Sound(t)'
    BY <1>9, <1>10, <2>3, <2>4 DEF Sound
  <2>6. Len(stack'[t]) = Len(stack[t]) /\ stack'[t][Len(stack'[t])] = f
    BY <1>7 DEF Replaced
  <2>7. TopDefined(t) => TopDefined(t)'
    BY <1>5, <1>9, <2>4, <2>6 DEF TopDefined, Halted
  <2>8. TopDefined(t) => ~ub'
    BY <1>6, <2>4
  <2> QED
    BY <2>2, <2>5, <2>7, <2>8 DEF DefinedKept
<1>13. ub' \in BOOLEAN
  BY <1>6
<1> QED
  BY <1>6, <1>7, <1>8, <1>9, <1>10, <1>11, <1>12, <1>13, TimerKeeps

LEMMA StartKeeps ==
  ASSUME IInv, NEW t \in Threads, Start(t)
  PROVE  IInv'
<1>1. Typed /\ Defined /\ At(t, "start") /\ ~At(t, "ending")
  BY DEF IInv, Start, At
<1>2. /\ Len(stack[t]) \in Nat \ {0} /\ stack[t][Len(stack[t])].at = "start"
      /\ Here(t) = stack[t][Len(stack[t])].node /\ Here(t) \in Names
  BY <1>1, TopOf
<1>3. PICK n \in Names : n = Here(t)
  BY <1>2
<1>4. /\ Return(t)
      /\ node' = [node EXCEPT ![n].done = FALSE,
                              ![n].thread = IF @ \in {"none", "over"} THEN "runs" ELSE @]
      /\ Oddly("unstarted", node[n].thread \in {"runs", "doomed"})
      /\ UNCHANGED <<states, active, ub, ops>>
  BY <1>3 DEF Start
<1>5. /\ Steps(t) /\ AtWork(t) /\ Under(t, stack[t]) /\ Popped(stack[t], stack'[t])
      /\ Len(stack'[t]) > 0 => stack'[t][Len(stack'[t])].at \in Callers
  BY <1>1, <1>4, Pops
<1>6. node \in [Names -> Node] /\ ub \in BOOLEAN /\ odd \subseteq Oddities
  BY <1>1 DEF Typed
<1>7. /\ node' \in [Names -> Node]
      /\ \A m \in Names :
           /\ node'[m].queue = node[m].queue /\ node'[m].token = node[m].token
           /\ node'[m].visit = node[m].visit
           /\ node'[m].isActive <=> node[m].isActive
           /\ m # n => node'[m].thread = node[m].thread /\ node'[m].done = node[m].done
      /\ ~node'[n].done
      /\ node'[n].thread = IF node[n].thread \in {"none", "over"} THEN "runs" ELSE node[n].thread
  <2>1. PICK thread \in {"none", "runs", "doomed", "over"} :
               thread = IF node[n].thread \in {"none", "over"} THEN "runs" ELSE node[n].thread
    BY <1>6 DEF Node
  <2>2. PICK o \in Node : o = node[n]
    BY <1>6
  <2>3. PICK p \in Node : p = [o EXCEPT !.done = FALSE]
    <3>1. [o EXCEPT !.done = FALSE] \in Node
      BY DEF Node
    <3> QED
      BY <3>1
  <2>4. p.thread = node[n].thread
    BY <2>2, <2>3 DEF Node
  <2>5. PICK r \in Node : r = [p EXCEPT !.thread = thread]
    <3>1. [p EXCEPT !.thread = thread] \in Node
      BY DEF Node
    <3> QED
      BY <3>1
  <2>6. node' = [node EXCEPT ![n] = r]
    BY <1>4, <1>6, <2>1, <2>2, <2>3, <2>4, <2>5
  <2>7. /\ r.queue = node[n].queue /\ r.token = node[n].token /\ r.visit = node[n].visit
        /\ r.isActive = node[n].isActive /\ r.done = FALSE /\ r.thread = thread
    BY <2>2, <2>3, <2>5 DEF Node
  <2> QED
    BY <1>6, <2>1, <2>5, <2>6, <2>7
<1>8. \A m : /\ Has(stack[t], m, Unset) => Has(stack'[t], m, Unset)
             /\ m # n /\ Has(stack[t], m, Unstarted) => Has(stack'[t], m, Unstarted)
  BY <1>2, <1>3, <1>5, HasIs, HasPopped DEF Is, Unset
<1>9. AgreesWith(stack[t], node, active) => AgreesWith(stack'[t], node, active)
  BY <1>2, <1>5, AgreePopped DEF Turning, Pending
<1>10. odd \subseteq odd' /\ odd' \subseteq Oddities
  BY <1>4, <1>6 DEF Oddly, Oddities
<1>11. DefinedKept(t)
  <2>1. \A m \in Names : HasThread(m)'
    BY <1>1, <1>5, <1>7, ThreadsKept
  <2>2. \A m \in Names \ {n} : Serves(m)' <=> Serves(m)
    BY <1>1, <1>5, <1>7, ServesKept
  <2>3. TopDefined(t)'
    BY <1>5 DEF TopDefined, Halted, Halting, Callers
  <2>4. ASSUME odd' = {} PROVE Serves(n)' /\ node'[n].thread = "runs"
    <3>1. node[n].thread \in {"none", "over"}
      <4>1. node[n].thread \in {"none", "runs", "doomed", "over"}
        BY <1>6 DEF Node
      <4> QED
        BY <1>4, <2>4, <4>1 DEF Oddly
    <3>2. stack[n] = <<>>
      BY <1>1, <3>1 DEF Defined, HasThread
    <3>3. n # t /\ n \in Threads
      BY <1>1, <3>2 DEF At, Threads
    <3>4. stack'[n] = <<>>
      BY <1>5, <3>2, <3>3 DEF Steps
    <3> QED
      BY <1>7, <3>1, <3>4 DEF Serves, At
  <2>5. odd' = {} /\ Sound(t) => Sound(t)'
    BY <1>7, <1>8, <2>2, <2>4 DEF Sound
  <2> QED
    BY <1>4, <2>1, <2>3, <2>5 DEF DefinedKept
<1> QED
  BY <1>4, <1>5, <1>6, <1>7, <1>8, <1>9, <1>10, <1>11, TimerKeeps

-------------------------------------------------------------------------------
(***************************************************************************)
(* Queues.                                                                  *)
(***************************************************************************)
Once(q) == \A e, f \in q : e.kind = "held" /\ f.kind = "held" => e = f

(* What is due in a queue p was due in a queue q. *)
Since(p, q) ==
  \A e \in p :
    \E d \in q : /\ d.token = e.token /\ d.visit = e.visit
                 /\ e.kind \in {"held", "loose"} => d.kind \in {"held", "loose"}

LEMMA KilledIs ==
  ASSUME Typed, NEW n \in Names
  PROVE  /\ Killed(n) \in SUBSET TimerEvent /\ Once(Killed(n)) /\ Since(Killed(n), node[n].queue)
         /\ \A e \in Killed(n) : e.kind # "held"
<1>1. PICK q \in SUBSET TimerEvent : q = node[n].queue
  BY DEF Typed, Node
<1>2. ASSUME NEW e \in Killed(n)
      PROVE  /\ e \in TimerEvent /\ e.kind # "held"
             /\ \E d \in q : /\ d.token = e.token /\ d.visit = e.visit
                             /\ e.kind \in {"held", "loose"} => d.kind \in {"held", "loose"}
  <2>1. PICK d \in q : e = [d EXCEPT !.kind = IF @ = "held" THEN "dead" ELSE @]
    BY <1>1 DEF Killed
  <2>2. d \in TimerEvent
    BY <1>1
  <2> QED
    BY <2>1, <2>2 DEF TimerEvent
<1> QED
  BY <1>1, <1>2 DEF Once, Since

LEMMA ScheduledIs ==
  ASSUME Typed, NEW n \in Names, NEW token \in Nat
  PROVE  /\ Scheduled(n, token) \in SUBSET TimerEvent /\ Once(Scheduled(n, token))
         /\ \A e \in Scheduled(n, token) :
              \/ e.token = token /\ e.visit = node[n].visit /\ e.kind = "held"
              \/ /\ e.kind # "held"
                 /\ \E d \in node[n].queue :
                      /\ d.token = e.token /\ d.visit = e.visit
                      /\ e.kind \in {"held", "loose"} => d.kind \in {"held", "loose"}
<1>1. PICK q \in SUBSET TimerEvent : q = node[n].queue
  BY DEF Typed, Node
<1>2. PICK v \in Nat : v = node[n].visit
  BY DEF Typed, Node
<1>3. PICK new \in TimerEvent : new = [token |-> token, kind |-> "held", visit |-> v]
  BY DEF TimerEvent
<1>4. new.token = token /\ new.kind = "held" /\ new.visit = v
  BY <1>3
<1>5. ASSUME NEW e \in Scheduled(n, token)
      PROVE  \/ e = new
             \/ /\ e \in TimerEvent /\ e.kind # "held"
                /\ \E d \in q :
                     /\ d.token = e.token /\ d.visit = e.visit
                     /\ e.kind \in {"held", "loose"} => d.kind \in {"held", "loose"}
  <2>1. CASE e = new
    BY <2>1
  <2>2. CASE e # new
    <3>1. PICK d \in q : e = [d EXCEPT !.kind = IF @ = "held" THEN "loose" ELSE @]
      BY <1>1, <1>2, <1>3, <2>2 DEF Scheduled
    <3>2. d \in TimerEvent
      BY <1>1
    <3> QED
      BY <3>1, <3>2 DEF TimerEvent
  <2> QED
    BY <2>1, <2>2
<1> QED
  BY <1>1, <1>2, <1>3, <1>4, <1>5 DEF Once

(* A step that changes the queue and the token of a node. *)
LEMMA QueueKeeps ==
  ASSUME IInv, NEW t \in Threads, AtWork(t), ~At(t, "ending"), Steps(t), NEW n \in Names,
         UNCHANGED <<states, active, ub, ops>>, odd \subseteq odd', odd' \subseteq Oddities,
         node' \in [Names -> Node], Once(node'[n].queue),
         \A m \in Names :
           /\ m # n => node'[m].queue = node[m].queue /\ node'[m].token = node[m].token
           /\ node'[m].visit = node[m].visit
           /\ node'[m].isActive <=> node[m].isActive
           /\ node'[m].thread = node[m].thread
           /\ node'[m].done = node[m].done
           /\ odd' = {} /\ Has(stack[t], m, Unstarted) => Has(stack'[t], m, Unstarted)
           /\ m # n /\ Has(stack[t], m, Unset) => Has(stack'[t], m, Unset),
         \A e \in node'[n].queue :
           /\ e.token <= node'[n].token
           /\ e.kind \in {"held", "loose"} => OfThisVisit(n, e)' \/ DueBefore(t, n, e),
         AgreesWith(stack[t], node, active) => AgreesWith(stack'[t], node, active),
         Len(stack'[t]) > 0 => stack'[t][Len(stack'[t])].at \notin Halting \cup {"process"}
  PROVE  IInv'
<1>1. Typed /\ Visits /\ Defined
  BY DEF IInv
<1>2. \A m \in Names : \A e \in node[m].queue : e.token <= node[m].token
  BY <1>1 DEF Visits
<1>3. \A m \in Names \ {n} : \A e : OfThisVisit(m, e) => OfThisVisit(m, e)'
  BY DEF OfThisVisit
<1>4. VisitsKept(t)
  <2> SUFFICES ASSUME NEW m \in Names, NEW e \in node'[m].queue
               PROVE  /\ e.token <= node'[m].token
                      /\ e.kind \in {"held", "loose"} => OfThisVisit(m, e)' \/ DueBefore(t, m, e)
    BY DEF VisitsKept
  <2>1. CASE m = n
    BY <2>1
  <2>2. CASE m # n
    BY <1>2, <1>3, <2>2 DEF DueBefore
  <2> QED
    BY <2>1, <2>2
<1>5. AgreementKept(t)
  BY AgreeNodes DEF AgreementKept
<1>6. HeldOnce'
  BY <1>1 DEF Typed, HeldOnce, Once
<1>7. DefinedKept(t)
  <2>1. \A m \in Names : HasThread(m)'
    BY <1>1, ThreadsKept
  <2>2. \A m \in Names : Serves(m)' <=> Serves(m)
    BY ServesKept
  <2>3. odd' = {} /\ Sound(t) => Sound(t)'
    BY <2>2 DEF Sound
  <2>4. TopDefined(t)'
    BY DEF TopDefined, Halted, Halting
  <2> QED
    BY <2>1, <2>3, <2>4 DEF DefinedKept
<1>8. /\ states \subseteq Names /\ active \in Names \cup {Nobody, Gone}
      /\ ub \in BOOLEAN /\ ops \in 0 .. MaxOps
  BY <1>1 DEF Typed
<1> QED
  BY <1>4, <1>5, <1>6, <1>7, <1>8, FlowKeeps

LEMMA UnnotifyKeeps ==
  ASSUME IInv, NEW t \in Threads, Unnotify(t)
  PROVE  IInv'
<1>1. Typed /\ Visits /\ At(t, "unnotify") /\ ~At(t, "ending")
  BY DEF IInv, Unnotify, At
<1>2. /\ Len(stack[t]) \in Nat \ {0} /\ stack[t][Len(stack[t])].at = "unnotify"
      /\ Here(t) = stack[t][Len(stack[t])].node /\ Here(t) \in Names
  BY <1>1, TopOf
<1>3. PICK n \in Names : n = Here(t)
  BY <1>2
<1>4. /\ Return(t) /\ node' = [node EXCEPT ![n].queue = Killed(n)]
      /\ UNCHANGED <<states, active, ub, ops, odd>>
  BY <1>3 DEF Unnotify
<1>5. /\ Steps(t) /\ AtWork(t) /\ Under(t, stack[t]) /\ Popped(stack[t], stack'[t])
      /\ Len(stack'[t]) > 0 => stack'[t][Len(stack'[t])].at \in Callers
  BY <1>1, <1>4, Pops
<1>6. PICK q \in SUBSET TimerEvent : q = Killed(n)
  BY <1>1, KilledIs
<1>7. Once(q) /\ Since(q, node[n].queue)
  BY <1>1, <1>6, KilledIs
<1>8. node \in [Names -> Node] /\ odd \subseteq Oddities
  BY <1>1 DEF Typed
<1>9. /\ node' \in [Names -> Node] /\ node'[n].queue = q
      /\ \A m \in Names :
           /\ m # n => node'[m].queue = node[m].queue
           /\ node'[m].token = node[m].token
           /\ node'[m].visit = node[m].visit
           /\ node'[m].isActive <=> node[m].isActive
           /\ node'[m].thread = node[m].thread
           /\ node'[m].done = node[m].done
  BY <1>4, <1>6, <1>8 DEF Node
<1>10. \A m : /\ Has(stack[t], m, Unset) => Has(stack'[t], m, Unset)
              /\ Has(stack[t], m, Unstarted) => Has(stack'[t], m, Unstarted)
  BY <1>2, <1>5, KeptPopped DEF Unstarted
<1>11. AgreesWith(stack[t], node, active) => AgreesWith(stack'[t], node, active)
  BY <1>2, <1>5, AgreePopped DEF Turning, Pending
<1>12. ASSUME NEW e \in node'[n].queue
       PROVE  /\ e.token <= node'[n].token
              /\ e.kind \in {"held", "loose"} => DueBefore(t, n, e)
  <2>1. PICK d \in node[n].queue :
          /\ d.token = e.token /\ d.visit = e.visit
          /\ e.kind \in {"held", "loose"} => d.kind \in {"held", "loose"}
    BY <1>7, <1>9 DEF Since
  <2>2. d.token <= node[n].token
    BY <1>1 DEF Visits
  <2>3. OfThisVisit(n, e) => OfThisVisit(n, e)'
    BY <1>9 DEF OfThisVisit
  <2> QED
    BY <1>9, <1>10, <2>1, <2>2, <2>3 DEF DueBefore
<1> QED
  BY <1>1, <1>4, <1>5, <1>7, <1>8, <1>9, <1>10, <1>11, <1>12, QueueKeeps DEF Callers, Halting

LEMMA ArmKeeps ==
  ASSUME IInv, NEW t \in Threads, Arm(t)
  PROVE  IInv'
<1>1. Typed /\ Visits /\ At(t, "arm") /\ ~At(t, "ending")
  BY DEF IInv, Arm, At
<1>2. /\ Len(stack[t]) \in Nat \ {0} /\ stack[t][Len(stack[t])].at = "arm"
      /\ Here(t) = stack[t][Len(stack[t])].node /\ Here(t) \in Names
  BY <1>1, TopOf
<1>3. PICK n \in Names : n = Here(t)
  BY <1>2
<1>4. UNCHANGED <<states, active, ub, ops>>
  BY DEF Arm
<1>5. node \in [Names -> Node] /\ odd \subseteq Oddities
  BY <1>1 DEF Typed
<1>6. CASE ~Timed(n)
  <2>1. Return(t) /\ odd' = odd \cup {"untimed"} /\ node' = node
    BY <1>3, <1>6 DEF Arm, Oddly
  <2>2. /\ Steps(t) /\ AtWork(t) /\ Under(t, stack[t]) /\ Popped(stack[t], stack'[t])
        /\ Len(stack'[t]) > 0 => stack'[t][Len(stack'[t])].at \in Callers
    BY <1>1, <2>1, Pops
  <2>3. node[n].queue = {}
    BY <1>6 DEF Timed
  <2>4. \A m : m # n /\ Has(stack[t], m, Unset) => Has(stack'[t], m, Unset)
    BY <1>2, <1>3, <2>2, HasIs, HasPopped DEF Is
  <2>5. AgreesWith(stack[t], node, active) => AgreesWith(stack'[t], node, active)
    BY <1>2, <2>2, AgreePopped DEF Turning, Pending
  <2>6. odd' # {} /\ odd' \subseteq Oddities
    BY <1>5, <2>1 DEF Oddities
  <2>7. Once(node'[n].queue)
    BY <2>1, <2>3 DEF Once
  <2> QED
    BY <1>1, <1>4, <1>5, <2>1, <2>2, <2>3, <2>4, <2>5, <2>6, <2>7, QueueKeeps
       DEF Callers, Halting
<1>7. CASE Timed(n)
  <2>1. PICK f : f = [at |-> "start", node |-> n, to |-> Nobody]
    OBVIOUS
  <2>2. f.at = "start" /\ f.node = n /\ Fits(t, f)
    BY <2>1 DEF Fits, FrameOf, Places
  <2>3. PICK k \in Nat : k = node[n].token
    BY <1>5 DEF Node
  <2>4. /\ Become(t, <<f>>) /\ odd' = odd
        /\ node' = [node EXCEPT ![n].token = k + 1, ![n].queue = Scheduled(n, k + 1)]
    BY <1>3, <1>7, <2>1, <2>3 DEF Arm, Frame
  <2>5. Steps(t) /\ AtWork(t) /\ Under(t, stack[t]) /\ Replaced(stack[t], stack'[t], f)
    BY <1>1, <2>2, <2>4, Replaces DEF Halting
  <2>6. PICK q \in SUBSET TimerEvent : q = Scheduled(n, k + 1)
    BY <1>1, ScheduledIs
  <2>7. /\ Once(q)
        /\ \A e \in q :
             \/ e.token = k + 1 /\ e.visit = node[n].visit
             \/ \E d \in node[n].queue : d.token = e.token
    BY <1>1, <2>6, ScheduledIs
  <2>8. /\ node' \in [Names -> Node] /\ node'[n].queue = q /\ node'[n].token = k + 1
        /\ \A m \in Names :
             /\ m # n => node'[m].queue = node[m].queue /\ node'[m].token = node[m].token
             /\ node'[m].visit = node[m].visit
             /\ node'[m].isActive <=> node[m].isActive
             /\ node'[m].thread = node[m].thread
             /\ node'[m].done = node[m].done
    <3>1. PICK r \in Node : r = [node[n] EXCEPT !.token = k + 1, !.queue = q]
      <4>1. PICK o \in Node : o = node[n]
        BY <1>5
      <4>2. PICK p \in Node : p = [o EXCEPT !.token = k + 1]
        <5>1. [o EXCEPT !.token = k + 1] \in Node
          BY DEF Node
        <5> QED
          BY <5>1
      <4>3. PICK r \in Node : r = [p EXCEPT !.queue = q]
        <5>1. [p EXCEPT !.queue = q] \in Node
          BY DEF Node
        <5> QED
          BY <5>1
      <4>4. r = [node[n] EXCEPT !.token = k + 1, !.queue = q]
        BY <4>1, <4>2, <4>3
      <4> QED
        BY <4>4
    <3>2. node' = [node EXCEPT ![n] = r]
      BY <1>5, <2>4, <2>6, <3>1
    <3>3. /\ r.queue = q /\ r.token = k + 1 /\ r.visit = node[n].visit
          /\ r.isActive = node[n].isActive /\ r.thread = node[n].thread /\ r.done = node[n].done
      BY <1>5, <3>1 DEF Node
    <3> QED
      BY <1>5, <3>2, <3>3
  <2>9. \A m : /\ m # n /\ Has(stack[t], m, Unset) => Has(stack'[t], m, Unset)
               /\ Has(stack[t], m, Unstarted) => Has(stack'[t], m, Unstarted)
    BY <1>2, <1>3, <2>2, <2>5, HasIs, HasReplaced DEF Is, Unstarted
  <2>10. AgreesWith(stack[t], node, active) => AgreesWith(stack'[t], node, active)
    <3>1. ~Between(stack[t]) /\ ~Between(stack'[t])
      BY <1>2, <2>2, <2>5, BetweenTop, BetweenReplaced DEF Turning, Stopped, Halting
    <3> QED
      BY <1>2, <2>2, <2>5, <3>1, AgreeReplaced DEF Late, Pending
  <2>11. ASSUME NEW e \in node'[n].queue
         PROVE  e.token <= node'[n].token /\ OfThisVisit(n, e)'
    <3>1. CASE e.token = k + 1 /\ e.visit = node[n].visit
      BY <2>8, <3>1 DEF OfThisVisit
    <3>2. CASE \E d \in node[n].queue : d.token = e.token
      <4>1. PICK d \in node[n].queue : d.token = e.token
        BY <3>2
      <4>2. d \in TimerEvent
        BY <1>5 DEF Node
      <4>3. d.token \in Nat
        BY <4>2 DEF TimerEvent
      <4>4. e.token \in Nat /\ e.token <= k
        BY <1>1, <2>3, <4>1, <4>3 DEF Visits
      <4> QED
        BY <2>8, <4>4 DEF OfThisVisit
    <3> QED
      BY <2>7, <2>8, <3>1, <3>2
  <2>12. Len(stack'[t]) = Len(stack[t]) /\ stack'[t][Len(stack'[t])].at = "start"
    BY <2>2, <2>5 DEF Replaced
  <2> QED
    BY <1>1, <1>4, <1>5, <2>4, <2>5, <2>7, <2>8, <2>9, <2>10, <2>11, <2>12, QueueKeeps
       DEF Halting
<1> QED
  BY <1>6, <1>7

-------------------------------------------------------------------------------
(***************************************************************************)
(* Operations.                                                              *)
(***************************************************************************)
LEMMA PushedIs ==
  ASSUME NEW s \in Seq(FrameOf), NEW f \in FrameOf
  PROVE  /\ s \o <<f>> \in Seq(FrameOf) /\ Len(s \o <<f>>) = Len(s) + 1
         /\ (s \o <<f>>)[Len(s) + 1] = f
         /\ \A i \in 1 .. Len(s) : (s \o <<f>>)[i] = s[i]
<1>1. PICK q \in Seq(FrameOf) : q = <<f>>
  <2>1. <<f>> \in Seq(FrameOf)
    OBVIOUS
  <2> QED
    BY <2>1
<1>2. Len(q) = 1 /\ q[1] = f
  BY <1>1
<1>3. /\ s \o q \in Seq(FrameOf) /\ Len(s \o q) = Len(s) + Len(q)
      /\ \A i \in 1 .. Len(s) + Len(q) :
           (s \o q)[i] = IF i <= Len(s) THEN s[i] ELSE q[i - Len(s)]
  BY ConcatProperties
<1>4. PICK k \in Nat : k = Len(s)
  BY LenProperties
<1>5. PICK r \in Seq(FrameOf) : r = s \o q
  BY <1>3
<1>6. /\ Len(r) = k + 1
      /\ \A i \in 1 .. k + 1 : r[i] = IF i <= k THEN s[i] ELSE q[i - k]
  BY <1>2, <1>3, <1>4, <1>5
<1>7. r[k + 1] = f
  <2>1. k + 1 \in 1 .. k + 1 /\ ~(k + 1 <= k) /\ k + 1 - k = 1
    OBVIOUS
  <2>2. r[k + 1] = q[k + 1 - k]
    BY <1>6, <2>1
  <2> QED
    BY <1>2, <2>1, <2>2
<1>8. \A i \in 1 .. k : r[i] = s[i]
  BY <1>6
<1> QED
  BY <1>1, <1>4, <1>5, <1>6, <1>7, <1>8

LEMMA OverlapIs ==
  ASSUME Typed, NEW t \in Threads, Overlap(t)
  PROVE  /\ odd \subseteq odd' /\ odd' \subseteq Oddities
         /\ At(t, "inside") => odd' # {}
         /\ Serial' => Serial /\ \A u \in Threads \ {t} : ~AtWork(u)
<1>1. \A u : Both(t, u) \in {"timers", "users"}
  BY DEF Both
<1>2. odd \subseteq Oddities
  BY DEF Typed
<1>3. \A u \in Threads \ {t} : AtWork(u) => Both(t, u) \in odd'
  BY DEF Overlap
<1>4. odd \subseteq odd' /\ odd' \subseteq Oddities
  BY <1>1, <1>2 DEF Overlap, Oddities
<1>5. At(t, "inside") => "nested" \in odd'
  BY DEF Overlap
<1>6. Serial' => Serial /\ \A u \in Threads \ {t} : ~AtWork(u)
  BY <1>1, <1>3, <1>4 DEF Serial
<1> QED
  BY <1>4, <1>5, <1>6

(* process() in an on-enter callback. *)
LEMMA NestedKeeps ==
  ASSUME IInv, NEW t \in Threads, NEW e \in Events, Process(t, e), At(t, "inside")
  PROVE  IInv'
<1>1. Typed /\ Visits /\ Defined /\ ~At(t, "ending")
  BY DEF IInv, At
<1>2. /\ Len(stack[t]) \in Nat \ {0} /\ stack[t][Len(stack[t])].at = "inside"
      /\ Fits(t, stack[t][Len(stack[t])])
  BY <1>1, TopOf
<1>3. AtWork(t) /\ Under(t, stack[t])
  BY <1>1, WorkingStack
<1>4. /\ odd \subseteq odd' /\ odd' \subseteq Oddities /\ odd' # {}
  BY <1>1, OverlapIs DEF Process
<1>5. /\ UNCHANGED <<states, active, node>> /\ ops' \in 0 .. MaxOps /\ ub' \in BOOLEAN
  BY <1>1, StateMachineAssumption DEF Process, Calls, Typed
<1>6. stack[t] \in Seq(FrameOf) /\ stack \in [Threads -> Seq(FrameOf)]
  BY <1>1 DEF Typed
<1>7. /\ states \subseteq Names /\ active \in Names \cup {Nobody, Gone}
      /\ node \in [Names -> Node] /\ HeldOnce
      /\ \A m \in Names : \A d \in node[m].queue : d.token <= node[m].token
  BY <1>1 DEF Typed, Visits
<1>8. ASSUME Steps(t), \A m, places : Has(stack[t], m, places) => Has(stack'[t], m, places),
             AgreementKept(t)
      PROVE  IInv'
  <2>1. VisitsKept(t)
    BY <1>5, <1>7, <1>8 DEF VisitsKept, DueBefore, OfThisVisit
  <2>2. DefinedKept(t)
    BY <1>1, <1>3, <1>4, <1>5, <1>8, ThreadsKept DEF DefinedKept
  <2> QED
    BY <1>3, <1>4, <1>5, <1>7, <1>8, <2>1, <2>2, FlowKeeps DEF HeldOnce
<1>9. CASE active = Gone
  <2>1. stack' = [stack EXCEPT ![t] = stack[t] \o <<>>]
    BY <1>9 DEF Process, Calls
  <2>2. stack[t] \o <<>> = stack[t]
    BY <1>6
  <2>3. stack' = stack
    BY <1>6, <2>1, <2>2
  <2>4. Steps(t)
    BY <1>1, <1>2, <1>3, <1>6, <2>3 DEF Steps, Under, At
  <2>5. AgreementKept(t)
    BY <1>5, <2>3 DEF AgreementKept
  <2> QED
    BY <1>8, <2>3, <2>4, <2>5
<1>10. CASE active # Gone
  <2>1. active \in Names
    BY <1>7, <1>10 DEF Process
  <2>2. PICK f : f = [at |-> "process", node |-> active, to |-> e]
    OBVIOUS
  <2>3. f.at = "process" /\ f.node = active /\ Fits(t, f) /\ f \in FrameOf
    BY <2>1, <2>2 DEF Fits, FrameOf, Places
  <2>4. stack' = [stack EXCEPT ![t] = stack[t] \o <<f>>]
    BY <1>10, <2>2 DEF Process, Calls, Frame
  <2>5. PICK top \in FrameOf : top = stack[t][Len(stack[t])]
    BY <1>2 DEF Fits
  <2>6. /\ stack' \in [Threads -> Seq(FrameOf)]
        /\ \A u \in Threads \ {t} : stack'[u] = stack[u]
        /\ Called(stack[t], stack'[t], top, f)
    <3>1. PICK r \in Seq(FrameOf) : r = stack[t] \o <<f>>
      BY <1>6, <2>3, PushedIs
    <3>2. /\ Len(r) = Len(stack[t]) + 1 /\ r[Len(stack[t]) + 1] = f
          /\ \A i \in 1 .. Len(stack[t]) : r[i] = stack[t][i]
      BY <1>6, <2>3, <3>1, PushedIs
    <3>3. Called(stack[t], r, top, f)
      BY <1>2, <2>5, <3>2 DEF Called
    <3> QED
      BY <1>6, <2>4, <3>1, <3>3
  <2>7. Shape(t, stack'[t])
    BY <1>2, <1>3, <2>3, <2>5, <2>6, ShapeCalled DEF Halting, Callers
  <2>8. Steps(t)
    <3>1. Len(stack'[t]) > 0 => stack'[t][Len(stack'[t])].at = "process"
      BY <1>2, <2>3, <2>6 DEF Called
    <3> QED
      BY <2>6, <2>7, <3>1, TopPrimed DEF Steps
  <2>9. \A m, places : Has(stack'[t], m, places) <=>
          Has(stack[t], m, places) \/ Is(f, m, places)
    BY <1>2, <2>5, <2>6, HasIs, HasCalled
  <2>10. ASSUME AgreesWith(stack[t], node, active) PROVE AgreesWith(stack'[t], node, active)
    <3>1. ~Between(stack[t])
      BY <1>2, <1>3, BetweenTop DEF Turning, Stopped, Halting
    <3>2. Len(stack'[t]) \in Nat \ {0} /\ stack'[t][Len(stack'[t])] = f
      BY <1>2, <2>6 DEF Called
    <3>3. ~Between(stack'[t])
      BY <2>3, <3>2 DEF Between, Halting
    <3>4. \A m \in Names : Has(stack'[t], m, Pending) <=> Has(stack[t], m, Pending)
      BY <2>3, <2>9 DEF Is, Pending
    <3>5. Distinct(stack'[t])
      <4>1. top.at \in Late => ~Below(stack[t], top.node, Pending)
        BY <1>2, <2>5, <2>10, DistinctBelow DEF AgreesWith
      <4>2. f.at \notin Late
        BY <2>3 DEF Late, Pending
      <4> QED
        BY <1>2, <2>6, <2>10, <4>1, <4>2, DistinctCalled DEF AgreesWith
    <3> QED
      BY <2>3, <2>10, <3>1, <3>2, <3>3, <3>4, <3>5 DEF AgreesWith
  <2>11. AgreementKept(t)
    BY <1>5, <2>10 DEF AgreementKept
  <2> QED
    BY <1>8, <2>8, <2>9, <2>11
<1> QED
  BY <1>9, <1>10

(* What is begun by a thread that was not at work. *)
LEMMA BeginKeeps ==
  ASSUME IInv, NEW t \in Threads, ~AtWork(t), ~At(t, "ending"), ~At(t, "ending")', Overlap(t),
         stack' \in [Threads -> Seq(FrameOf)], Shape(t, stack'[t]),
         \A u \in Threads \ {t} : stack'[u] = stack[u],
         UNCHANGED <<states, active>>, node' \in [Names -> Node],
         \A m \in Names :
           /\ node'[m].queue \subseteq node[m].queue
           /\ node'[m].token = node[m].token /\ node'[m].visit = node[m].visit
           /\ node'[m].isActive <=> node[m].isActive
           /\ node'[m].thread = node[m].thread /\ node'[m].done = node[m].done,
         ops' \in 0 .. MaxOps, ub' \in BOOLEAN, ub' => ub \/ active = Gone,
         At(t, "timeout")' =>
           t \in Names /\ \E e \in node[t].queue : e.kind \in {"held", "loose"} /\ To(t)' = e,
         t \in Names => node[t].thread \in {"runs", "doomed"},
         \A i \in 1 .. Len(stack'[t]) :
           stack'[t][i].at \notin Halting /\ (stack'[t][i].at = "process" => i = 1),
         AgreesWith(stack[t], node, active) => AgreesWith(stack'[t], node, active)
  PROVE  IInv'
<1>1. /\ odd \subseteq odd' /\ odd' \subseteq Oddities
      /\ Serial' => Serial /\ \A u \in Threads : ~AtWork(u)
  BY OverlapIs DEF IInv
<1>2. Typed'
  <2>1. HeldOnce'
    BY DEF IInv, Typed, HeldOnce
  <2> QED
    BY <1>1, <2>1 DEF IInv, Typed
<1>3. \A u \in Threads \ {t} : AtWork(u)' <=> AtWork(u)
  BY DEF AtWork
<1>4. Alone'
  BY <1>1, <1>3 DEF Alone
<1>5. Serial' => \A u \in Threads : Resting(stack[u])
  BY <1>1, RestingStack DEF IInv
<1>6. Serial' => active # Gone
  BY <1>1 DEF IInv, Agreement
<1>7. Agreement'
  <2>1. ASSUME Serial', {"again", "stale"} \cap odd' = {}, NEW u \in Threads,
               \A v \in Threads \ {u} : ~AtWork(v)'
        PROVE  Agrees(stack[u])'
    <3>1. AgreesWith(stack[t], node, active)
      BY <1>1, <2>1 DEF IInv, Agreement, Agrees
    <3>2. AgreesWith(stack'[t], node', active')
      BY <3>1, AgreeNodes
    <3>3. CASE u # t
      <4>1. Resting(stack'[t]) /\ Resting(stack'[u])
        BY <1>2, <1>5, <2>1, <3>3, RestingPrimed
      <4> QED
        BY <3>2, <4>1, RestingAgree DEF Agrees
    <3> QED
      BY <3>2, <3>3 DEF Agrees
  <2> QED
    BY <1>6, <2>1 DEF Agreement
<1>8. ASSUME Serial', NEW n \in Names, NEW e \in node[n].queue, e.kind \in {"held", "loose"}
      PROVE  OfThisVisit(n, e)'
  <2>1. \A u \in Threads : ~Has(stack[u], n, Unset)
    BY <1>5, <1>8, RestingHas DEF Unset
  <2>2. OfThisVisit(n, e)
    BY <1>1, <1>8, <2>1 DEF IInv, Visits, VisitsOf
  <2> QED
    BY <2>2 DEF OfThisVisit
<1>9. Visits'
  <2>1. \A n \in Names : \A e \in node'[n].queue : e.token <= node'[n].token
    BY DEF IInv, Visits
  <2>2. ASSUME Serial', NEW n \in Names, At(n, "timeout")'
        PROVE  OfThisVisit(n, To(n))'
    <3>1. CASE n = t
      BY <1>8, <2>2, <3>1 DEF OfThisVisit
    <3>2. CASE n # t
      <4>1. n \in Threads \ {t}
        BY <3>2 DEF Threads
      <4>2. At(n, "timeout")
        BY <2>2, <4>1 DEF At
      <4>3. AtWork(n)
        BY <4>1, <4>2, WorkingStack DEF IInv
      <4> QED
        BY <1>1, <2>2, <4>1, <4>3
    <3> QED
      BY <3>1, <3>2
  <2> QED
    BY <1>8, <2>1, <2>2 DEF Visits, VisitsOf
<1>10. ASSUME NEW n \in Names PROVE HasThread(n)'
  <2>1. n # t => n \in Threads \ {t}
    BY DEF Threads
  <2>2. HasThread(n)
    BY DEF IInv, Defined
  <2> QED
    BY <2>1, <2>2 DEF HasThread
<1>11. ASSUME NEW n \in Names PROVE Serves(n)' <=> Serves(n)
  <2>1. n # t => n \in Threads \ {t}
    BY DEF Threads
  <2> QED
    BY <2>1 DEF Serves, At
<1>12. ASSUME odd' = {} PROVE ~ub' /\ odd = {}
  BY <1>1, <1>6, <1>12 DEF IInv, Defined, Serial
<1>13. ASSUME odd' = {}, NEW n \in Names PROVE DefinedFor(n)'
  <2>1. \A u \in Threads : ~Has(stack[u], n, Unstarted)
    BY <1>5, <1>13, RestingHas DEF Unstarted, Serial
  <2>2. DefinedFor(n)
    BY <1>12, <1>13 DEF IInv, Defined
  <2> QED
    BY <1>11, <2>1, <2>2 DEF DefinedFor
<1>14. ASSUME odd' = {}, NEW u \in Threads PROVE DefinedAt(u)'
  <2>1. CASE u = t
    BY <2>1 DEF DefinedAt, Halted, Halting
  <2>2. CASE u # t
    <3>1. Resting(stack'[u])
      BY <1>5, <1>14, <2>2 DEF Serial
    <3> QED
      BY <3>1 DEF Resting, DefinedAt, Halted, Halting
  <2> QED
    BY <2>1, <2>2
<1>15. Defined'
  BY <1>10, <1>12, <1>13, <1>14 DEF Defined
<1> QED
  BY <1>2, <1>4, <1>7, <1>9, <1>15 DEF IInv

LEMMA IdleIs ==
  ASSUME Typed, NEW u \in Users, stack[u] = <<>>
  PROVE  u \in Threads /\ u \notin Names /\ ~AtWork(u) /\ \A place : ~At(u, place)
<1>1. u \in Threads /\ u \notin Names
  BY StateMachineAssumption DEF Threads
<1>2. Len(stack[u]) = 0
  BY <1>1, StackOf
<1> QED
  BY <1>1, <1>2 DEF AtWork, At

LEMMA ProcessKeeps ==
  ASSUME IInv, NEW t \in Threads, NEW e \in Events, Process(t, e)
  PROVE  IInv'
<1>1. CASE At(t, "inside")
  BY <1>1, NestedKeeps
<1>2. CASE ~At(t, "inside")
  <2>1. Typed /\ t \in Users /\ stack[t] = <<>>
    BY <1>2 DEF IInv, Process, Idle
  <2>2. t \notin Names /\ ~AtWork(t) /\ ~At(t, "ending")
    BY <2>1, IdleIs
  <2>3. /\ UNCHANGED <<states, active, node>> /\ ops' \in 0 .. MaxOps /\ ub' \in BOOLEAN
        /\ Overlap(t) /\ (ub' => active = Gone)
    <3>1. UNCHANGED <<states, active, node>> /\ ops' = ops + 1 /\ ops < MaxOps
      BY DEF Process, Calls
    <3>2. ub' = (active = Gone) /\ Overlap(t)
      BY DEF Process
    <3>3. ops' \in 0 .. MaxOps
      BY <2>1, <3>1, StateMachineAssumption DEF Typed
    <3> QED
      BY <3>1, <3>2, <3>3
  <2>4. stack \in [Threads -> Seq(FrameOf)] /\ node \in [Names -> Node]
    BY <2>1 DEF Typed
  <2>5. CASE active = Gone
    <3>1. stack' = [stack EXCEPT ![t] = stack[t] \o <<>>]
      BY <2>5 DEF Process, Calls
    <3>2. stack[t] \o <<>> = stack[t]
      BY <2>4
    <3>3. stack' = stack
      BY <2>4, <3>1, <3>2
    <3>4. Len(stack'[t]) = 0 /\ Shape(t, stack'[t]) /\ \A place : ~At(t, place)'
      BY <2>1, <3>3, StackOf DEF At
    <3> QED
      BY <2>2, <2>3, <2>4, <3>3, <3>4, BeginKeeps
  <2>6. CASE active # Gone
    <3>1. active \in Names
      BY <2>1, <2>6 DEF Process, Typed
    <3>2. PICK f : f = [at |-> "process", node |-> active, to |-> e]
      OBVIOUS
    <3>3. f.at = "process" /\ f.node = active /\ Fits(t, f) /\ f \in FrameOf
      BY <3>1, <3>2 DEF Fits, FrameOf, Places
    <3>4. PICK r \in Seq(FrameOf) : r = <<f>>
      <4>1. <<f>> \in Seq(FrameOf)
        BY <3>3
      <4> QED
        BY <4>1
    <3>5. Len(r) = 1 /\ r[1] = f
      BY <3>4
    <3>6. stack' = [stack EXCEPT ![t] = r]
      <4>1. stack' = [stack EXCEPT ![t] = stack[t] \o r]
        BY <2>6, <3>2, <3>4 DEF Process, Calls, Frame
      <4>2. <<>> \o r = r
        BY ConcatEmptySeq
      <4> QED
        BY <2>1, <4>1, <4>2
    <3>7. /\ stack' \in [Threads -> Seq(FrameOf)] /\ stack'[t] = r
          /\ \A u \in Threads \ {t} : stack'[u] = stack[u]
      BY <2>4, <3>6
    <3>8. Shape(t, r)
      <4>1. \A i \in 1 .. Len(r) : i = 1 /\ r[i] = f
        BY <3>5
      <4>2. 1 .. Len(r) - 1 = {}
        BY <3>5
      <4> QED
        BY <2>2, <3>3, <4>1, <4>2 DEF Shape
    <3>9. ~At(t, "ending")' /\ ~At(t, "timeout")'
      BY <3>3, <3>5, <3>7, TopPrimed
    <3>10. AgreesWith(stack[t], node, active) => AgreesWith(r, node, active)
      <4>1. Len(stack[t]) = 0
        BY <2>1
      <4>2. ~Between(stack[t]) /\ \A m : ~Has(stack[t], m, Pending)
        BY <4>1 DEF Between, Has
      <4>3. ~Between(r) /\ Distinct(r) /\ \A m : ~Has(r, m, Pending)
        BY <3>3, <3>5 DEF Between, Has, Distinct, Pending, Halting
      <4> QED
        BY <3>3, <3>5, <4>2, <4>3 DEF AgreesWith
    <3> QED
      BY <2>2, <2>3, <2>4, <3>3, <3>5, <3>7, <3>8, <3>9, <3>10, BeginKeeps DEF Halting
  <2> QED
    BY <2>5, <2>6
<1> QED
  BY <1>1, <1>2

LEMMA SetActiveKeeps ==
  ASSUME IInv, NEW t \in Users, NEW n \in Names, SetActive(t, n)
  PROVE  IInv'
<1>1. Typed /\ stack[t] = <<>>
  BY DEF IInv, SetActive, Idle
<1>2. t \in Threads /\ t \notin Names /\ ~AtWork(t) /\ ~At(t, "ending")
  BY <1>1, IdleIs
<1>3. /\ UNCHANGED <<states, active, node>> /\ ops' \in 0 .. MaxOps /\ ub' \in BOOLEAN
      /\ Overlap(t) /\ (ub' => active = Gone)
  <2>1. UNCHANGED <<states, active, node>> /\ ops' = ops + 1 /\ ops < MaxOps
    BY DEF SetActive, Calls, Idle
  <2>2. ub' = (active = Gone) /\ Overlap(t)
    BY DEF SetActive
  <2>3. ops' \in 0 .. MaxOps
    BY <1>1, <2>1, StateMachineAssumption DEF Typed
  <2> QED
    BY <2>1, <2>2, <2>3
<1>4. stack \in [Threads -> Seq(FrameOf)] /\ node \in [Names -> Node]
  BY <1>1 DEF Typed
<1>5. PICK f : f = [at |-> "choose", node |-> n, to |-> Nobody]
  OBVIOUS
<1>6. f.at = "choose" /\ f.node = n /\ Fits(t, f) /\ f \in FrameOf
  BY <1>5 DEF Fits, FrameOf, Places
<1>7. Len(stack[t]) = 0
  BY <1>1
<1>8. ~Between(stack[t]) /\ \A m : ~Has(stack[t], m, Pending)
  BY <1>7 DEF Between, Has
<1>9. ASSUME NEW r \in Seq(FrameOf), stack' = [stack EXCEPT ![t] = stack[t] \o r], Shape(t, r),
             Len(r) \in Nat \ {0},
             \A i \in 1 .. Len(r) : r[i].at \in {"choose", "deactivate"},
             AgreesWith(stack[t], node, active) => AgreesWith(r, node, active)
      PROVE  IInv'
  <2>1. <<>> \o r = r
    BY ConcatEmptySeq
  <2>2. stack' = [stack EXCEPT ![t] = r]
    BY <1>1, <1>9, <2>1
  <2>3. /\ stack' \in [Threads -> Seq(FrameOf)] /\ stack'[t] = r
        /\ \A u \in Threads \ {t} : stack'[u] = stack[u]
    BY <1>2, <1>4, <2>2
  <2>4. ~At(t, "ending")' /\ ~At(t, "timeout")'
    <3>1. r[Len(r)].at \in {"choose", "deactivate"}
      BY <1>9
    <3> QED
      BY <2>3, <3>1, TopPrimed
  <2> QED
    BY <1>2, <1>3, <1>4, <1>9, <2>3, <2>4, BeginKeeps DEF Halting
<1>10. CASE active \in Names
  <2>1. PICK g : g = [at |-> "deactivate", node |-> active, to |-> Nobody]
    OBVIOUS
  <2>2. g.at = "deactivate" /\ g.node = active /\ Fits(t, g) /\ g \in FrameOf
    BY <1>10, <2>1 DEF Fits, FrameOf, Places
  <2>3. PICK r \in Seq(FrameOf) : r = <<f, g>>
    <3>1. <<f, g>> \in Seq(FrameOf)
      BY <1>6, <2>2
    <3> QED
      BY <3>1
  <2>4. Len(r) = 2 /\ r[1] = f /\ r[2] = g
    BY <2>3
  <2>5. stack' = [stack EXCEPT ![t] = stack[t] \o r]
    <3>1. stack' = [stack EXCEPT ![t] = stack[t] \o (<<f>> \o <<g>>)]
      BY <1>5, <1>10, <2>1 DEF SetActive, Calls, Frame
    <3> QED
      BY <1>6, <2>2, <2>3, <3>1, Frames
  <2>6. Shape(t, r)
    BY <1>2, <1>6, <2>2, <2>4 DEF Shape, Callers
  <2>7. AgreesWith(stack[t], node, active) => AgreesWith(r, node, active)
    <3>1. Between(r) /\ Distinct(r)
      BY <1>6, <2>2, <2>4 DEF Between, Distinct, Pending
    <3>2. \A m \in Names : Has(r, m, Pending) <=> m = active
      BY <1>6, <2>2, <2>4 DEF Has, Pending
    <3> QED
      BY <1>8, <2>2, <2>4, <3>1, <3>2 DEF AgreesWith
  <2>8. \A i \in 1 .. Len(r) : r[i].at \in {"choose", "deactivate"}
    BY <1>6, <2>2, <2>4
  <2>9. Len(r) \in Nat \ {0}
    BY <2>4
  <2> QED
    BY <1>9, <2>5, <2>6, <2>7, <2>8, <2>9
<1>11. CASE active \notin Names
  <2>1. PICK r \in Seq(FrameOf) : r = <<f>>
    <3>1. <<f>> \in Seq(FrameOf)
      BY <1>6
    <3> QED
      BY <3>1
  <2>2. Len(r) = 1 /\ r[1] = f
    BY <2>1
  <2>3. stack' = [stack EXCEPT ![t] = stack[t] \o r]
    <3>1. stack' = [stack EXCEPT ![t] = stack[t] \o (<<f>> \o <<>>)]
      BY <1>5, <1>11 DEF SetActive, Calls, Frame
    <3> QED
      BY <1>6, <2>1, <3>1, Frames
  <2>4. Shape(t, r)
    BY <1>2, <1>6, <2>2 DEF Shape
  <2>5. AgreesWith(stack[t], node, active) => AgreesWith(r, node, active)
    <3>1. Between(r) /\ Distinct(r) /\ \A m : ~Has(r, m, Pending)
      BY <1>6, <2>2 DEF Between, Distinct, Pending, Has
    <3> QED
      BY <1>6, <1>8, <1>11, <2>2, <3>1 DEF AgreesWith
  <2>6. \A i \in 1 .. Len(r) : r[i].at \in {"choose", "deactivate"}
    BY <1>6, <2>2
  <2>7. Len(r) \in Nat \ {0}
    BY <2>2
  <2> QED
    BY <1>9, <2>3, <2>4, <2>5, <2>6, <2>7
<1> QED
  BY <1>10, <1>11

LEMMA DeliverKeeps ==
  ASSUME IInv, NEW n \in Names, NEW e \in node[n].queue, Deliver(n, e)
  PROVE  IInv'
<1>1. Typed /\ Defined /\ n \in Threads
  BY DEF IInv, Threads
<1>2. stack[n] = <<>> \/ At(n, "action")
  BY DEF Deliver, Awake
<1>3. /\ Len(stack[n]) \in {0, 1} /\ ~At(n, "ending")
      /\ Len(stack[n]) = 1 => stack[n][1].at = "action"
  <2>1. CASE stack[n] = <<>>
    BY <2>1 DEF At
  <2>2. CASE At(n, "action")
    <3>1. Len(stack[n]) \in Nat \ {0} /\ stack[n][Len(stack[n])].at = "action" /\ Shape(n, stack[n])
      BY <1>1, <2>2, TopOf, StackOf
    <3>2. PICK k \in 1 .. Len(stack[n]) : k = Len(stack[n])
      BY <3>1
    <3>3. Len(stack[n]) = 1
      BY <3>1, <3>2 DEF Shape
    <3> QED
      BY <2>2, <3>1, <3>3 DEF At
  <2> QED
    BY <1>2, <2>1, <2>2
<1>4. ~AtWork(n) /\ Resting(stack[n])
  <2>1. \A k \in {0, 1} : ~(k > 1)
    OBVIOUS
  <2> QED
    BY <1>3, <2>1 DEF AtWork, Resting
<1>5. node[n].thread \in {"runs", "doomed"}
  <2>1. HasThread(n)
    BY <1>1 DEF Defined
  <2> QED
    BY <2>1 DEF Deliver, Awake, HasThread, At
<1>6. node \in [Names -> Node] /\ stack \in [Threads -> Seq(FrameOf)] /\ ub \in BOOLEAN
      /\ ops \in 0 .. MaxOps
  BY <1>1 DEF Typed
<1>7. e \in TimerEvent /\ e.kind # "dead" /\ e.kind \in {"held", "loose", "dead", "plain"}
  <2>1. node[n] \in Node
    BY <1>6
  <2>2. node[n].queue \subseteq TimerEvent
    BY <2>1 DEF Node
  <2>3. e.kind # "dead"
    BY DEF Deliver, Live
  <2>4. e \in TimerEvent
    BY <2>2
  <2> QED
    BY <2>3, <2>4 DEF TimerEvent
<1>8. UNCHANGED <<states, active, ub, ops>> /\ Overlap(n)
  BY DEF Deliver
<1>9. PICK q \in SUBSET node[n].queue : node' = [node EXCEPT ![n].queue = q]
  <2>1. Live(n) \subseteq node[n].queue
    BY DEF Live
  <2> QED
    BY <2>1 DEF Deliver
<1>10. /\ node' \in [Names -> Node]
       /\ \A m \in Names :
            /\ node'[m].queue \subseteq node[m].queue
            /\ node'[m].token = node[m].token /\ node'[m].visit = node[m].visit
            /\ node'[m].isActive <=> node[m].isActive
            /\ node'[m].thread = node[m].thread /\ node'[m].done = node[m].done
  <2>1. q \in SUBSET TimerEvent
    BY <1>6 DEF Node
  <2> QED
    BY <1>6, <1>9, <2>1 DEF Node
<1>11. PICK f : f = [at |-> "action", node |-> n, to |-> Nobody]
  OBVIOUS
<1>12. f.at = "action" /\ f.node = n /\ Fits(n, f) /\ f \in FrameOf
  BY <1>11 DEF Fits, FrameOf, Places
<1>13. CASE e.kind = "plain"
  <2>1. PICK r \in Seq(FrameOf) : r = <<f>>
    <3>1. <<f>> \in Seq(FrameOf)
      BY <1>12
    <3> QED
      BY <3>1
  <2>2. Len(r) = 1 /\ r[1] = f
    BY <2>1
  <2>3. stack' = [stack EXCEPT ![n] = r]
    <3>1. stack' = [stack EXCEPT ![n] = <<f>> \o <<>>]
      BY <1>11, <1>13 DEF Deliver, Frame
    <3> QED
      BY <1>12, <2>1, <3>1, Frames
  <2>4. /\ stack' \in [Threads -> Seq(FrameOf)] /\ stack'[n] = r
        /\ \A u \in Threads \ {n} : stack'[u] = stack[u]
    BY <1>1, <1>6, <2>3
  <2>5. \A i \in 1 .. Len(r) : i = 1 /\ r[i] = f
    BY <2>2
  <2>6. Shape(n, r)
    <3>1. 1 .. Len(r) - 1 = {}
      BY <2>2
    <3> QED
      BY <1>12, <2>5, <3>1 DEF Shape
  <2>7. ~At(n, "ending")' /\ ~At(n, "timeout")'
    BY <1>12, <2>2, <2>4, TopPrimed
  <2>8. Resting(r)
    BY <1>12, <2>2 DEF Resting
  <2>9. AgreesWith(stack[n], node, active) => AgreesWith(r, node, active)
    BY <1>4, <2>8, RestingAgree
  <2> QED
    BY <1>1, <1>3, <1>4, <1>5, <1>6, <1>8, <1>10, <1>12, <2>4, <2>5, <2>6, <2>7, <2>9, BeginKeeps
       DEF Halting
<1>14. CASE e.kind # "plain"
  <2>1. PICK g : g = [at |-> "timeout", node |-> n, to |-> e]
    OBVIOUS
  <2>2. g.at = "timeout" /\ g.node = n /\ g.to = e /\ Fits(n, g) /\ g \in FrameOf
    BY <1>7, <2>1 DEF Fits, FrameOf, Places
  <2>3. PICK r \in Seq(FrameOf) : r = <<f, g>>
    <3>1. <<f, g>> \in Seq(FrameOf)
      BY <1>12, <2>2
    <3> QED
      BY <3>1
  <2>4. Len(r) = 2 /\ r[1] = f /\ r[2] = g
    BY <2>3
  <2>5. stack' = [stack EXCEPT ![n] = r]
    <3>1. stack' = [stack EXCEPT ![n] = <<f>> \o <<g>>]
      BY <1>11, <1>14, <2>1 DEF Deliver, Frame
    <3> QED
      BY <1>12, <2>2, <2>3, <3>1, Frames
  <2>6. /\ stack' \in [Threads -> Seq(FrameOf)] /\ stack'[n] = r
        /\ \A u \in Threads \ {n} : stack'[u] = stack[u]
    BY <1>1, <1>6, <2>5
  <2>7. Shape(n, r)
    BY <1>12, <2>2, <2>4 DEF Shape, Callers
  <2>8. ~At(n, "ending")' /\ To(n)' = e
    BY <2>2, <2>4, <2>6, EmptySeq DEF At, To, Last
  <2>9. AgreesWith(stack[n], node, active) => AgreesWith(r, node, active)
    <3>1. ~Between(stack[n]) /\ \A m : ~Has(stack[n], m, Pending)
      BY <1>4, RestingHas DEF Resting, Between, Pending, Halting
    <3>2. ~Between(r) /\ Distinct(r) /\ \A m : ~Has(r, m, Pending)
      BY <1>12, <2>2, <2>4 DEF Between, Distinct, Pending, Has, Halting
    <3> QED
      BY <2>2, <2>4, <3>1, <3>2 DEF AgreesWith
  <2>10. \A i \in 1 .. Len(r) : r[i].at \in {"action", "timeout"}
    BY <1>12, <2>2, <2>4
  <2>11. e \in node[n].queue /\ e.kind \in {"held", "loose"}
    BY <1>7, <1>14
  <2> QED
    BY <1>1, <1>3, <1>4, <1>5, <1>6, <1>8, <1>10, <2>6, <2>7, <2>8, <2>9, <2>10, <2>11, BeginKeeps
       DEF Halting
<1> QED
  BY <1>13, <1>14

(* What the thread of a timer does while it is not at work. *)
LEMMA QuietKeeps ==
  ASSUME IInv, NEW n \in Names, Resting(stack[n]), Resting(stack'[n]),
         stack' \in [Threads -> Seq(FrameOf)], Shape(n, stack'[n]),
         \A u \in Threads \ {n} : stack'[u] = stack[u],
         UNCHANGED <<states, active, ops, odd>>, node' \in [Names -> Node],
         \A m \in Names :
           /\ node'[m].queue \subseteq node[m].queue
           /\ node'[m].token = node[m].token /\ node'[m].visit = node[m].visit
           /\ node'[m].isActive <=> node[m].isActive
           /\ node'[m].thread = node[m].thread /\ node'[m].done = node[m].done,
         ub' \in BOOLEAN, ub' /\ ~ub => node[n].thread = "doomed" /\ ~node[n].done,
         node[n].done \/ (At(n, "ending")' <=> At(n, "ending")), HasThread(n)'
  PROVE  IInv'
<1>1. Typed'
  <2>1. HeldOnce'
    BY DEF IInv, Typed, HeldOnce
  <2> QED
    BY <2>1 DEF IInv, Typed
<1>2. \A u \in Threads : AtWork(u)' <=> AtWork(u)
  <2>1. \A k \in {0, 1} : ~(k > 1)
    OBVIOUS
  <2>2. ~AtWork(n) /\ ~AtWork(n)'
    BY <2>1 DEF AtWork, Resting
  <2>3. \A u \in Threads \ {n} : AtWork(u)' <=> AtWork(u)
    BY DEF AtWork
  <2> QED
    BY <2>2, <2>3
<1>3. Alone'
  BY <1>2 DEF IInv, Alone, Serial
<1>4. ASSUME Serial', {"again", "stale"} \cap odd' = {}, NEW u \in Threads,
             \A v \in Threads \ {u} : ~AtWork(v)'
      PROVE  Agrees(stack[u])'
  <2>1. AgreesWith(stack[u], node, active)
    BY <1>2, <1>4 DEF IInv, Agreement, Agrees, Serial
  <2>2. AgreesWith(stack[u], node', active')
    BY <2>1, AgreeNodes
  <2>3. u = n \/ stack'[u] = stack[u]
    OBVIOUS
  <2> QED
    BY <2>2, <2>3, RestingAgree DEF Agrees
<1>5. Agreement'
  BY <1>4 DEF IInv, Agreement, Serial
<1>6. \A m, places : places \cap {"action", "ending"} = {} =>
        \A u \in Threads : Has(stack[u], m, places) => Has(stack'[u], m, places)
  BY RestingHas
<1>7. Visits'
  <2>1. \A m \in Names : \A e \in node'[m].queue : e.token <= node'[m].token
    BY DEF IInv, Visits
  <2>2. ASSUME Serial', NEW m \in Names, NEW e \in node'[m].queue, e.kind \in {"held", "loose"}
        PROVE  OfThisVisit(m, e)' \/ \E u \in Threads : Has(stack'[u], m, Unset)
    <3>1. OfThisVisit(m, e) \/ \E u \in Threads : Has(stack[u], m, Unset)
      BY <2>2 DEF IInv, Visits, VisitsOf, Serial
    <3>2. OfThisVisit(m, e) => OfThisVisit(m, e)'
      BY DEF OfThisVisit
    <3>3. Unset \cap {"action", "ending"} = {}
      BY DEF Unset
    <3> QED
      BY <1>6, <3>1, <3>2, <3>3
  <2>3. ASSUME Serial', NEW m \in Names, At(m, "timeout")'
        PROVE  OfThisVisit(m, To(m))'
    <3>1. m # n
      <4>1. stack'[n] # <<>> => Len(stack'[n]) = 1
        BY EmptySeq DEF Resting
      <4>2. ~At(n, "timeout")'
        BY <4>1 DEF Resting, At, Last
      <4> QED
        BY <2>3, <4>2
    <3>2. stack'[m] = stack[m]
      BY <3>1 DEF Threads
    <3>3. At(m, "timeout") /\ To(m)' = To(m)
      BY <2>3, <3>2 DEF At, To
    <3>4. OfThisVisit(m, To(m))
      BY <2>3, <3>3 DEF IInv, Visits, VisitsOf, Serial
    <3> QED
      BY <3>3, <3>4 DEF OfThisVisit
  <2> QED
    BY <2>1, <2>2, <2>3 DEF Visits, VisitsOf
<1>8. ASSUME NEW m \in Names PROVE HasThread(m)'
  <2>1. m # n => m \in Threads \ {n}
    BY DEF Threads
  <2>2. HasThread(m)
    BY DEF IInv, Defined
  <2> QED
    BY <2>1, <2>2 DEF HasThread
<1>9. ASSUME NEW m \in Names PROVE Serves(m)' <=> Serves(m)
  <2>1. m # n => m \in Threads \ {n}
    BY DEF Threads
  <2> QED
    BY <2>1 DEF Serves, At
<1>10. ASSUME odd = {} PROVE ~ub'
  BY <1>10 DEF IInv, Defined, DefinedFor
<1>11. ASSUME odd = {}, NEW m \in Names PROVE DefinedFor(m)'
  <2>1. Unstarted \cap {"action", "ending"} = {}
    BY DEF Unstarted
  <2>2. DefinedFor(m)
    BY <1>11 DEF IInv, Defined
  <2>3. (\E u \in Threads : Has(stack[u], m, Unstarted)) =>
           \E u \in Threads : Has(stack'[u], m, Unstarted)
    BY <1>6, <2>1
  <2> QED
    BY <1>9, <2>2, <2>3 DEF DefinedFor
<1>12. ASSUME odd = {}, NEW u \in Threads PROVE DefinedAt(u)'
  <2>1. CASE u = n
    BY <2>1 DEF Resting, DefinedAt, Halted, Halting
  <2>2. CASE u # n
    <3>1. DefinedAt(u) /\ stack'[u] = stack[u]
      BY <1>12, <2>2 DEF IInv, Defined
    <3>2. ASSUME NEW i \in 1 .. Len(stack[u]), Halted(stack[u][i])
          PROVE  Halted(stack[u][i])'
      <4>1. stack[u][i].node \in Names
        BY StackOf DEF IInv, FrameOf
      <4>2. stack'[u][i] = stack[u][i]
        BY <3>1
      <4> QED
        BY <1>9, <3>2, <4>1, <4>2 DEF Halted
    <3> QED
      BY <3>1, <3>2 DEF DefinedAt
  <2> QED
    BY <2>1, <2>2
<1>13. Defined'
  BY <1>8, <1>10, <1>11, <1>12 DEF Defined
<1> QED
  BY <1>1, <1>3, <1>5, <1>7, <1>13 DEF IInv

LEMMA SweepKeeps ==
  ASSUME IInv, NEW n \in Names, Sweep(n)
  PROVE  IInv'
<1>1. Typed /\ Defined /\ n \in Threads
  BY DEF IInv, Threads
<1>2. UNCHANGED <<states, active, stack, ub, ops, odd>> /\ stack[n] = <<>>
  BY DEF Sweep, Awake
<1>3. /\ stack \in [Threads -> Seq(FrameOf)] /\ node \in [Names -> Node] /\ ub \in BOOLEAN
      /\ Shape(n, stack[n])
  BY <1>1 DEF Typed
<1>4. Resting(stack[n])
  BY <1>2 DEF Resting
<1>5. HasThread(n)'
  BY <1>2 DEF HasThread
<1>6. PICK q \in SUBSET node[n].queue : node' = [node EXCEPT ![n].queue = q]
  <2>1. Live(n) \subseteq node[n].queue
    BY DEF Live
  <2> QED
    BY <2>1 DEF Sweep
<1>7. /\ node' \in [Names -> Node]
      /\ \A m \in Names :
           /\ node'[m].queue \subseteq node[m].queue
           /\ node'[m].token = node[m].token /\ node'[m].visit = node[m].visit
           /\ node'[m].isActive <=> node[m].isActive
           /\ node'[m].thread = node[m].thread /\ node'[m].done = node[m].done
  <2>1. node[n] \in Node /\ q \in SUBSET TimerEvent
    BY <1>3 DEF Node
  <2>2. PICK r \in Node : r = [node[n] EXCEPT !.queue = q]
    BY <2>1 DEF Node
  <2>3. /\ r.queue = q /\ r.token = node[n].token /\ r.visit = node[n].visit
        /\ r.isActive = node[n].isActive /\ r.thread = node[n].thread /\ r.done = node[n].done
    BY <2>1, <2>2 DEF Node
  <2>4. node' = [node EXCEPT ![n] = r]
    BY <1>3, <1>6, <2>2
  <2> QED
    BY <1>3, <2>2, <2>3, <2>4
<1>8. At(n, "ending")' <=> At(n, "ending")
  BY <1>2 DEF At
<1> QED
  BY <1>2, <1>3, <1>4, <1>5, <1>7, <1>8, QuietKeeps

LEMMA ActionEndsKeeps ==
  ASSUME IInv, NEW n \in Names, ActionEnds(n)
  PROVE  IInv'
<1>1. Typed /\ Defined /\ n \in Threads /\ At(n, "action") /\ ~At(n, "ending")
  BY DEF IInv, Threads, ActionEnds, At
<1>2. UNCHANGED <<states, active, node, ub, ops, odd>> /\ Become(n, <<>>)
  BY DEF ActionEnds, Return
<1>3. /\ stack \in [Threads -> Seq(FrameOf)] /\ node \in [Names -> Node] /\ ub \in BOOLEAN
      /\ Shape(n, stack[n])
  BY <1>1 DEF Typed
<1>4. /\ Len(stack[n]) \in Nat \ {0} /\ stack[n][Len(stack[n])].at = "action"
      /\ stack[n][Len(stack[n])] \in FrameOf /\ stack[n] # <<>>
  BY <1>1, TopOf DEF Fits, At
<1>5. Len(stack[n]) = 1
  <2>1. PICK k \in 1 .. Len(stack[n]) : k = Len(stack[n])
    BY <1>4
  <2> QED
    BY <1>3, <1>4, <2>1 DEF Shape
<1>6. /\ stack' \in [Threads -> Seq(FrameOf)]
      /\ \A u \in Threads \ {n} : stack'[u] = stack[u]
      /\ Over(stack[n], <<>>, stack'[n])
  <2>1. <<>> \in Seq(FrameOf)
    OBVIOUS
  <2> QED
    BY <1>1, <1>2, <1>4, <2>1, BecomeIs
<1>7. Len(stack'[n]) = 0
  <2>1. PICK f \in FrameOf : f = stack[n][Len(stack[n])]
    BY <1>4
  <2>2. Popped(stack[n], stack'[n])
    BY <1>1, <1>3, <1>4, <1>6, <2>1, OverIs
  <2> QED
    BY <1>5, <2>2 DEF Popped
<1>8. stack'[n] = <<>>
  BY <1>1, <1>6, <1>7, EmptySeq
<1>9. Resting(stack[n]) /\ Resting(stack'[n]) /\ Shape(n, stack'[n])
  BY <1>4, <1>5, <1>7 DEF Resting, Shape
<1>10. HasThread(n)' /\ ~At(n, "ending")'
  BY <1>8 DEF HasThread, At
<1> QED
  BY <1>1, <1>2, <1>3, <1>6, <1>9, <1>10, QuietKeeps

LEMMA LoopEndsKeeps ==
  ASSUME IInv, NEW n \in Names, LoopEnds(n)
  PROVE  IInv'
<1>1. Typed /\ Defined /\ n \in Threads
  BY DEF IInv, Threads
<1>2. /\ UNCHANGED <<states, active, node, ops, odd>> /\ stack[n] = <<>>
      /\ node[n].thread \in {"runs", "doomed"}
  BY DEF LoopEnds, Awake
<1>3. /\ stack \in [Threads -> Seq(FrameOf)] /\ node \in [Names -> Node] /\ ub \in BOOLEAN
      /\ Shape(n, stack[n])
  BY <1>1 DEF Typed
<1>4. Resting(stack[n])
  BY <1>2 DEF Resting
<1>5. HasThread(n)'
  BY <1>2 DEF HasThread
<1>6. CASE node[n].done
  <2>1. PICK f : f = [at |-> "ending", node |-> n, to |-> Nobody]
    OBVIOUS
  <2>2. f.at = "ending" /\ f.node = n /\ Fits(n, f) /\ f \in FrameOf
    BY <2>1 DEF Fits, FrameOf, Places
  <2>3. PICK r \in Seq(FrameOf) : r = <<f>>
    <3>1. <<f>> \in Seq(FrameOf)
      BY <2>2
    <3> QED
      BY <3>1
  <2>4. Len(r) = 1 /\ r[1] = f
    BY <2>3
  <2>5. stack' = [stack EXCEPT ![n] = r] /\ ub' = ub
    BY <1>6, <2>1, <2>3 DEF LoopEnds, Frame
  <2>6. /\ stack' \in [Threads -> Seq(FrameOf)] /\ stack'[n] = r
        /\ \A u \in Threads \ {n} : stack'[u] = stack[u]
    BY <1>1, <1>3, <2>5
  <2>7. Shape(n, r)
    <3>1. \A i \in 1 .. Len(r) : i = 1 /\ r[i] = f
      BY <2>4
    <3>2. 1 .. Len(r) - 1 = {}
      BY <2>4
    <3> QED
      BY <2>2, <3>1, <3>2 DEF Shape
  <2>8. Resting(r)
    BY <2>2, <2>4 DEF Resting
  <2> QED
    BY <1>2, <1>3, <1>4, <1>5, <1>6, <2>5, <2>6, <2>7, <2>8, QuietKeeps
<1>7. CASE ~node[n].done
  <2>1. node[n].thread = "doomed" /\ ub' /\ stack' = stack /\ ub' \in BOOLEAN
    BY <1>7 DEF LoopEnds
  <2>2. At(n, "ending")' <=> At(n, "ending")
    BY <2>1 DEF At
  <2> QED
    BY <1>2, <1>3, <1>4, <1>5, <1>7, <2>1, <2>2, QuietKeeps
<1> QED
  BY <1>6, <1>7

(* A thread that ends lets those go that wait for it. *)
Ends(n, waits, f) ==
  /\ f.at = "unnotify" /\ f.node = n /\ (\A t : Fits(t, f)) /\ f \in FrameOf
  /\ waits = {t \in Threads : At(t, "wait") /\ Here(t) = n} /\ n \notin waits
  /\ node' = [node EXCEPT ![n].thread = IF @ = "doomed" \/ waits # {} THEN "none" ELSE "over"]
  /\ stack' = [t \in Threads |-> IF t = n THEN <<>>
                                 ELSE IF t \in waits THEN Append(Front(stack[t]), f)
                                 ELSE stack[t]]
  /\ Len(stack[n]) = 1 /\ Resting(stack[n])
  /\ stack'[n] = <<>> /\ Len(stack'[n]) = 0 /\ Resting(stack'[n])
  /\ \A t \in waits :
       /\ stack'[t] \in Seq(FrameOf) /\ Under(t, stack[t])
       /\ Replaced(stack[t], stack'[t], f)
       /\ stack[t][Len(stack[t])].at = "wait" /\ stack[t][Len(stack[t])].node = n
  /\ \A t \in Threads \ ({n} \cup waits) : stack'[t] = stack[t]
  /\ node' \in [Names -> Node]
  /\ \A m \in Names :
       /\ node'[m].queue = node[m].queue
       /\ node'[m].token = node[m].token /\ node'[m].visit = node[m].visit
       /\ node'[m].isActive <=> node[m].isActive
       /\ m # n => node'[m].thread = node[m].thread
       /\ node'[m].done = node[m].done

LEMMA ThreadEndsIs ==
  ASSUME Typed, NEW n \in Names, ThreadEnds(n)
  PROVE  \E waits \in SUBSET Threads, f \in FrameOf : Ends(n, waits, f)
<1>1. Typed /\ n \in Threads /\ At(n, "ending")
  BY DEF Threads, ThreadEnds
<1>3. /\ stack \in [Threads -> Seq(FrameOf)] /\ node \in [Names -> Node]
      /\ \A t \in Threads : Shape(t, stack[t])
  BY <1>1 DEF Typed
<1>4. PICK f : f = [at |-> "unnotify", node |-> n, to |-> Nobody]
  OBVIOUS
<1>5. f.at = "unnotify" /\ f.node = n /\ (\A t : Fits(t, f)) /\ f \in FrameOf
  BY <1>4 DEF Fits, FrameOf, Places
<1>6. PICK waits \in SUBSET Threads : waits = {t \in Threads : At(t, "wait") /\ Here(t) = n}
  OBVIOUS
<1>7. n \notin waits
  BY <1>1, <1>6 DEF At
<1>8. /\ node' = [node EXCEPT ![n].thread =
                    IF @ = "doomed" \/ waits # {} THEN "none" ELSE "over"]
      /\ stack' = [t \in Threads |-> IF t = n THEN <<>>
                                     ELSE IF t \in waits THEN Append(Front(stack[t]), f)
                                     ELSE stack[t]]
  BY <1>4, <1>6 DEF ThreadEnds, Frame
<1>9. /\ Len(stack[n]) = 1 /\ Resting(stack[n])
      /\ stack'[n] = <<>> /\ Len(stack'[n]) = 0 /\ Resting(stack'[n])
  <2>1. Len(stack[n]) \in Nat \ {0} /\ stack[n][Len(stack[n])].at = "ending"
    BY <1>1, TopOf
  <2>2. PICK k \in 1 .. Len(stack[n]) : k = Len(stack[n])
    BY <2>1
  <2>3. Len(stack[n]) = 1
    BY <1>1, <1>3, <2>1, <2>2 DEF Shape
  <2>4. stack'[n] = <<>>
    BY <1>1, <1>8
  <2> QED
    BY <2>1, <2>3, <2>4 DEF Resting
<1>10. ASSUME NEW t \in waits
       PROVE  /\ stack'[t] \in Seq(FrameOf) /\ Under(t, stack[t])
              /\ Replaced(stack[t], stack'[t], f)
              /\ stack[t][Len(stack[t])].at = "wait" /\ stack[t][Len(stack[t])].node = n
  <2>1. At(t, "wait") /\ Here(t) = n /\ t \in Threads /\ t # n
    BY <1>6, <1>7
  <2>2. /\ Under(t, stack[t]) /\ stack[t] # <<>> /\ stack[t] \in Seq(FrameOf)
        /\ stack[t][Len(stack[t])].at = "wait" /\ stack[t][Len(stack[t])].node = n
    BY <1>1, <1>3, <2>1, WorkingStack, TopOf DEF At
  <2>3. Len(stack[t]) \in Nat \ {0}
    BY <2>2 DEF Under
  <2>4. <<f>> \in Seq(FrameOf)
    BY <1>5
  <2>5. Front(stack[t]) \in Seq(FrameOf)
    <3>1. <<>> \in Seq(FrameOf)
      OBVIOUS
    <3>2. SubSeq(stack[t], 1, Len(stack[t]) - 1) \in Seq(FrameOf)
      BY <2>2, <2>3, ElementOfSeq, SubSeqProperties
    <3> QED
      BY <3>2 DEF Front
  <2>6. Append(Front(stack[t]), f) = Front(stack[t]) \o <<f>>
    BY <1>5, <2>5, AppendIsConcat
  <2>7. stack'[t] = Front(stack[t]) \o <<f>>
    BY <1>8, <2>1, <2>6
  <2>8. stack'[t] \in Seq(FrameOf) /\ Over(stack[t], <<f>>, stack'[t])
    BY <2>2, <2>4, <2>7, FrontIs
  <2> QED
    BY <1>5, <2>2, <2>8, OverIs
<1>11. \A t \in Threads \ ({n} \cup waits) : stack'[t] = stack[t]
  BY <1>8
<1>12. node' \in [Names -> Node] /\
       \A m \in Names :
         /\ node'[m].queue = node[m].queue
         /\ node'[m].token = node[m].token /\ node'[m].visit = node[m].visit
         /\ node'[m].isActive <=> node[m].isActive
         /\ m # n => node'[m].thread = node[m].thread
         /\ node'[m].done = node[m].done
  <2>1. PICK thread \in {"none", "over"} : node' = [node EXCEPT ![n].thread = thread]
    BY <1>3, <1>8
  <2>2. node[n] \in Node
    BY <1>3
  <2>3. PICK r \in Node : r = [node[n] EXCEPT !.thread = thread]
    BY <2>2 DEF Node
  <2>4. /\ r.queue = node[n].queue /\ r.token = node[n].token /\ r.visit = node[n].visit
        /\ r.isActive = node[n].isActive /\ r.done = node[n].done
    BY <2>2, <2>3 DEF Node
  <2>5. node' = [node EXCEPT ![n] = r]
    BY <1>3, <2>1, <2>3
  <2> QED
    BY <1>3, <2>3, <2>4, <2>5
<1> QED
  BY <1>5, <1>6, <1>7, <1>8, <1>9, <1>10, <1>11, <1>12 DEF Ends

LEMMA ThreadEndsKeeps ==
  ASSUME IInv, NEW n \in Names, ThreadEnds(n)
  PROVE  IInv'
<1>1. Typed /\ Defined /\ n \in Threads /\ At(n, "ending")
  BY DEF IInv, Threads, ThreadEnds
<1>2. UNCHANGED <<states, active, ub, ops, odd>>
  BY DEF ThreadEnds
<1>3. /\ stack \in [Threads -> Seq(FrameOf)] /\ node \in [Names -> Node]
      /\ \A t \in Threads : Shape(t, stack[t])
  BY <1>1 DEF Typed
<1>4. PICK waits \in SUBSET Threads, f \in FrameOf : Ends(n, waits, f)
  BY <1>1, ThreadEndsIs
<1>5. f.at = "unnotify" /\ f.node = n /\ (\A t : Fits(t, f)) /\ f \in FrameOf
  BY <1>4 DEF Ends
<1>6. waits = {t \in Threads : At(t, "wait") /\ Here(t) = n}
  BY <1>4 DEF Ends
<1>7. n \notin waits
  BY <1>4 DEF Ends
<1>8. /\ node' = [node EXCEPT ![n].thread =
                    IF @ = "doomed" \/ waits # {} THEN "none" ELSE "over"]
      /\ stack' = [t \in Threads |-> IF t = n THEN <<>>
                                     ELSE IF t \in waits THEN Append(Front(stack[t]), f)
                                     ELSE stack[t]]
  BY <1>4 DEF Ends
<1>9. /\ Len(stack[n]) = 1 /\ Resting(stack[n])
      /\ stack'[n] = <<>> /\ Len(stack'[n]) = 0 /\ Resting(stack'[n])
  BY <1>4 DEF Ends
<1>10. ASSUME NEW t \in waits
       PROVE  /\ stack'[t] \in Seq(FrameOf) /\ Under(t, stack[t])
              /\ Replaced(stack[t], stack'[t], f)
              /\ stack[t][Len(stack[t])].at = "wait" /\ stack[t][Len(stack[t])].node = n
  BY <1>4 DEF Ends
<1>11. \A t \in Threads \ ({n} \cup waits) : stack'[t] = stack[t]
  BY <1>4 DEF Ends
<1>12. node' \in [Names -> Node] /\
       \A m \in Names :
         /\ node'[m].queue = node[m].queue
         /\ node'[m].token = node[m].token /\ node'[m].visit = node[m].visit
         /\ node'[m].isActive <=> node[m].isActive
         /\ m # n => node'[m].thread = node[m].thread
         /\ node'[m].done = node[m].done
  BY <1>4 DEF Ends
<1>13. Typed'
  <2>1. stack' \in [Threads -> Seq(FrameOf)]
    <3>1. <<>> \in Seq(FrameOf)
      OBVIOUS
    <3>2. \A t \in Threads : stack'[t] \in Seq(FrameOf)
      BY <1>3, <1>9, <1>10, <1>11, <3>1
    <3>3. stack' = [t \in Threads |-> stack'[t]]
      BY <1>8
    <3> QED
      BY <3>2, <3>3
  <2>2. ASSUME NEW t \in Threads PROVE Shape(t, stack'[t])
    <3>1. CASE t = n
      BY <1>9, <3>1 DEF Shape
    <3>2. CASE t \in waits
      BY <1>5, <1>10, <3>2, ShapeReplaced DEF Halting
    <3>3. CASE t \notin {n} \cup waits
      BY <1>3, <1>11, <3>3
    <3> QED
      BY <3>1, <3>2, <3>3
  <2>3. HeldOnce'
    BY <1>1, <1>12 DEF Typed, HeldOnce
  <2> QED
    BY <1>1, <1>2, <1>12, <2>1, <2>2, <2>3 DEF Typed
<1>14. \A t \in Threads \ {n} : Len(stack'[t]) = Len(stack[t])
  BY <1>10, <1>11 DEF Replaced
<1>15. \A t \in Threads : AtWork(t)' <=> AtWork(t)
  <2>1. ~AtWork(n) /\ ~AtWork(n)'
    BY <1>9 DEF AtWork
  <2> QED
    BY <1>14, <2>1 DEF AtWork
<1>16. Alone'
  BY <1>2, <1>15 DEF IInv, Alone, Serial
<1>17. \A t \in waits : Between(stack'[t]) <=> Between(stack[t])
  BY <1>5, <1>10, BetweenReplaced DEF Stopped, Halting
<1>18. Agreement'
  <2>1. ASSUME Serial, {"again", "stale"} \cap odd = {}, NEW t \in Threads,
               \A v \in Threads \ {t} : ~AtWork(v)'
        PROVE  Agrees(stack[t])'
    <3>1. AgreesWith(stack[t], node, active)
      BY <1>15, <2>1 DEF IInv, Agreement, Agrees
    <3>2. AgreesWith(stack'[t], node, active)
      <4>1. CASE t = n
        BY <1>9, <3>1, <4>1, RestingAgree
      <4>2. CASE t \in waits
        BY <1>5, <1>10, <1>17, <3>1, <4>2, AgreeReplaced DEF Pending, Late
      <4>3. CASE t \notin {n} \cup waits
        BY <1>11, <3>1, <4>3
      <4> QED
        BY <4>1, <4>2, <4>3
    <3> QED
      BY <1>2, <1>12, <3>2, AgreeNodes DEF Agrees
  <2> QED
    BY <1>2, <2>1 DEF IInv, Agreement, Serial
<1>19. ASSUME NEW t \in Threads, NEW m, NEW places,
              places \cap ({"action", "ending"} \cup Halting) = {}, Has(stack[t], m, places)
       PROVE  Has(stack'[t], m, places)
  <2>1. CASE t = n
    BY <1>9, <1>19, <2>1, RestingHas
  <2>2. CASE t \in waits
    <3>1. ~Is(stack[t][Len(stack[t])], m, places)
      BY <1>10, <1>19, <2>2 DEF Is, Halting
    <3>2. Len(stack[t]) \in Nat \ {0}
      BY <1>10, <2>2 DEF Under
    <3> QED
      BY <1>10, <1>19, <2>2, <3>1, <3>2, HasIs, HasReplaced
  <2>3. CASE t \notin {n} \cup waits
    BY <1>11, <1>19, <2>3
  <2> QED
    BY <2>1, <2>2, <2>3
<1>20. ASSUME NEW t \in Threads \ {n}, NEW place, place \in {"timeout", "ending"}
       PROVE  At(t, place)' <=> At(t, place) /\ To(t)' = To(t)
  <2>1. CASE t \in waits
    <3>1. Len(stack'[t]) \in Nat \ {0} /\ stack'[t][Len(stack'[t])].at = "unnotify"
      BY <1>5, <1>10, <2>1 DEF Replaced, Under
    <3>2. ~At(t, place)'
      BY <1>20, <3>1 DEF At, Last
    <3>3. ~At(t, place)
      BY <1>6, <1>20, <2>1 DEF At
    <3> QED
      BY <3>2, <3>3
  <2>2. CASE t \notin waits
    BY <1>11, <2>2 DEF At, To
  <2> QED
    BY <2>1, <2>2
<1>21. Visits'
  <2>1. \A m \in Names : \A e \in node'[m].queue : e.token <= node'[m].token
    BY <1>12 DEF IInv, Visits
  <2>2. \A m \in Names : \A e : OfThisVisit(m, e)' <=> OfThisVisit(m, e)
    BY <1>12 DEF OfThisVisit
  <2>3. ASSUME Serial, NEW m \in Names, NEW e \in node'[m].queue, e.kind \in {"held", "loose"}
        PROVE  OfThisVisit(m, e)' \/ \E t \in Threads : Has(stack'[t], m, Unset)
    <3>1. OfThisVisit(m, e) \/ \E t \in Threads : Has(stack[t], m, Unset)
      BY <1>12, <2>3 DEF IInv, Visits, VisitsOf
    <3>2. Unset \cap ({"action", "ending"} \cup Halting) = {}
      BY DEF Unset, Halting
    <3> QED
      BY <1>19, <2>2, <3>1, <3>2
  <2>4. ASSUME Serial, NEW m \in Names, At(m, "timeout")'
        PROVE  OfThisVisit(m, To(m))'
    <3>1. m # n
      BY <1>9, <2>4 DEF At
    <3>2. m \in Threads \ {n}
      BY <3>1 DEF Threads
    <3>3. At(m, "timeout") /\ To(m)' = To(m)
      BY <1>20, <2>4, <3>2
    <3>4. OfThisVisit(m, To(m))
      BY <2>4, <3>3 DEF IInv, Visits, VisitsOf
    <3> QED
      BY <2>2, <3>3, <3>4 DEF OfThisVisit
  <2> QED
    BY <1>2, <2>1, <2>3, <2>4 DEF Visits, VisitsOf, Serial
<1>22. ASSUME NEW m \in Names PROVE HasThread(m)'
  <2>1. CASE m = n
    BY <1>9, <2>1 DEF HasThread
  <2>2. CASE m # n
    <3>1. m \in Threads \ {n} /\ HasThread(m)
      BY <1>1, <2>2 DEF Threads, Defined
    <3>2. stack'[m] # <<>> => stack[m] # <<>>
      BY <1>6, <1>11, <3>1 DEF At
    <3> QED
      BY <1>12, <2>2, <3>1, <3>2 DEF HasThread
  <2> QED
    BY <2>1, <2>2
<1>23. ASSUME NEW m \in Names PROVE Serves(m)' <=> Serves(m)
  <2>1. CASE m = n
    <3>1. node'[n].thread # "runs"
      BY <1>3, <1>8 DEF Node
    <3> QED
      BY <1>1, <2>1, <3>1 DEF Serves
  <2>2. CASE m # n
    <3>1. m \in Threads \ {n}
      BY <2>2 DEF Threads
    <3>2. At(m, "ending")' => At(m, "ending")
      BY <1>20, <3>1
    <3>3. At(m, "ending") => At(m, "ending")'
      BY <1>6, <1>11, <3>1 DEF At
    <3> QED
      BY <1>12, <2>2, <3>2, <3>3 DEF Serves
  <2> QED
    BY <2>1, <2>2
<1>24. ASSUME odd = {}, NEW m \in Names PROVE DefinedFor(m)'
  <2>1. DefinedFor(m)
    BY <1>24 DEF IInv, Defined
  <2>2. node'[m].thread = "doomed" => node'[m].done
    <3>1. node'[n].thread # "doomed"
      BY <1>3, <1>8 DEF Node
    <3> QED
      BY <1>12, <2>1, <3>1 DEF DefinedFor
  <2>3. Unstarted \cap ({"action", "ending"} \cup Halting) = {}
    BY DEF Unstarted, Halting
  <2>4. (\E t \in Threads : Has(stack[t], m, Unstarted)) =>
           \E t \in Threads : Has(stack'[t], m, Unstarted)
    BY <1>19, <2>3
  <2> QED
    BY <1>12, <1>23, <2>1, <2>2, <2>4 DEF DefinedFor
<1>25. ASSUME odd = {}, NEW t \in Threads PROVE DefinedAt(t)'
  <2>1. DefinedAt(t)
    BY <1>25 DEF IInv, Defined
  <2>2. CASE t = n
    BY <1>9, <2>2 DEF DefinedAt
  <2>3. CASE t \in waits
    <3>1. Len(stack'[t]) = Len(stack[t]) /\ Len(stack[t]) \in Nat \ {0}
      BY <1>10, <2>3 DEF Replaced, Under
    <3>2. ASSUME NEW i \in 1 .. Len(stack[t]) - 1
          PROVE  Halted(stack[t][i])' /\ (stack'[t][i].at = "process" => i = 1)
      <4>1. stack'[t][i] = stack[t][i] /\ stack[t][i].at \in Callers
        BY <1>10, <2>3, <3>2 DEF Replaced, Under, Shape
      <4> QED
        BY <4>1 DEF Halted, Halting, Callers
    <3>3. stack'[t][Len(stack[t])] = f
      BY <1>10, <2>3 DEF Replaced
    <3>4. ~node[n].isActive
      <4>1. Len(stack[t]) \in 1 .. Len(stack[t])
        BY <3>1
      <4>2. Halted(stack[t][Len(stack[t])])
        BY <2>1, <4>1 DEF DefinedAt
      <4> QED
        BY <1>10, <2>3, <4>2 DEF Halted, Halting
    <3>5. Halted(stack[t][Len(stack[t])])' /\ f.at # "process"
      BY <1>5, <1>12, <3>1, <3>3, <3>4 DEF Halted
    <3> QED
      BY <3>1, <3>2, <3>3, <3>5 DEF DefinedAt
  <2>4. CASE t \notin {n} \cup waits
    <3>1. stack'[t] = stack[t]
      BY <1>11, <2>4
    <3>2. ASSUME NEW i \in 1 .. Len(stack[t]) PROVE Halted(stack[t][i])'
      <4>1. PICK g \in FrameOf : g = stack[t][i]
        BY <1>1, StackOf
      <4>2. Halted(g) /\ g.node \in Names
        BY <2>1, <4>1 DEF DefinedAt, FrameOf
      <4>3. g.at = "join" /\ g.node = n => node'[n].thread = "over"
        <5>1. ASSUME g.at = "join", g.node = n PROVE AtWork(t)
          BY <1>1, <4>1, <5>1, RestingStack DEF Resting
        <5>2. ASSUME g.at = "join", g.node = n PROVE waits = {}
          <6>1. \A w \in waits : w \in Threads /\ AtWork(w)
            BY <1>1, <1>6, WorkingStack
          <6> QED
            BY <1>25, <2>4, <5>1, <5>2, <6>1 DEF IInv, Alone, Serial
        <5>3. g.at = "join" /\ g.node = n => node[n].thread # "doomed"
          BY <4>2 DEF Halted
        <5> QED
          BY <1>3, <1>8, <5>2, <5>3 DEF Node
      <4>4. Halted(g)'
        BY <1>12, <1>23, <4>2, <4>3 DEF Halted
      <4> QED
        BY <3>1, <4>1, <4>4 DEF Halted
    <3> QED
      BY <2>1, <3>1, <3>2 DEF DefinedAt
  <2> QED
    BY <2>2, <2>3, <2>4
<1>26. Defined'
  BY <1>1, <1>2, <1>22, <1>24, <1>25 DEF Defined
<1> QED
  BY <1>13, <1>16, <1>18, <1>21, <1>26 DEF IInv

-------------------------------------------------------------------------------
(***************************************************************************)
(* What changes a node, while no thread is at work: r is the node then.       *)
(***************************************************************************)
LEMMA EditKeeps ==
  ASSUME IInv, NEW n \in Names, NEW r \in Node, NEW oddity \in SUBSET Oddities,
         Edits(n, r, oddity),
         states' \subseteq Names, ub' \in BOOLEAN, ub' /\ ~ub => oddity # {},
         active' = active \/ (active' = Gone /\ "removed" \in oddity),
         r.isActive = node[n].isActive \/ "removed" \in oddity,
         Once(r.queue), \A e \in r.queue : e.token <= r.token,
         Serial /\ "removed" \notin oddity =>
           \A e \in r.queue : e.kind \in {"held", "loose"} =>
             (r.isActive /\ e.token = r.token => e.visit = r.visit),
         \/ r.thread = node[n].thread /\ r.done = node[n].done
         \/ oddity # {} /\ stack[n] = <<>>
  PROVE  IInv'
<1>1. /\ \A t \in Threads : ~AtWork(t)
      /\ UNCHANGED stack /\ node' = [node EXCEPT ![n] = r]
      /\ odd' = odd \cup oddity /\ ops' = ops + 1 /\ ops < MaxOps
  BY DEF Edits
<1>2. Typed /\ node \in [Names -> Node] /\ HeldOnce
  BY DEF IInv, Typed
<1>3. node' \in [Names -> Node] /\ node'[n] = r /\ \A m \in Names \ {n} : node'[m] = node[m]
  BY <1>1, <1>2
<1>4. Typed'
  <2>1. HeldOnce'
    BY <1>2, <1>3 DEF HeldOnce, Once
  <2>2. ops' \in 0 .. MaxOps
    BY <1>1, <1>2, StateMachineAssumption DEF Typed
  <2> QED
    BY <1>1, <1>2, <1>3, <2>1, <2>2 DEF Typed
<1>5. \A t \in Threads : Resting(stack[t]) /\ ~AtWork(t)'
  BY <1>1, <1>2, RestingStack DEF AtWork
<1>6. Alone'
  BY <1>5 DEF Alone
<1>7. ASSUME Serial' PROVE Serial /\ "removed" \notin oddity
  BY <1>1, <1>7 DEF Serial
<1>8. Agreement'
  <2>1. ASSUME Serial', {"again", "stale"} \cap odd' = {}, NEW t \in Threads
        PROVE  Agrees(stack[t])'
    <3>1. AgreesWith(stack[t], node, active)
      BY <1>1, <1>7, <2>1 DEF IInv, Agreement, Agrees
    <3>2. \A m \in Names : node'[m].isActive <=> node[m].isActive
      BY <1>3, <1>7, <2>1
    <3> QED
      BY <1>1, <1>7, <2>1, <3>1, <3>2, AgreeNodes DEF Agrees
  <2> QED
    BY <1>7, <2>1 DEF IInv, Agreement
<1>9. Visits'
  <2>1. \A m \in Names : \A e \in node'[m].queue : e.token <= node'[m].token
    BY <1>3 DEF IInv, Visits
  <2>2. ASSUME Serial', NEW m \in Names, NEW e \in node'[m].queue, e.kind \in {"held", "loose"}
        PROVE  OfThisVisit(m, e)'
    <3>1. CASE m = n
      BY <1>3, <1>7, <2>2, <3>1 DEF OfThisVisit
    <3>2. CASE m # n
      <4>1. \A t \in Threads : ~Has(stack[t], m, Unset)
        BY <1>5, RestingHas DEF Unset
      <4>2. OfThisVisit(m, e)
        BY <1>3, <1>7, <2>2, <3>2, <4>1 DEF IInv, Visits, VisitsOf
      <4> QED
        BY <1>3, <3>2, <4>2 DEF OfThisVisit
    <3> QED
      BY <3>1, <3>2
  <2>3. ASSUME NEW m \in Names, At(m, "timeout")' PROVE FALSE
    <3>1. m \in Threads /\ At(m, "timeout")
      BY <1>1, <2>3 DEF Threads, At
    <3>2. AtWork(m)
      BY <1>2, <3>1, WorkingStack
    <3> QED
      BY <1>1, <3>1, <3>2
  <2> QED
    BY <2>1, <2>2, <2>3 DEF Visits, VisitsOf
<1>10. ASSUME NEW m \in Names PROVE HasThread(m)'
  BY <1>1, <1>3 DEF IInv, Defined, HasThread
<1>11. ASSUME odd' = {} PROVE odd = {} /\ oddity = {} /\ ~ub'
  BY <1>1, <1>11 DEF IInv, Defined
<1>12. ASSUME odd' = {}, NEW m \in Names PROVE DefinedFor(m)'
  <2>1. DefinedFor(m) /\ \A t \in Threads : ~Has(stack[t], m, Unstarted)
    BY <1>5, <1>11, <1>12, RestingHas DEF IInv, Defined, Unstarted
  <2>2. /\ node'[m].thread = node[m].thread /\ node'[m].done = node[m].done
        /\ node'[m].isActive <=> node[m].isActive
    BY <1>3, <1>11, <1>12
  <2>3. Serves(m)' <=> Serves(m)
    BY <1>1, <2>2 DEF Serves, At
  <2> QED
    BY <2>1, <2>2, <2>3 DEF DefinedFor
<1>13. \A t \in Threads : DefinedAt(t)'
  BY <1>1, <1>5 DEF Resting, DefinedAt, Halted, Halting
<1>14. Defined'
  BY <1>10, <1>11, <1>12, <1>13 DEF Defined
<1> QED
  BY <1>4, <1>6, <1>8, <1>9, <1>14 DEF IInv

(* At rest, what is due in a queue is due in this visit. *)
LEMMA DueAtRest ==
  ASSUME IInv, \A t \in Threads : ~AtWork(t), NEW n \in Names
  PROVE  /\ \A e \in node[n].queue : e \in TimerEvent /\ e.token <= node[n].token
         /\ Serial => \A e \in node[n].queue : e.kind \in {"held", "loose"} =>
              (node[n].isActive /\ e.token = node[n].token => e.visit = node[n].visit)
<1>1. Typed /\ Visits
  BY DEF IInv
<1>2. \A t \in Threads : ~Has(stack[t], n, Unset)
  BY <1>1, RestingStack, RestingHas DEF Unset
<1>3. node[n].queue \subseteq TimerEvent
  BY <1>1 DEF Typed, Node
<1> QED
  BY <1>1, <1>2, <1>3 DEF Visits, VisitsOf, OfThisVisit

LEMMA TransKeeps ==
  ASSUME IInv, NEW n \in Names, NEW trans \in [Events -> Names \cup {Nobody}], NEW r,
         r = [node[n] EXCEPT !.trans = trans], Edits(n, r, {}),
         states' \subseteq Names, UNCHANGED <<active, ub>>
  PROVE  IInv'
<1>1. Typed /\ \A t \in Threads : ~AtWork(t)
  BY DEF IInv, Edits
<1>2. node[n] \in Node /\ ub \in BOOLEAN
  BY <1>1 DEF Typed
<1>3. /\ r \in Node
      /\ r.queue = node[n].queue /\ r.token = node[n].token /\ r.visit = node[n].visit
      /\ r.isActive = node[n].isActive /\ r.thread = node[n].thread /\ r.done = node[n].done
  BY <1>2 DEF Node
<1>4. Once(r.queue)
  BY <1>1, <1>3 DEF Typed, HeldOnce, Once
<1>5. /\ \A e \in r.queue : e.token <= r.token
      /\ Serial => \A e \in r.queue : e.kind \in {"held", "loose"} =>
           (r.isActive /\ e.token = r.token => e.visit = r.visit)
  BY <1>1, <1>3, DueAtRest
<1>6. {} \in SUBSET Oddities
  OBVIOUS
<1> QED
  BY <1>2, <1>3, <1>4, <1>5, <1>6, EditKeeps

LEMMA AddTransitionKeeps ==
  ASSUME IInv, NEW n \in Names, NEW e \in Events, NEW dest \in Names, AddTransition(n, e, dest)
  PROVE  IInv'
<1>1. states \subseteq Names /\ node[n] \in Node
  BY DEF IInv, Typed
<1>2. PICK trans : trans = [node[n].trans EXCEPT ![e] = IF @ = Nobody THEN dest ELSE @]
  OBVIOUS
<1>3. trans \in [Events -> Names \cup {Nobody}]
  BY <1>1, <1>2 DEF Node
<1>4. PICK r : r = [node[n] EXCEPT !.trans = trans]
  OBVIOUS
<1>5. Edits(n, r, {}) /\ states' \subseteq Names /\ UNCHANGED <<active, ub>>
  BY <1>1, <1>2, <1>4 DEF AddTransition
<1> QED
  BY <1>3, <1>4, <1>5, TransKeeps

LEMMA RemoveTransitionKeeps ==
  ASSUME IInv, NEW n \in Names, NEW e \in Events, RemoveTransition(n, e)
  PROVE  IInv'
<1>1. states \subseteq Names /\ node[n] \in Node
  BY DEF IInv, Typed
<1>2. PICK trans : trans = [node[n].trans EXCEPT ![e] = Nobody]
  OBVIOUS
<1>3. trans \in [Events -> Names \cup {Nobody}]
  BY <1>1, <1>2 DEF Node
<1>4. PICK r : r = [node[n] EXCEPT !.trans = trans]
  OBVIOUS
<1>5. Edits(n, r, {}) /\ states' \subseteq Names /\ UNCHANGED <<active, ub>>
  BY <1>1, <1>2, <1>4 DEF RemoveTransition
<1> QED
  BY <1>3, <1>4, <1>5, TransKeeps

(* Another queue, of events that were due, are not, or are scheduled now. *)
LEMMA RequeueKeeps ==
  ASSUME IInv, NEW n \in Names, NEW r \in Node, NEW oddity \in SUBSET Oddities,
         Edits(n, r, oddity), states' \subseteq Names, UNCHANGED <<active, ub>>,
         r.token = node[n].token, r.visit = node[n].visit,
         r.thread = node[n].thread, r.done = node[n].done,
         r.isActive = node[n].isActive \/ "removed" \in oddity,
         Once(r.queue),
         \A e \in r.queue :
           \/ e.token = node[n].token /\ e.visit = node[n].visit
           \/ e.token = 0 /\ e.kind = "plain"
           \/ \E d \in node[n].queue :
                /\ d.token = e.token /\ d.visit = e.visit
                /\ e.kind \in {"held", "loose"} => d.kind \in {"held", "loose"}
  PROVE  IInv'
<1>1. Typed /\ (\A t \in Threads : ~AtWork(t)) /\ ub \in BOOLEAN
  BY DEF IInv, Edits, Typed
<1>2. node[n].token \in Nat
  BY <1>1 DEF Typed, Node
<1>3. /\ \A e \in node[n].queue : e \in TimerEvent /\ e.token <= node[n].token
      /\ Serial => \A e \in node[n].queue : e.kind \in {"held", "loose"} =>
           (node[n].isActive /\ e.token = node[n].token => e.visit = node[n].visit)
  BY <1>1, DueAtRest
<1>4. \A e \in r.queue : e.token <= r.token
  BY <1>2, <1>3
<1>5. ASSUME Serial, "removed" \notin oddity, NEW e \in r.queue, e.kind \in {"held", "loose"},
             r.isActive, e.token = r.token
      PROVE  e.visit = r.visit
  <2>1. node[n].isActive
    BY <1>5
  <2>2. CASE e.token = node[n].token /\ e.visit = node[n].visit
    BY <2>2
  <2>3. CASE \E d \in node[n].queue :
               /\ d.token = e.token /\ d.visit = e.visit
               /\ e.kind \in {"held", "loose"} => d.kind \in {"held", "loose"}
    <3>1. PICK d \in node[n].queue :
            d.token = e.token /\ d.visit = e.visit /\ d.kind \in {"held", "loose"}
      BY <1>5, <2>3
    <3> QED
      BY <1>3, <1>5, <2>1, <3>1
  <2> QED
    BY <1>5, <2>2, <2>3
<1> QED
  BY <1>1, <1>4, <1>5, EditKeeps

LEMMA AddTimeoutKeeps ==
  ASSUME IInv, NEW n \in Names, NEW dest \in Names \cup {Nobody}, NEW sameDelay \in BOOLEAN,
         AddTimeout(n, dest, sameDelay)
  PROVE  IInv'
<1>1. Typed /\ states \subseteq Names /\ node[n] \in Node /\ node[n].token \in Nat
  BY DEF IInv, Typed, Node
<1>2. PICK old \in SUBSET TimerEvent : old = node[n].queue
  BY <1>1 DEF Node
<1>3. PICK kept \in SUBSET TimerEvent : kept = IF sameDelay THEN node[n].queue ELSE Killed(n)
  BY <1>1, <1>2, KilledIs
<1>4. PICK q \in SUBSET TimerEvent : q = Scheduled(n, node[n].token)
  BY <1>1, ScheduledIs
<1>5. PICK p \in SUBSET TimerEvent : p = IF dest = Nobody THEN kept ELSE q \cup (kept \ old)
  OBVIOUS
<1>6. Once(old) /\ Since(old, old) /\ Once(Killed(n)) /\ Since(Killed(n), old)
      /\ \A e \in Killed(n) : e.kind # "held"
  BY <1>1, <1>2, KilledIs DEF Once, Since, Typed, HeldOnce
<1>7. Once(kept) /\ Since(kept, old) /\ \A e \in kept \ old : e.kind # "held"
  BY <1>2, <1>3, <1>6
<1>8. Once(q)
  BY <1>1, <1>4, ScheduledIs
<1>9. ASSUME NEW e \in q
      PROVE  \/ e.token = node[n].token /\ e.visit = node[n].visit
             \/ \E d \in old :
                  /\ d.token = e.token /\ d.visit = e.visit
                  /\ e.kind \in {"held", "loose"} => d.kind \in {"held", "loose"}
  BY <1>1, <1>2, <1>4, <1>9, ScheduledIs
<1>10. Once(p)
  BY <1>5, <1>7, <1>8 DEF Once
<1>11. ASSUME NEW e \in p
       PROVE  \/ e.token = node[n].token /\ e.visit = node[n].visit
              \/ \E d \in node[n].queue :
                   /\ d.token = e.token /\ d.visit = e.visit
                   /\ e.kind \in {"held", "loose"} => d.kind \in {"held", "loose"}
  <2>1. CASE e \in kept
    BY <1>2, <1>7, <2>1 DEF Since
  <2>2. CASE e \in q
    BY <1>2, <1>9, <2>2
  <2> QED
    BY <1>5, <2>1, <2>2
<1>12. PICK r : r = [node[n] EXCEPT !.hasTimeout = dest # Nobody, !.dest = dest, !.queue = p]
  OBVIOUS
<1>13. /\ r \in Node /\ r.queue = p
       /\ r.token = node[n].token /\ r.visit = node[n].visit
       /\ r.isActive = node[n].isActive /\ r.thread = node[n].thread /\ r.done = node[n].done
  <2>1. PICK o \in Node : o = node[n]
    BY <1>1
  <2>2. PICK has \in BOOLEAN : has = (dest # Nobody)
    OBVIOUS
  <2>3. PICK v \in Node : v = [o EXCEPT !.hasTimeout = has]
    <3>1. [o EXCEPT !.hasTimeout = has] \in Node
      BY DEF Node
    <3> QED
      BY <3>1
  <2>4. PICK w \in Node : w = [v EXCEPT !.dest = dest]
    <3>1. [v EXCEPT !.dest = dest] \in Node
      BY DEF Node
    <3> QED
      BY <3>1
  <2>5. r = [w EXCEPT !.queue = p]
    BY <1>12, <2>1, <2>2, <2>3, <2>4
  <2>6. r \in Node
    BY <2>5 DEF Node
  <2>7. /\ v.token = o.token /\ v.visit = o.visit
        /\ v.isActive = o.isActive /\ v.thread = o.thread /\ v.done = o.done
    BY <2>3 DEF Node
  <2>8. /\ w.token = v.token /\ w.visit = v.visit
        /\ w.isActive = v.isActive /\ w.thread = v.thread /\ w.done = v.done
    BY <2>4 DEF Node
  <2>9. /\ r.queue = p /\ r.token = w.token /\ r.visit = w.visit
        /\ r.isActive = w.isActive /\ r.thread = w.thread /\ r.done = w.done
    BY <2>5 DEF Node
  <2> QED
    BY <2>1, <2>6, <2>7, <2>8, <2>9
<1>14. PICK oddity \in SUBSET Oddities : oddity = IF node[n].isActive THEN {"late"} ELSE {}
  BY DEF Oddities
<1>15. Edits(n, r, oddity) /\ states' \subseteq Names /\ UNCHANGED <<active, ub>>
  BY <1>1, <1>2, <1>3, <1>4, <1>5, <1>12, <1>14 DEF AddTimeout
<1> QED
  BY <1>10, <1>11, <1>13, <1>15, RequeueKeeps

LEMMA RemoveTimeoutKeeps ==
  ASSUME IInv, NEW n \in Names, RemoveTimeout(n)
  PROVE  IInv'
<1>1. Typed /\ states \subseteq Names /\ node[n] \in Node
  BY DEF IInv, Typed
<1>2. PICK q \in SUBSET TimerEvent : q = Killed(n)
  BY <1>1, KilledIs
<1>3. Once(q) /\ Since(q, node[n].queue)
  BY <1>1, <1>2, KilledIs
<1>4. PICK r : r = [node[n] EXCEPT !.isActive = FALSE, !.hasTimeout = FALSE, !.queue = q]
  OBVIOUS
<1>5. /\ r \in Node /\ r.queue = q
      /\ r.token = node[n].token /\ r.visit = node[n].visit
      /\ ~r.isActive /\ r.isActive \in BOOLEAN
      /\ r.thread = node[n].thread /\ r.done = node[n].done
  BY <1>1, <1>4 DEF Node
<1>6. PICK oddity \in SUBSET Oddities : oddity = IF node[n].isActive THEN {"removed"} ELSE {}
  BY DEF Oddities
<1>7. Edits(n, r, oddity) /\ states' \subseteq Names /\ UNCHANGED <<active, ub>>
  BY <1>1, <1>2, <1>4, <1>6 DEF RemoveTimeout
<1>8. r.isActive = node[n].isActive \/ "removed" \in oddity
  BY <1>1, <1>5, <1>6 DEF Node
<1> QED
  BY <1>3, <1>5, <1>7, <1>8, RequeueKeeps DEF Since

LEMMA AddTimeoutActionKeeps ==
  ASSUME IInv, NEW n \in Names, AddTimeoutAction(n)
  PROVE  IInv'
<1>1. Typed /\ states \subseteq Names /\ node[n] \in Node
  BY DEF IInv, Typed
<1>2. PICK old \in SUBSET TimerEvent : old = node[n].queue
  BY <1>1 DEF Node
<1>3. PICK new \in TimerEvent : new = [token |-> 0, kind |-> "plain", visit |-> 0]
  BY DEF TimerEvent
<1>4. new.token = 0 /\ new.kind = "plain"
  BY <1>3
<1>5. PICK q \in SUBSET TimerEvent : q = old \cup {new}
  OBVIOUS
<1>6. Once(q)
  <2>1. Once(old)
    BY <1>1, <1>2 DEF Once, Typed, HeldOnce
  <2> QED
    BY <1>4, <1>5, <2>1 DEF Once
<1>7. PICK r : r = [node[n] EXCEPT !.queue = q]
  OBVIOUS
<1>8. /\ r \in Node /\ r.queue = q
      /\ r.token = node[n].token /\ r.visit = node[n].visit
      /\ r.isActive = node[n].isActive /\ r.thread = node[n].thread /\ r.done = node[n].done
  BY <1>1, <1>7 DEF Node
<1>9. Edits(n, r, {}) /\ states' \subseteq Names /\ UNCHANGED <<active, ub>>
  BY <1>1, <1>2, <1>3, <1>5, <1>7 DEF AddTimeoutAction
<1> QED
  BY <1>2, <1>4, <1>5, <1>6, <1>8, <1>9, RequeueKeeps

LEMMA RemoveTimeoutActionKeeps ==
  ASSUME IInv, NEW n \in Names, RemoveTimeoutAction(n)
  PROVE  IInv'
<1>1. Typed /\ states \subseteq Names /\ node[n] \in Node
  BY DEF IInv, Typed
<1>2. PICK old \in SUBSET TimerEvent : old = node[n].queue
  BY <1>1 DEF Node
<1>3. PICK q : q = {[e EXCEPT !.kind = IF @ = "plain" THEN "dead" ELSE @] : e \in old}
  OBVIOUS
<1>4. ASSUME NEW e \in q
      PROVE  /\ e \in TimerEvent
             /\ \E d \in old : /\ d.token = e.token /\ d.visit = e.visit
                               /\ e.kind \in {"held", "loose"} => d.kind \in {"held", "loose"}
                               /\ e.kind = "held" => e = d
  <2>1. PICK d \in old : e = [d EXCEPT !.kind = IF @ = "plain" THEN "dead" ELSE @]
    BY <1>3
  <2>2. d \in TimerEvent
    OBVIOUS
  <2>3. e \in TimerEvent /\ e.token = d.token /\ e.visit = d.visit
        /\ e.kind = IF d.kind = "plain" THEN "dead" ELSE d.kind
    BY <2>1, <2>2 DEF TimerEvent
  <2>4. e.kind = "held" => e = d
    BY <2>2, <2>3 DEF TimerEvent
  <2> QED
    BY <2>3, <2>4
<1>5. Once(q)
  <2>1. Once(old)
    BY <1>1, <1>2 DEF Once, Typed, HeldOnce
  <2> QED
    BY <1>4, <2>1 DEF Once
<1>6. PICK r : r = [node[n] EXCEPT !.queue = q]
  OBVIOUS
<1>7. /\ r \in Node /\ r.queue = q
      /\ r.token = node[n].token /\ r.visit = node[n].visit
      /\ r.isActive = node[n].isActive /\ r.thread = node[n].thread /\ r.done = node[n].done
  <2>1. q \in SUBSET TimerEvent
    BY <1>4
  <2> QED
    BY <1>1, <1>6, <2>1 DEF Node
<1>8. Edits(n, r, {}) /\ states' \subseteq Names /\ UNCHANGED <<active, ub>>
  BY <1>1, <1>2, <1>3, <1>6 DEF RemoveTimeoutAction
<1> QED
  BY <1>2, <1>4, <1>5, <1>7, <1>8, RequeueKeeps

LEMMA RemoveStateKeeps ==
  ASSUME IInv, NEW n \in Names, RemoveState(n)
  PROVE  IInv'
<1>1. Typed /\ states \subseteq Names /\ n \in Threads
  BY DEF IInv, Typed, Threads
<1>2. PICK r : r = Fresh([e \in Events |-> Nobody], Nobody)
  OBVIOUS
<1>3. r \in Node /\ r.queue = {}
  BY <1>2 DEF Node, Fresh
<1>4. PICK oddity \in SUBSET Oddities : oddity = {"removed"}
  BY DEF Oddities
<1>5. Edits(n, r, oddity) /\ states' \subseteq Names
  BY <1>1, <1>2, <1>4 DEF RemoveState
<1>6. ub' \in BOOLEAN /\ active' \in {active, Gone}
  <2>2. active' = IF active = n THEN Gone ELSE active
    BY DEF RemoveState
  <2>3. ub' \in BOOLEAN
    <3>1. PICK b \in BOOLEAN : b <=> node[n].thread \in {"none", "doomed"}
      OBVIOUS
    <3>2. ub' = FALSE \/ ub' = (node[n].thread \in {"none", "doomed"})
      BY DEF RemoveState
    <3>3. ASSUME ub' = (node[n].thread \in {"none", "doomed"}) PROVE ub' = b
      BY <3>1, <3>3
    <3> QED
      BY <3>1, <3>2, <3>3
  <2>4. active' \in {active, Gone}
    BY <2>2
  <2> QED
    BY <2>3, <2>4
<1>7. stack[n] = <<>>
  <2>1. Resting(stack[n]) /\ Shape(n, stack[n]) /\ Len(stack[n]) \in Nat
    BY <1>1, <1>5, RestingStack, StackOf DEF Edits
  <2>2. ASSUME Len(stack[n]) = 1 PROVE FALSE
    <3>1. stack[n][1].node = n
      BY <2>1, <2>2 DEF Resting, Shape, Fits
    <3>2. 1 \in DOMAIN stack[n]
      BY <1>1, <2>2, LenProperties DEF Typed
    <3> QED
      BY <1>1, <3>1, <3>2 DEF RemoveState
  <2> QED
    BY <1>1, <2>1, <2>2, StackOf DEF Resting
<1>8. Once(r.queue)
  BY <1>3 DEF Once
<1> QED
  BY <1>3, <1>4, <1>5, <1>6, <1>7, <1>8, EditKeeps

-------------------------------------------------------------------------------
LEMMA InitKeeps ==
  ASSUME Init
  PROVE  IInv
<1>1. PICK m \in Machines : node = [n \in Names |-> Fresh(m.trans[n], m.dest[n])]
  BY DEF Init
<1>2. /\ states = Names /\ active = Nobody /\ ub = FALSE /\ ops = 0 /\ odd = {}
      /\ stack = [t \in Threads |-> <<>>]
  BY DEF Init
<1>3. ASSUME NEW n \in Names
      PROVE  /\ node[n] \in Node /\ ~node[n].isActive /\ node[n].token = 0 /\ node[n].visit = 0
             /\ node[n].thread = "none"
             /\ node[n].queue \in SUBSET {[token |-> 0, kind |-> "held", visit |-> 0]}
  <2>1. m \in [trans : [Names -> [Events -> Names \cup {Nobody}]],
               dest : [Names -> Names \cup {Nobody}]]
    BY StateMachineAssumption
  <2>2. PICK trans \in [Events -> Names \cup {Nobody}] : trans = m.trans[n]
    BY <2>1
  <2>3. PICK dest \in Names \cup {Nobody} : dest = m.dest[n]
    BY <2>1
  <2>4. PICK e \in TimerEvent : e = [token |-> 0, kind |-> "held", visit |-> 0]
    BY DEF TimerEvent
  <2>5. PICK q \in SUBSET TimerEvent : q = IF dest = Nobody THEN {} ELSE {e}
    OBVIOUS
  <2>6. PICK has \in BOOLEAN : has = (dest # Nobody)
    OBVIOUS
  <2>7. node[n] = [isActive |-> FALSE, trans |-> trans, hasTimeout |-> has, dest |-> dest,
                   token |-> 0, queue |-> q, done |-> FALSE, thread |-> "none", visit |-> 0]
    BY <1>1, <2>2, <2>3, <2>4, <2>5, <2>6 DEF Fresh
  <2>8. node[n] \in Node
    BY <2>7 DEF Node
  <2> QED
    BY <2>4, <2>5, <2>7, <2>8
<1>4. ASSUME NEW t \in Threads
      PROVE  /\ stack[t] = <<>> /\ Len(stack[t]) = 0 /\ ~AtWork(t)
             /\ \A n, places : ~Has(stack[t], n, places)
  <2>1. stack[t] = <<>>
    BY <1>2
  <2>2. Len(stack[t]) = 0
    BY <2>1
  <2>3. ~(0 > 1) /\ ~(0 > 0)
    OBVIOUS
  <2> QED
    BY <2>1, <2>2, <2>3 DEF AtWork, Has
<1>5. Typed
  <2>1. node \in [Names -> Node]
    BY <1>1, <1>3
  <2>2. HeldOnce
    BY <1>3 DEF HeldOnce
  <2>3. stack \in [Threads -> Seq(FrameOf)]
    <3>1. <<>> \in Seq(FrameOf)
      OBVIOUS
    <3> QED
      BY <1>2, <3>1
  <2>4. \A t \in Threads : Shape(t, stack[t])
    BY <1>4 DEF Shape
  <2>5. ops \in 0 .. MaxOps
    BY <1>2, StateMachineAssumption
  <2> QED
    BY <1>2, <2>1, <2>2, <2>3, <2>4, <2>5 DEF Typed
<1>6. Alone
  BY <1>4 DEF Alone
<1>7. Agreement
  <2>1. active # Gone /\ active \notin Names
    BY <1>2, StateMachineAssumption
  <2>2. ASSUME NEW t \in Threads PROVE Agrees(stack[t])
    <3>1. Distinct(stack[t])
      BY <1>4 DEF Distinct
    <3> QED
      BY <1>2, <1>3, <1>4, <2>1, <3>1 DEF Agrees, AgreesWith
  <2> QED
    BY <2>1, <2>2 DEF Agreement
<1>8. Visits
  <2>1. \A n \in Names : n \in Threads
    BY DEF Threads
  <2>2. \A n \in Names : ~At(n, "timeout")
    BY <1>4, <2>1 DEF At
  <2>3. \A n \in Names : \A e \in node[n].queue : e.token <= node[n].token
    <3>1. ASSUME NEW n \in Names, NEW e \in node[n].queue PROVE e.token = 0 /\ node[n].token = 0
      BY <1>3
    <3> QED
      BY <3>1
  <2> QED
    BY <1>3, <2>2, <2>3 DEF Visits, VisitsOf, OfThisVisit
<1>9. Defined
  <2>1. \A n \in Names : HasThread(n)
    BY <1>4 DEF HasThread, Threads
  <2>2. \A n \in Names : DefinedFor(n)
    BY <1>3 DEF DefinedFor
  <2>3. \A t \in Threads : DefinedAt(t)
    BY <1>4 DEF DefinedAt
  <2> QED
    BY <1>2, <2>1, <2>2, <2>3 DEF Defined
<1> QED
  BY <1>5, <1>6, <1>7, <1>8, <1>9 DEF IInv

LEMMA StutterKeeps ==
  ASSUME IInv, UNCHANGED vars
  PROVE  IInv'
<1>1. UNCHANGED <<states, active, node, stack, ub, ops, odd>>
  BY DEF vars
<1>2. Typed'
  BY <1>1 DEF IInv, Typed, HeldOnce
<1>3. Alone'
  BY <1>1 DEF IInv, Alone, Serial, AtWork
<1>4. Agreement'
  BY <1>1 DEF IInv, Agreement, Agrees, Serial, AtWork
<1>5. Visits'
  BY <1>1 DEF IInv, Visits, VisitsOf, OfThisVisit, Serial, At, To
<1>6. Defined'
  BY <1>1 DEF IInv, Defined, DefinedFor, DefinedAt, Halted, Serves, HasThread, At
<1> QED
  BY <1>2, <1>3, <1>4, <1>5, <1>6 DEF IInv

LEMMA NextKeeps ==
  ASSUME IInv, Next
  PROVE  IInv'
<1>1. CASE Operation
  <2>1. ASSUME NEW t \in Threads, NEW e \in Events, Process(t, e) PROVE IInv'
    BY <2>1, ProcessKeeps
  <2>2. ASSUME NEW u \in Users, NEW n \in Names, SetActive(u, n) PROVE IInv'
    BY <2>2, SetActiveKeeps
  <2>3. ASSUME NEW n \in Names, Edit(n) PROVE IInv'
    BY <2>3, AddTransitionKeeps, RemoveTransitionKeeps, AddTimeoutKeeps, RemoveTimeoutKeeps,
       AddTimeoutActionKeeps, RemoveTimeoutActionKeeps, RemoveStateKeeps DEF Edit
  <2> QED
    BY <1>1, <2>1, <2>2, <2>3 DEF Operation
<1>2. ASSUME NEW t \in Threads, Flow(t) PROVE IInv'
  <2>1. ASSUME NEW from \in DOMAIN Afterwards, LeaveCB(t, from) PROVE IInv'
    BY <2>1, LeaveCBKeeps
  <2>2. ASSUME NEW e \in Pushes \cup {Nobody}, Entered(t, e) PROVE IInv'
    BY <2>2, EnteredKeeps
  <2>3. CASE Move(t) \/ Left(t) \/ Activate(t) \/ EnterCB(t)
    BY <2>3, MoveKeeps, LeftKeeps, ActivateKeeps, EnterCBKeeps
  <2>4. CASE Push(t) \/ Close(t) \/ Arm(t) \/ Start(t) \/ Deactivate(t)
    BY <2>4, PushKeeps, CloseKeeps, ArmKeeps, StartKeeps, DeactivateKeeps
  <2>5. CASE Stop(t) \/ Join(t) \/ Unnotify(t) \/ Choose(t)
    BY <2>5, StopKeeps, JoinKeeps, UnnotifyKeeps, ChooseKeeps
  <2> QED
    BY <1>2, <2>1, <2>2, <2>3, <2>4, <2>5 DEF Flow
<1>3. ASSUME NEW n \in Names, Timer(n) PROVE IInv'
  BY <1>3, DeliverKeeps, SweepKeeps, TimeoutKeeps, ActionEndsKeeps, LoopEndsKeeps,
     ThreadEndsKeeps DEF Timer
<1> QED
  BY <1>1, <1>2, <1>3 DEF Next

(***************************************************************************)
(* The stacks have their shape, and the parts of the invariant hold, whatever *)
(* users, timers and callbacks do.                                          *)
(***************************************************************************)
THEOREM StateInvariance == Spec => []IInv
<1>1. Init => IInv
  BY InitKeeps
<1>2. IInv /\ [Next]_vars => IInv'
  BY NextKeeps, StutterKeeps
<1> QED
  BY <1>1, <1>2, PTL DEF Spec

(* Every variable has its type, and of the events of a timer its node knows one
   at most (_hTimer). *)
THEOREM StateTypeCorrect == Spec => []TypeOK
<1>1. ASSUME IInv PROVE TypeOK
  <2>1. Typed
    BY <1>1 DEF IInv
  <2>2. ASSUME NEW t \in Threads, NEW i \in DOMAIN stack[t]
        PROVE  stack[t][i].at \in Places /\ stack[t][i].node \in Names
    <3>1. stack[t] \in Seq(FrameOf)
      BY <2>1 DEF Typed
    <3>2. DOMAIN stack[t] = 1 .. Len(stack[t])
      BY <3>1, LenProperties
    <3>3. stack[t][i] \in FrameOf
      BY <2>1, <3>2, StackOf
    <3> QED
      BY <3>3 DEF FrameOf
  <2> QED
    BY <2>1, <2>2 DEF TypeOK, Typed, HeldOnce
<1> QED
  BY <1>1, StateInvariance, PTL

(***************************************************************************)
(* As long as nothing overlaps, no state is entered that is being left and no *)
(* callback pushes away from a state that was left, the machine's state is    *)
(* active when all calls have returned, and no other state is.               *)
(***************************************************************************)
THEOREM StateOneActive == Spec => []OneActive
<1>1. ASSUME IInv PROVE OneActive
  <2> SUFFICES ASSUME Rest, Serial, {"again", "stale"} \cap odd = {}
               PROVE  {n \in Names : node[n].isActive} = {active} \ {Nobody}
    BY DEF OneActive
  <2>1. active \in Names \cup {Nobody} /\ Nobody \notin Names
    BY <1>1, StateMachineAssumption DEF IInv, Agreement, Typed
  <2>2. ASSUME NEW n \in Names
        PROVE  node[n].isActive <=> n = active
    <3>1. n \in Threads /\ \A t \in Threads : ~AtWork(t)
      BY DEF Threads, Rest
    <3>2. AgreesWith(stack[n], node, active)
      BY <1>1, <3>1 DEF IInv, Agreement, Agrees
    <3>3. Resting(stack[n])
      BY <1>1, <3>1, RestingStack DEF IInv
    <3>4. ~Between(stack[n]) /\ ~Has(stack[n], n, Pending)
      BY <3>3, RestingHas DEF Resting, Between, Halting, Pending
    <3> QED
      BY <3>2, <3>4 DEF AgreesWith
  <2> QED
    BY <2>1, <2>2
<1> QED
  BY <1>1, StateInvariance, PTL

(***************************************************************************)
(* The process does not abort unless something happened that the code is not  *)
(* prepared for: no timer is stopped that has no thread, and no thread sleeps  *)
(* that has canceled itself.                                                *)
(***************************************************************************)
THEOREM StateDefinedIfTimed == Spec => []DefinedIfTimed
<1>1. ASSUME IInv PROVE DefinedIfTimed
  BY <1>1 DEF IInv, Defined, DefinedIfTimed
<1> QED
  BY <1>1, StateInvariance, PTL

(* Only onTimeout() takes the thread of a timer from the event to the leaving. *)
LEMMA OnlyTimeout ==
  ASSUME Typed, Next, NEW n \in Names, Moves(n)
  PROVE  Timeout(n)
<1>1. /\ At(n, "timeout") /\ At(n, "fired")' /\ n \in Threads /\ n \notin Users
      /\ stack \in [Threads -> Seq(FrameOf)]
  BY StateMachineAssumption DEF Moves, Threads, Typed
<1>2. stack'[n] # stack[n]
  BY <1>1 DEF At
<1>3. ~At(n, "inside") /\ ~At(n, "action") /\ ~At(n, "ending") /\ stack[n] # <<>>
      /\ ~At(n, "wait")
  BY <1>1 DEF At
<1>4. ASSUME Operation PROVE FALSE
  <2>1. ASSUME NEW t \in Threads, NEW e \in Events, Process(t, e) PROVE FALSE
    <3>1. t # n
      BY <1>1, <1>3, <2>1 DEF Process, Idle
    <3> QED
      BY <1>1, <1>2, <2>1, <3>1 DEF Process, Calls
  <2>2. ASSUME NEW u \in Users, NEW m \in Names, SetActive(u, m) PROVE FALSE
    <3>1. u # n
      BY <1>1
    <3> QED
      BY <1>1, <1>2, <2>2, <3>1 DEF SetActive, Calls
  <2>3. ASSUME NEW m \in Names, Edit(m) PROVE FALSE
    BY <1>2, <2>3 DEF Edit, AddTransition, RemoveTransition, AddTimeout, RemoveTimeout,
       AddTimeoutAction, RemoveTimeoutAction, RemoveState, Edits
  <2> QED
    BY <1>4, <2>1, <2>2, <2>3 DEF Operation
<1>5. ASSUME NEW t \in Threads, Flow(t) PROVE FALSE
  <2>1. t # n
    <3>1. ASSUME NEW place, At(n, place) PROVE place = "timeout"
      BY <1>1, <3>1 DEF At
    <3>2. DOMAIN Afterwards = {"moving", "fired", "pushed"}
      BY DEF Afterwards
    <3> QED
      BY <1>5, <3>1, <3>2 DEF Flow, Move, LeaveCB, Left, Activate, EnterCB, Entered, Push, Close,
         Arm, Start, Deactivate, Stop, Join, Unnotify, Choose
  <2>2. ASSUME NEW fs, Become(t, fs) PROVE FALSE
    BY <1>1, <1>2, <2>1, <2>2 DEF Become
  <2>3. ASSUME Return(t) PROVE FALSE
    BY <2>2, <2>3 DEF Return
  <2> QED
    BY <1>5, <2>2, <2>3 DEF Flow, Move, LeaveCB, Left, Activate, EnterCB, Entered, Push, Close,
       Arm, Start, Deactivate, Stop, Join, Unnotify, Choose
<1>6. ASSUME NEW m \in Names, Timer(m), ~Timeout(n) PROVE FALSE
  <2>1. m \in Threads
    BY DEF Threads
  <2>2. ASSUME NEW e \in node[m].queue, Deliver(m, e) PROVE FALSE
    <3>1. m # n
      BY <1>3, <2>2 DEF Deliver, Awake
    <3> QED
      BY <1>1, <1>2, <2>2, <3>1 DEF Deliver
  <2>3. ASSUME Sweep(m) PROVE FALSE
    BY <1>2, <2>3 DEF Sweep
  <2>4. ASSUME Timeout(m) PROVE FALSE
    <3>1. m # n
      BY <1>6, <2>4
    <3> QED
      BY <1>1, <1>2, <2>4, <3>1 DEF Timeout, Become
  <2>5. ASSUME ActionEnds(m) PROVE FALSE
    <3>1. m # n
      BY <1>3, <2>5 DEF ActionEnds
    <3> QED
      BY <1>1, <1>2, <2>5, <3>1 DEF ActionEnds, Return, Become
  <2>6. ASSUME LoopEnds(m) PROVE FALSE
    <3>1. m # n
      BY <1>3, <2>6 DEF LoopEnds, Awake
    <3> QED
      BY <1>1, <1>2, <2>6, <3>1 DEF LoopEnds
  <2>7. ASSUME ThreadEnds(m) PROVE FALSE
    <3>1. m # n
      BY <1>3, <2>7 DEF ThreadEnds
    <3> QED
      BY <1>1, <1>2, <1>3, <2>7, <3>1 DEF ThreadEnds
  <2> QED
    BY <1>6, <2>2, <2>3, <2>4, <2>5, <2>6, <2>7 DEF Timer
<1> QED
  BY <1>4, <1>5, <1>6 DEF Next

(***************************************************************************)
(* The token of gostatenode.h keeps timeouts from visits that are over: as    *)
(* long as nothing overlaps, a state is left only by a timeout of this visit. *)
(***************************************************************************)
THEOREM StateTimeoutOfThisVisit == Spec => TimeoutOfThisVisit
<1>1. ASSUME IInv, [Next]_vars
      PROVE  [\A n \in Names : Moves(n) /\ Serial => To(n).visit = node[n].visit]_vars
  <2> SUFFICES ASSUME ~UNCHANGED vars, NEW n \in Names, Moves(n), Serial
               PROVE  To(n).visit = node[n].visit
    OBVIOUS
  <2>1. Next
    BY <1>1
  <2>2. Timeout(n)
    BY <1>1, <2>1, OnlyTimeout DEF IInv
  <2>3. ~Ignored(n, To(n))
    <3>1. ASSUME Ignored(n, To(n)) PROVE FALSE
      <4>1. Return(n) /\ At(n, "timeout") /\ n \in Threads /\ Typed
        BY <1>1, <2>2, <3>1 DEF Timeout, Return, Threads, IInv
      <4>2. Len(stack'[n]) > 0 => stack'[n][Len(stack'[n])].at \in Callers
        BY <4>1, Pops
      <4>3. Steps(n)
        BY <4>1, Pops
      <4>4. stack'[n] # <<>> /\ stack'[n][Len(stack'[n])].at = "fired"
        BY DEF Moves, At, Last
      <4>5. Len(stack'[n]) > 0
        BY <4>1, <4>3, <4>4, EmptySeq DEF Steps
      <4> QED
        BY <4>2, <4>4, <4>5 DEF Callers
    <3> QED
      BY <3>1
  <2>4. OfThisVisit(n, To(n))
    BY <1>1 DEF IInv, Visits, VisitsOf, Moves
  <2> QED
    BY <2>3, <2>4 DEF Ignored, OfThisVisit
<1> QED
  BY <1>1, StateInvariance, PTL DEF TimeoutOfThisVisit, Spec

-------------------------------------------------------------------------------
(***************************************************************************)
(* Waiting.  Users keep out of the way, and callbacks; timers may overlap.    *)
(***************************************************************************)
Apart == {"users", "nested", "removed"} \cap odd = {}

(* A timer's thread that is leaving its state, or about to. *)
Fires == {"timeout", "fired", "deactivate"}

(* Node n's thread is not, and will not be before its timer is started. *)
Quiet(n) ==
  /\ \A m \in Names : ~Has(stack[n], m, Fires)
  /\ \/ node[n].done \/ At(n, "stop") \/ At(n, "ending")
     \/ stack[n] = <<>> /\ node[n].thread # "runs"

(* Which frames lie on which, if callbacks do not use the machine. *)
Layout(t, s) ==
  /\ \A i \in 1 .. Len(s) :
       (s[i].at = "inside" => i = Len(s)) /\ (s[i].at = "process" => i = 1)
  /\ t \in Names => \A i \in 1 .. Len(s) :
       /\ s[i].at \notin {"process", "moving", "choose"}
       /\ i = 2 => s[i].at \in Fires \cup Halting
       /\ s[i].at \in Halting => \/ i = 2 /\ s[i].node = t
                                 \/ i > 2 /\ s[i - 1].at = "left" /\ s[i - 1].node = s[i].node
       /\ s[i].at = "left" => i = Len(s) \/ s[i + 1].at \in Halting
       /\ s[i].at = "deactivate" => s[i].node = t
       /\ s[i].at = "leaving" =>
            i > 2 /\ s[i - 1].at \in {"deactivate", "close"} /\ s[i - 1].node = s[i].node

(* A stack enters a node once at a time. *)
Single(s) ==
  \A i, j \in 1 .. Len(s) :
    i # j /\ s[i].at \in Unstarted /\ s[j].at \in Unstarted => s[i].node # s[j].node

OneUser == \A u \in Users, t \in Threads : AtWork(u) /\ AtWork(t) => t = u

Laid == \A t \in Threads : Layout(t, stack[t]) /\ Single(stack[t])

(* One thread enters a node at a time, while the node's own is quiet. *)
OneEnters ==
  \A n \in Names : \A t, u \in Threads :
    Has(stack[t], n, Unstarted) /\ Has(stack[u], n, Unstarted) => t = u

QuietEntered ==
  \A n \in Names : \A t \in Threads :
    Has(stack[t], n, Unstarted) => Quiet(n) /\ node[n].isActive

(* So is that of a node that was left, but for a user who has yet to stop it. *)
QuietLeft ==
  \A n \in Names : ~node[n].isActive =>
    Quiet(n) \/ \E u \in Users : At(u, "stop") /\ Here(u) = n

Unheld ==
  \A n \in Names : \A t \in Threads :
    Has(stack[t], n, {"start"}) => ~Has(stack[n], n, {"action"})

(* Who pushed away from a node waits for the node's thread: not in a circle. *)
InOrder ==
  \A S \in (SUBSET Names) \ {{}} : \E t \in S : \A n \in S : ~Has(stack[t], n, {"left"})

Parts ==
  /\ OneUser /\ Laid /\ OneEnters /\ QuietEntered /\ QuietLeft /\ Unheld /\ InOrder

Untangled == Apart => Parts

LEMMA LayoutPopped ==
  ASSUME NEW t, NEW s, NEW r, Under(t, s), Layout(t, s), Popped(s, r)
  PROVE  Layout(t, r)
<1>1. Len(s) \in Nat \ {0} /\ Len(r) = Len(s) - 1
  BY DEF Under, Popped
<1>2. ASSUME NEW i \in 1 .. Len(r)
      PROVE  /\ i \in 1 .. Len(s) /\ i # Len(s) /\ r[i] = s[i]
             /\ i > 1 => r[i - 1] = s[i - 1]
             /\ i # Len(r) => r[i + 1] = s[i + 1]
  BY <1>1 DEF Popped
<1>3. \A i \in 1 .. Len(r) : r[i].at # "inside" /\ (r[i].at = "process" => i = 1)
  BY <1>2 DEF Layout
<1>4. ASSUME t \in Names, NEW i \in 1 .. Len(r)
      PROVE  /\ r[i].at \notin {"process", "moving", "choose"}
             /\ i = 2 => r[i].at \in Fires \cup Halting
             /\ r[i].at \in Halting => \/ i = 2 /\ r[i].node = t
                                       \/ i > 2 /\ r[i - 1].at = "left" /\ r[i - 1].node = r[i].node
             /\ r[i].at = "left" => i = Len(r) \/ r[i + 1].at \in Halting
             /\ r[i].at = "deactivate" => r[i].node = t
             /\ r[i].at = "leaving" =>
                  i > 2 /\ r[i - 1].at \in {"deactivate", "close"} /\ r[i - 1].node = r[i].node
  <2>1. /\ i \in 1 .. Len(s) /\ i # Len(s) /\ r[i] = s[i]
        /\ i > 1 => r[i - 1] = s[i - 1]
        /\ i # Len(r) => r[i + 1] = s[i + 1]
    BY <1>2
  <2>2. r[i].at = "left" => i = Len(r) \/ r[i + 1].at \in Halting
    BY <1>4, <2>1 DEF Layout
  <2>3. r[i].at \in Halting => \/ i = 2 /\ r[i].node = t
                               \/ i > 2 /\ r[i - 1].at = "left" /\ r[i - 1].node = r[i].node
    BY <1>4, <2>1 DEF Layout
  <2>4. r[i].at = "leaving" =>
          i > 2 /\ r[i - 1].at \in {"deactivate", "close"} /\ r[i - 1].node = r[i].node
    BY <1>4, <2>1 DEF Layout
  <2> QED
    BY <1>4, <2>1, <2>2, <2>3, <2>4 DEF Layout
<1> QED
  BY <1>3, <1>4 DEF Layout

LEMMA LayoutReplaced ==
  ASSUME NEW t \in Threads, NEW s, NEW r, NEW f, Under(t, s), Layout(t, s), Replaced(s, r, f),
         f.at # "process",
         t \in Names =>
           /\ f.at \notin {"moving", "choose", "left", "leaving", "deactivate"}
           /\ s[Len(s)].at \in Fires \cup Halting => f.at \in Fires \cup Halting
           /\ s[Len(s)].at \in Halting => f.at \in Halting
           /\ f.at \in Halting =>
                s[Len(s)].at \in Halting \cup {"deactivate"} /\ f.node = s[Len(s)].node
  PROVE  Layout(t, r)
<1>1. Len(s) \in Nat \ {0} /\ Len(r) = Len(s)
  BY DEF Under, Replaced
<1>2. \A i \in 1 .. Len(r) :
        (r[i].at = "inside" => i = Len(r)) /\ (r[i].at = "process" => i = 1)
  BY <1>1 DEF Layout, Replaced
<1>3. ASSUME t \in Names, NEW i \in 1 .. Len(r)
      PROVE  /\ r[i].at \notin {"process", "moving", "choose"}
             /\ i = 2 => r[i].at \in Fires \cup Halting
             /\ r[i].at \in Halting => \/ i = 2 /\ r[i].node = t
                                       \/ i > 2 /\ r[i - 1].at = "left" /\ r[i - 1].node = r[i].node
             /\ r[i].at = "left" => i = Len(r) \/ r[i + 1].at \in Halting
             /\ r[i].at = "deactivate" => r[i].node = t
             /\ r[i].at = "leaving" =>
                  i > 2 /\ r[i - 1].at \in {"deactivate", "close"} /\ r[i - 1].node = r[i].node
  <2>1. CASE i < Len(s)
    <3>1. r[i] = s[i] /\ i \in 1 .. Len(s)
      BY <1>1, <2>1 DEF Replaced
    <3>2. i > 1 => r[i - 1] = s[i - 1]
      BY <1>1, <2>1 DEF Replaced
    <3>3. s[i].at = "left" => r[i + 1].at \in Halting
      <4>1. CASE i + 1 < Len(s)
        <5>1. r[i + 1] = s[i + 1]
          BY <1>1, <4>1 DEF Replaced
        <5> QED
          BY <1>3, <2>1, <3>1, <5>1 DEF Layout
      <4>2. CASE i + 1 = Len(s)
        BY <1>3, <2>1, <3>1, <4>2 DEF Layout, Replaced
      <4> QED
        BY <1>1, <2>1, <4>1, <4>2
    <3> QED
      BY <1>1, <1>3, <2>1, <3>1, <3>2, <3>3 DEF Layout
  <2>2. CASE i = Len(s)
    <3>1. r[i] = f /\ (i > 1 => r[i - 1] = s[i - 1])
      BY <1>1, <2>2 DEF Replaced
    <3>2. i = 2 => f.at \in Fires \cup Halting
      BY <1>1, <1>3, <2>2 DEF Layout
    <3>3. s[i].at = "deactivate" => i = 2 /\ s[i].node = t
      BY <1>1, <1>3, <2>2 DEF Layout, Under, Shape
    <3>4. f.at \in Halting => \/ i = 2 /\ f.node = t
                              \/ i > 2 /\ s[i - 1].at = "left" /\ s[i - 1].node = f.node
      BY <1>1, <1>3, <2>2, <3>3 DEF Layout
    <3> QED
      BY <1>1, <1>3, <2>2, <3>1, <3>2, <3>4
  <2> QED
    BY <1>1, <2>1, <2>2
<1> QED
  BY <1>2, <1>3 DEF Layout

(* Frames g on f, in the place of the topmost, of a timer's thread. *)
Fitting(t, s, f, g) ==
  /\ s[Len(s)].at \notin Halting /\ g.node = f.node
  /\ \/ f.at = "left" /\ g.at = "stop" /\ s[Len(s)].at \notin Fires
     \/ f.at = "close" /\ g.at = "leaving" /\ s[Len(s)].at \notin Fires
     \/ f.at = "deactivate" /\ g.at = "leaving" /\ f.node = t

LEMMA LayoutCalled ==
  ASSUME NEW t \in Threads, NEW s, NEW r, NEW f, NEW g, Under(t, s), Layout(t, s),
         Called(s, r, f, g), {f.at, g.at} \cap {"inside", "process"} = {},
         t \in Names => Len(s) > 1 /\ Fitting(t, s, f, g)
  PROVE  Layout(t, r)
<1>1. Len(s) \in Nat \ {0} /\ Len(r) = Len(s) + 1
  BY DEF Under, Called
<1>2. \A i \in 1 .. Len(r) :
        (r[i].at = "inside" => i = Len(r)) /\ (r[i].at = "process" => i = 1)
  <2>1. ASSUME NEW i \in 1 .. Len(r), i < Len(s)
        PROVE  (r[i].at = "inside" => i = Len(r)) /\ (r[i].at = "process" => i = 1)
    <3>1. r[i] = s[i] /\ i \in 1 .. Len(s)
      BY <1>1, <2>1 DEF Called
    <3> QED
      BY <1>1, <2>1, <3>1 DEF Layout
  <2>2. ASSUME NEW i \in 1 .. Len(r), ~(i < Len(s))
        PROVE  r[i].at \notin {"inside", "process"}
    <3>1. i = Len(s) \/ i = Len(s) + 1
      BY <1>1, <2>2
    <3> QED
      BY <3>1 DEF Called
  <2> QED
    BY <2>1, <2>2
<1>3. ASSUME t \in Names, NEW i \in 1 .. Len(r)
      PROVE  /\ r[i].at \notin {"process", "moving", "choose"}
             /\ i = 2 => r[i].at \in Fires \cup Halting
             /\ r[i].at \in Halting => \/ i = 2 /\ r[i].node = t
                                       \/ i > 2 /\ r[i - 1].at = "left" /\ r[i - 1].node = r[i].node
             /\ r[i].at = "left" => i = Len(r) \/ r[i + 1].at \in Halting
             /\ r[i].at = "deactivate" => r[i].node = t
             /\ r[i].at = "leaving" =>
                  i > 2 /\ r[i - 1].at \in {"deactivate", "close"} /\ r[i - 1].node = r[i].node
  <2>1. CASE i < Len(s)
    <3>1. r[i] = s[i] /\ i \in 1 .. Len(s)
      BY <1>1, <2>1 DEF Called
    <3>2. i > 1 => r[i - 1] = s[i - 1]
      BY <1>1, <2>1 DEF Called
    <3>3. s[i].at = "left" => r[i + 1].at \in Halting
      <4>1. CASE i + 1 < Len(s)
        <5>1. r[i + 1] = s[i + 1]
          BY <1>1, <4>1 DEF Called
        <5> QED
          BY <1>3, <2>1, <3>1, <5>1 DEF Layout
      <4>2. CASE i + 1 = Len(s)
        BY <1>3, <2>1, <3>1, <4>2 DEF Layout, Fitting
      <4> QED
        BY <1>1, <2>1, <4>1, <4>2
    <3> QED
      BY <1>1, <1>3, <2>1, <3>1, <3>2, <3>3 DEF Layout
  <2>2. CASE i = Len(s)
    <3>1. r[i] = f /\ r[i + 1] = g /\ i > 1
      BY <1>1, <1>3, <2>2 DEF Called
    <3>2. Fitting(t, s, f, g)
      BY <1>3
    <3>3. i = 2 => s[i].at \in Fires \cup Halting
      BY <1>1, <1>3, <2>2 DEF Layout
    <3> QED
      BY <2>2, <3>1, <3>2, <3>3 DEF Fitting, Fires, Halting
  <2>3. CASE i = Len(s) + 1
    <3>1. r[i] = g /\ r[i - 1] = f /\ i > 2 /\ i = Len(r)
      BY <1>1, <1>3, <2>3 DEF Called
    <3>2. Fitting(t, s, f, g)
      BY <1>3
    <3> QED
      BY <3>1, <3>2 DEF Fitting, Fires, Halting
  <2> QED
    BY <1>1, <2>1, <2>2, <2>3
<1> QED
  BY <1>2, <1>3 DEF Layout

LEMMA LayoutCalledOn ==
  ASSUME NEW t \in Threads, NEW s, NEW r, NEW f, NEW g, NEW h, Under(t, s), Layout(t, s),
         CalledOn(s, r, f, g, h), f.at \notin {"inside", "process"}, g.at = "leaving", h.at = "activate",
         t \in Names => Len(s) > 1 /\ Fitting(t, s, f, g)
  PROVE  Layout(t, r)
<1>1. Len(s) \in Nat \ {0} /\ Len(r) = Len(s) + 2
  BY DEF Under, CalledOn
<1>2. \A i \in 1 .. Len(r) :
        (r[i].at = "inside" => i = Len(r)) /\ (r[i].at = "process" => i = 1)
  BY <1>1 DEF Layout, CalledOn
<1>3. ASSUME t \in Names, NEW i \in 1 .. Len(r)
      PROVE  /\ r[i].at \notin {"process", "moving", "choose"}
             /\ i = 2 => r[i].at \in Fires \cup Halting
             /\ r[i].at \in Halting => \/ i = 2 /\ r[i].node = t
                                       \/ i > 2 /\ r[i - 1].at = "left" /\ r[i - 1].node = r[i].node
             /\ r[i].at = "left" => i = Len(r) \/ r[i + 1].at \in Halting
             /\ r[i].at = "deactivate" => r[i].node = t
             /\ r[i].at = "leaving" =>
                  i > 2 /\ r[i - 1].at \in {"deactivate", "close"} /\ r[i - 1].node = r[i].node
  <2>1. CASE i < Len(s)
    <3>1. r[i] = s[i] /\ i \in 1 .. Len(s)
      BY <1>1, <2>1 DEF CalledOn
    <3>2. i > 1 => r[i - 1] = s[i - 1]
      BY <1>1, <2>1 DEF CalledOn
    <3>3. s[i].at = "left" => r[i + 1].at \in Halting
      <4>1. CASE i + 1 < Len(s)
        <5>1. r[i + 1] = s[i + 1]
          BY <1>1, <4>1 DEF CalledOn
        <5> QED
          BY <1>3, <2>1, <3>1, <5>1 DEF Layout
      <4>2. CASE i + 1 = Len(s)
        BY <1>3, <2>1, <3>1, <4>2 DEF Layout, Fitting
      <4> QED
        BY <1>1, <2>1, <4>1, <4>2
    <3> QED
      BY <1>1, <1>3, <2>1, <3>1, <3>2, <3>3 DEF Layout
  <2>2. CASE i = Len(s)
    <3>1. r[i] = f /\ r[i + 1] = g /\ i > 1
      BY <1>1, <1>3, <2>2 DEF CalledOn
    <3>2. Fitting(t, s, f, g)
      BY <1>3
    <3>3. i = 2 => s[i].at \in Fires \cup Halting
      BY <1>1, <1>3, <2>2 DEF Layout
    <3> QED
      BY <2>2, <3>1, <3>2, <3>3 DEF Fitting, Fires, Halting
  <2>3. CASE i = Len(s) + 1
    <3>1. r[i] = g /\ r[i - 1] = f /\ i > 2
      BY <1>1, <1>3, <2>3 DEF CalledOn
    <3>2. Fitting(t, s, f, g)
      BY <1>3
    <3> QED
      BY <3>1, <3>2 DEF Fitting, Fires, Halting
  <2>4. CASE i = Len(s) + 2
    <3>1. r[i] = h /\ i > 2
      BY <1>1, <1>3, <2>4 DEF CalledOn
    <3> QED
      BY <3>1 DEF Fires, Halting
  <2> QED
    BY <1>1, <2>1, <2>2, <2>3, <2>4
<1> QED
  BY <1>2, <1>3 DEF Layout

LEMMA SinglePopped ==
  ASSUME NEW s, NEW r, Len(s) \in Nat \ {0}, Single(s), Popped(s, r)
  PROVE  Single(r)
BY DEF Single, Popped

LEMMA SingleReplaced ==
  ASSUME NEW s, NEW r, NEW f, Len(s) \in Nat \ {0}, Single(s), Replaced(s, r, f),
         f.at \in Unstarted => ~Below(s, f.node, Unstarted)
  PROVE  Single(r)
BY DEF Single, Below, Replaced

LEMMA SingleCalled ==
  ASSUME NEW s, NEW r, NEW f, NEW g, Len(s) \in Nat \ {0}, Single(s), Called(s, r, f, g),
         f.at \in Unstarted => ~Below(s, f.node, Unstarted), g.at \notin Unstarted
  PROVE  Single(r)
<1> SUFFICES ASSUME NEW i \in 1 .. Len(r), NEW j \in 1 .. Len(r), i < j,
                    r[i].at \in Unstarted, r[j].at \in Unstarted
             PROVE  r[i].node # r[j].node
  <2>1. Len(r) \in Nat
    BY DEF Called
  <2> QED
    BY <2>1 DEF Single
<1>1. j <= Len(s) /\ i <= Len(s) - 1
  <2>1. i \in 1 .. Len(s) + 1 /\ j \in 1 .. Len(s) + 1
    BY DEF Called
  <2>2. j # Len(s) + 1
    BY DEF Called
  <2> QED
    BY <2>1, <2>2
<1>2. r[i] = s[i]
  BY <1>1 DEF Called
<1>3. CASE j < Len(s)
  BY <1>1, <1>2, <1>3 DEF Called, Single
<1>4. CASE j = Len(s)
  BY <1>1, <1>2, <1>4 DEF Called, Below
<1> QED
  BY <1>1, <1>3, <1>4

LEMMA SingleCalledOn ==
  ASSUME NEW s, NEW r, NEW f, NEW g, NEW h, Len(s) \in Nat \ {0}, Single(s),
         CalledOn(s, r, f, g, h), f.at \in Unstarted => ~Below(s, f.node, Unstarted),
         g.at \notin Unstarted, h.at \notin Unstarted
  PROVE  Single(r)
<1> SUFFICES ASSUME NEW i \in 1 .. Len(r), NEW j \in 1 .. Len(r), i < j,
                    r[i].at \in Unstarted, r[j].at \in Unstarted
             PROVE  r[i].node # r[j].node
  <2>1. Len(r) \in Nat
    BY DEF CalledOn
  <2> QED
    BY <2>1 DEF Single
<1>1. j <= Len(s) /\ i <= Len(s) - 1
  <2>1. i \in 1 .. Len(s) + 2 /\ j \in 1 .. Len(s) + 2
    BY DEF CalledOn
  <2>2. j # Len(s) + 1 /\ j # Len(s) + 2
    BY DEF CalledOn
  <2> QED
    BY <2>1, <2>2
<1>2. r[i] = s[i]
  BY <1>1 DEF CalledOn
<1>3. CASE j < Len(s)
  BY <1>1, <1>2, <1>3 DEF CalledOn, Single
<1>4. CASE j = Len(s)
  BY <1>1, <1>2, <1>4 DEF CalledOn, Below
<1> QED
  BY <1>1, <1>3, <1>4

(* What was below the top is the only frame that enters its node. *)
LEMMA SingleBelow ==
  ASSUME NEW s, Len(s) \in Nat \ {0}, Single(s), s[Len(s)].at \in Unstarted
  PROVE  ~Below(s, s[Len(s)].node, Unstarted)
BY DEF Single, Below

LEMMA HasNode ==
  ASSUME Typed, NEW t \in Threads, NEW i \in 1 .. Len(stack[t]), NEW places,
         stack[t][i].at \in places
  PROVE  stack[t][i].node \in Names /\ Has(stack[t], stack[t][i].node, places)
<1>1. stack[t][i] \in FrameOf
  BY StackOf
<1> QED
  BY <1>1 DEF FrameOf, Has

(* What a quiet thread is doing: nothing, or stopping its own timer. *)
LEMMA QuietIs ==
  ASSUME Typed, NEW n \in Names, Layout(n, stack[n]), Quiet(n), NEW i \in 1 .. Len(stack[n])
  PROVE  /\ stack[n][i].at \in {"action", "ending"} \cup Halting
         /\ stack[n][i].at \in Halting => stack[n][i].node = n
<1>1. n \in Threads
  BY DEF Threads
<1>2. Len(stack[n]) \in Nat /\ Shape(n, stack[n])
  BY <1>1, StackOf
<1>3. \A j \in 1 .. Len(stack[n]) : stack[n][j].at \notin Fires
  BY <1>1, HasNode DEF Quiet
<1>4. Len(stack[n]) > 1 => stack[n][2].at \in Halting
  BY <1>2, <1>3 DEF Layout
<1>5. ~(Len(stack[n]) > 2)
  <2>1. ASSUME Len(stack[n]) > 2 PROVE stack[n][2].at \in Callers
    BY <1>2, <2>1 DEF Shape
  <2> QED
    BY <1>2, <1>4, <2>1 DEF Callers, Halting
<1>6. CASE i = 1
  BY <1>2, <1>6 DEF Shape, Halting
<1>7. CASE i = 2
  BY <1>2, <1>4, <1>7 DEF Layout
<1> QED
  BY <1>2, <1>5, <1>6, <1>7

LEMMA OthersIdle ==
  ASSUME Typed, OneUser, NEW u \in Users, AtWork(u), NEW t \in Threads \ {u}
  PROVE  ~AtWork(t) /\ Resting(stack[t])
BY RestingStack DEF OneUser

(* Quiet(n) lasts, but for what n's own thread does and who starts its timer. *)
LEMMA QuietKept ==
  ASSUME NEW n \in Names, stack'[n] = stack[n],
         node[n].done => node'[n].done,
         node'[n].thread = "runs" => node[n].thread = "runs",
         Quiet(n)
  PROVE  Quiet(n)'
<1>1. /\ \A m \in Names : ~Has(stack'[n], m, Fires)
      /\ At(n, "stop")' <=> At(n, "stop")
      /\ At(n, "ending")' <=> At(n, "ending")
  BY DEF Quiet, At
<1> QED
  BY <1>1 DEF Quiet

(* What a step of thread t does. *)
Gains(t, n, places) == Has(stack'[t], n, places) /\ ~Has(stack[t], n, places)

Lasts(n) ==
  /\ node[n].done => node'[n].done
  /\ node'[n].thread = "runs" => node[n].thread = "runs"

Starts(t, n) ==
  Has(stack[t], n, {"start"}) /\ ~Has(stack'[t], n, Unstarted) /\ node'[n].isActive

Leaves2(t, n) ==
  \/ Has(stack[t], n, Unstarted)
  \/ t \in Users /\ At(t, "stop")' /\ Here(t)' = n
  \/ t = n /\ ~Quiet(n) /\ Quiet(n)'

Flows(t) ==
  /\ AtWork(t) /\ ~At(t, "ending") /\ Steps(t)
  /\ Layout(t, stack'[t]) /\ Single(stack'[t])
  /\ At(t, "stop") => node'[Here(t)].done
  /\ \A n \in Names :
       /\ Gains(t, n, Unstarted) => ~node[n].isActive /\ ~At(t, "stop")
       /\ Has(stack'[t], n, Unstarted) => node'[n].isActive
       /\ node[n].isActive /\ ~node'[n].isActive => Leaves2(t, n)
       /\ Lasts(n) \/ Starts(t, n)
       /\ Gains(t, n, Fires) => \E m \in Names : Has(stack[t], m, Fires)
       /\ Gains(t, n, {"start"}) => ~Has(stack[n], n, {"action"})
       /\ ~Gains(t, n, {"action"})
       /\ t \in Names /\ Gains(t, n, {"left"}) =>
            n # t /\ \A m \in Names : ~Has(stack[n], m, {"left"})

LEMMA FlowUntangles ==
  ASSUME Typed, Typed', Parts, NEW t \in Threads, Flows(t)
  PROVE  Parts'
<1>1. /\ AtWork(t) /\ ~At(t, "ending") /\ Steps(t)
      /\ \A u \in Threads \ {t} : stack'[u] = stack[u]
  BY DEF Flows, Steps
<1>2. \A u \in Threads \ {t} : AtWork(u)' <=> AtWork(u)
  BY <1>1 DEF AtWork
<1>3. OneUser'
  BY <1>1, <1>2 DEF Parts, OneUser, Threads
<1>4. Laid'
  BY <1>1 DEF Parts, Laid, Flows
<1>5. \A n \in Names : Has(stack'[t], n, Unstarted) =>
        Has(stack[t], n, Unstarted) \/ (~node[n].isActive /\ ~At(t, "stop"))
  BY DEF Flows, Gains
<1>6. OneEnters'
  <2>1. ASSUME NEW n \in Names, NEW u \in Threads, u # t,
               Has(stack'[t], n, Unstarted), Has(stack'[u], n, Unstarted)
        PROVE  FALSE
    <3>1. Has(stack[u], n, Unstarted)
      BY <1>1, <2>1
    <3>2. node[n].isActive
      BY <3>1 DEF Parts, QuietEntered
    <3> QED
      BY <1>5, <2>1, <3>1, <3>2 DEF Parts, OneEnters
  <2>2. ASSUME NEW n \in Names, NEW u \in Threads, NEW v \in Threads,
               Has(stack'[u], n, Unstarted), Has(stack'[v], n, Unstarted)
        PROVE  u = v
    BY <1>1, <2>1, <2>2 DEF Parts, OneEnters
  <2> QED
    BY <2>2 DEF OneEnters
<1>7. ASSUME NEW n \in Names, Quiet(n), Lasts(n)
      PROVE  Quiet(n)'
  <2>1. CASE n # t
    BY <1>1, <1>7, <2>1, QuietKept DEF Lasts, Threads
  <2>2. CASE n = t
    <3>1. \A m \in Names : ~Has(stack'[n], m, Fires)
      BY <1>7, <2>2 DEF Flows, Gains, Quiet
    <3>2. stack[n] # <<>>
      BY <1>1, <1>7, <2>2, StackOf DEF AtWork
    <3>3. At(n, "stop") => node'[n].done
      <4>1. ASSUME At(n, "stop") PROVE Here(n) = n
        <5>1. /\ Len(stack[n]) \in Nat \ {0} /\ stack[n][Len(stack[n])].at = "stop"
              /\ Here(n) = stack[n][Len(stack[n])].node
          BY <2>2, <4>1, TopOf
        <5>2. Len(stack[n]) \in 1 .. Len(stack[n]) /\ Layout(n, stack[n])
          BY <2>2, <5>1 DEF Parts, Laid
        <5> QED
          BY <1>7, <5>1, <5>2, QuietIs DEF Halting
      <4> QED
        BY <2>2, <4>1 DEF Flows
    <3>4. node'[n].done
      BY <1>1, <1>7, <2>2, <3>2, <3>3 DEF Quiet, Lasts
    <3> QED
      BY <3>1, <3>4 DEF Quiet
  <2> QED
    BY <2>1, <2>2
<1>8. ASSUME NEW n \in Names, ~node[n].isActive, ~At(t, "stop")
      PROVE  Quiet(n)
  <2>1. CASE Quiet(n)
    BY <2>1
  <2>2. CASE \E u \in Users : At(u, "stop") /\ Here(u) = n
    <3>1. PICK u \in Users : At(u, "stop")
      BY <2>2
    <3>2. u \in Threads /\ u # t
      BY <1>8, <3>1 DEF Threads
    <3>3. AtWork(u)
      BY <3>1, <3>2, WorkingStack
    <3> QED
      BY <1>1, <3>1, <3>2, <3>3 DEF Parts, OneUser
  <2> QED
    BY <1>8, <2>1, <2>2 DEF Parts, QuietLeft
<1>9. QuietEntered'
  <2>1. ASSUME NEW n \in Names, Has(stack'[t], n, Unstarted)
        PROVE  Quiet(n)' /\ node'[n].isActive
    <3>1. Lasts(n) /\ node'[n].isActive
      BY <2>1 DEF Flows, Starts
    <3>2. Quiet(n)
      BY <1>5, <1>8, <2>1 DEF Parts, QuietEntered
    <3> QED
      BY <1>7, <3>1, <3>2
  <2>2. ASSUME NEW n \in Names, NEW u \in Threads \ {t}, Has(stack'[u], n, Unstarted)
        PROVE  Quiet(n)' /\ node'[n].isActive
    <3>1. Has(stack[u], n, Unstarted) /\ Quiet(n) /\ node[n].isActive
      BY <1>1, <2>2 DEF Parts, QuietEntered
    <3>2. ~Has(stack[t], n, Unstarted)
      BY <2>2, <3>1 DEF Parts, OneEnters
    <3>3. Lasts(n)
      <4>1. ~Has(stack[t], n, {"start"})
        BY <3>2 DEF Has, Unstarted
      <4> QED
        BY <4>1 DEF Flows, Starts
    <3>4. t \notin Users
      <4>1. ASSUME t \in Users PROVE FALSE
        <5>1. Resting(stack[u])
          BY <1>1, <2>2, <4>1, OthersIdle DEF Parts
        <5> QED
          BY <3>1, <5>1, RestingHas DEF Unstarted
      <4> QED
        BY <4>1
    <3>5. ~Leaves2(t, n)
      BY <3>1, <3>2, <3>4 DEF Leaves2
    <3> QED
      BY <1>7, <3>1, <3>3, <3>5 DEF Flows
  <2> QED
    BY <2>1, <2>2 DEF QuietEntered
<1>10. QuietLeft'
  <2>1. ASSUME NEW n \in Names, ~node'[n].isActive
        PROVE  Quiet(n)' \/ \E u \in Users : At(u, "stop")' /\ Here(u)' = n
    <3>1. Lasts(n)
      BY <2>1 DEF Flows, Starts
    <3>2. CASE node[n].isActive
      <4>1. Leaves2(t, n)
        BY <2>1, <3>2 DEF Flows
      <4>2. CASE Has(stack[t], n, Unstarted)
        BY <1>7, <3>1, <4>2 DEF Parts, QuietEntered
      <4> QED
        BY <4>1, <4>2 DEF Leaves2
    <3>3. CASE ~node[n].isActive
      <4>1. CASE Quiet(n)
        BY <1>7, <3>1, <4>1
      <4>2. CASE \E u \in Users : At(u, "stop") /\ Here(u) = n
        <5>1. PICK u \in Users : At(u, "stop") /\ Here(u) = n
          BY <4>2
        <5>2. u \in Threads /\ AtWork(u)
          BY <5>1, WorkingStack DEF Threads
        <5>3. u = t
          BY <1>1, <5>1, <5>2 DEF Parts, OneUser
        <5>4. node'[n].done
          BY <5>1, <5>3 DEF Flows
        <5>5. n \in Threads \ {u}
          BY <5>1, StateMachineAssumption DEF Threads
        <5>6. Resting(stack[n])
          BY <5>1, <5>2, <5>5, OthersIdle DEF Parts
        <5>7. \A m \in Names : ~Has(stack'[n], m, Fires)
          BY <1>1, <5>3, <5>5, <5>6, RestingHas DEF Fires
        <5> QED
          BY <5>4, <5>7 DEF Quiet
      <4> QED
        BY <3>3, <4>1, <4>2 DEF Parts, QuietLeft
    <3> QED
      BY <3>2, <3>3
  <2> QED
    BY <2>1 DEF QuietLeft
<1>11. Unheld'
  <2>1. ASSUME NEW n \in Names, ~Has(stack[n], n, {"action"})
        PROVE  ~Has(stack'[n], n, {"action"})
    BY <1>1, <2>1 DEF Flows, Gains, Threads
  <2>2. ASSUME NEW n \in Names, NEW u \in Threads, Has(stack'[u], n, {"start"})
        PROVE  ~Has(stack[n], n, {"action"})
    BY <1>1, <2>2 DEF Flows, Gains, Parts, Unheld
  <2> QED
    BY <2>1, <2>2 DEF Unheld
<1>12. InOrder'
  <2>1. ASSUME NEW S \in (SUBSET Names) \ {{}}
        PROVE  \E u \in S : \A n \in S : ~Has(stack'[u], n, {"left"})
    <3>1. CASE t \in S /\ \E n \in S : Gains(t, n, {"left"})
      <4>1. PICK n \in S : Gains(t, n, {"left"})
        BY <3>1
      <4>2. n # t /\ \A m \in Names : ~Has(stack[n], m, {"left"})
        BY <2>1, <3>1, <4>1 DEF Flows
      <4>3. stack'[n] = stack[n]
        BY <1>1, <2>1, <4>1, <4>2 DEF Threads
      <4> QED
        BY <2>1, <4>1, <4>2, <4>3
    <3>2. CASE ~(t \in S /\ \E n \in S : Gains(t, n, {"left"}))
      <4>1. PICK u \in S : \A n \in S : ~Has(stack[u], n, {"left"})
        BY <2>1 DEF Parts, InOrder
      <4>2. \A n \in S : ~Has(stack'[u], n, {"left"})
        BY <1>1, <2>1, <3>2, <4>1 DEF Gains, Threads
      <4> QED
        BY <4>1, <4>2
    <3> QED
      BY <3>1, <3>2
  <2> QED
    BY <2>1 DEF InOrder
<1> QED
  BY <1>3, <1>4, <1>6, <1>9, <1>10, <1>11, <1>12 DEF Parts

(* A step that takes the topmost frame away. *)
LEMMA PopFlows ==
  ASSUME Typed, Parts, NEW t \in Threads, NEW place, At(t, place),
         place \notin {"action", "ending", "stop"}, Return(t),
         \A n \in Names :
           /\ node'[n].isActive <=> node[n].isActive
           /\ Lasts(n) \/ (place = "start" /\ n = Here(t))
  PROVE  Flows(t)
<1>1. /\ Steps(t) /\ AtWork(t) /\ Under(t, stack[t]) /\ Popped(stack[t], stack'[t])
  BY Pops
<1>2. /\ Len(stack[t]) \in Nat \ {0} /\ stack[t][Len(stack[t])].at = place
      /\ Here(t) = stack[t][Len(stack[t])].node /\ Here(t) \in Names
  BY TopOf
<1>3. Layout(t, stack[t]) /\ Single(stack[t])
  BY DEF Parts, Laid
<1>4. Layout(t, stack'[t]) /\ Single(stack'[t])
  BY <1>1, <1>2, <1>3, LayoutPopped, SinglePopped
<1>5. \A n, places : Has(stack'[t], n, places) <=> Below(stack[t], n, places)
  BY <1>1, <1>2, HasPopped
<1>6. \A n, places : Has(stack'[t], n, places) => Has(stack[t], n, places)
  BY <1>2, <1>5, HasIs
<1>7. ~At(t, "ending") /\ ~At(t, "stop")
  BY DEF At
<1>8. \A n, places : ~Gains(t, n, places)
  BY <1>6 DEF Gains
<1>9. ASSUME NEW n \in Names, Has(stack'[t], n, Unstarted)
      PROVE  node'[n].isActive
  BY <1>6, <1>9 DEF Parts, QuietEntered
<1>10. ASSUME NEW n \in Names, place = "start", n = Here(t)
       PROVE  Starts(t, n)
  <2>1. Is(stack[t][Len(stack[t])], n, {"start"}) /\ Is(stack[t][Len(stack[t])], n, Unstarted)
    BY <1>2, <1>10 DEF Is, Unstarted
  <2>2. Has(stack[t], n, {"start"}) /\ Has(stack[t], n, Unstarted)
    BY <1>2, <2>1, HasIs
  <2>3. ~Below(stack[t], n, Unstarted)
    BY <1>2, <1>3, <1>10, SingleBelow DEF Unstarted
  <2>4. node'[n].isActive
    BY <2>2 DEF Parts, QuietEntered
  <2> QED
    BY <1>5, <2>2, <2>3, <2>4 DEF Starts
<1> QED
  BY <1>1, <1>4, <1>7, <1>8, <1>9, <1>10 DEF Flows

(* A step that puts another frame in its place. *)
LEMMA ReplaceFlows ==
  ASSUME Typed, Parts, NEW t \in Threads, NEW place, At(t, place), NEW f, f.node \in Names,
         Steps(t), AtWork(t), Under(t, stack[t]), Replaced(stack[t], stack'[t], f),
         place \notin {"action", "ending"},
         f.at \notin {"process", "action", "left", "leaving", "choose", "deactivate"},
         t \in Names =>
           /\ f.at # "moving"
           /\ place \in Fires \cup Halting => f.at \in Fires \cup Halting
           /\ place \in Halting => f.at \in Halting
           /\ f.at \in Halting => place \in Halting \cup {"deactivate"} /\ f.node = Here(t),
         place = "stop" => node'[Here(t)].done /\ f.at \notin Unstarted,
         f.at \in Fires => place \in Fires,
         f.at = "start" => ~Has(stack[f.node], f.node, {"action"}),
         f.at \in Unstarted => \/ place \in Unstarted /\ f.node = Here(t)
                               \/ ~node[f.node].isActive /\ node'[f.node].isActive,
         \A n \in Names :
           /\ Lasts(n)
           /\ node[n].isActive => node'[n].isActive \/ (Leaves2(t, n) /\ f.at \in Halting)
           /\ Has(stack[t], n, Unstarted) /\ Has(stack'[t], n, Unstarted) => node'[n].isActive
  PROVE  Flows(t)
<1>1. /\ Len(stack[t]) \in Nat \ {0} /\ stack[t][Len(stack[t])].at = place
      /\ Here(t) = stack[t][Len(stack[t])].node /\ Here(t) \in Names
  BY TopOf
<1>2. Layout(t, stack[t]) /\ Single(stack[t])
  BY DEF Parts, Laid
<1>3. Layout(t, stack'[t])
  BY <1>1, <1>2, LayoutReplaced
<1>4. f.at \in Unstarted => ~Below(stack[t], f.node, Unstarted)
  <2>1. CASE place \in Unstarted /\ f.node = Here(t)
    BY <1>1, <1>2, <2>1, SingleBelow
  <2>2. CASE ~node[f.node].isActive
    <3>1. ~Has(stack[t], f.node, Unstarted)
      BY <2>2 DEF Parts, QuietEntered
    <3> QED
      BY <1>1, <3>1, HasIs
  <2> QED
    BY <2>1, <2>2
<1>5. Single(stack'[t])
  BY <1>1, <1>2, <1>4, SingleReplaced
<1>6. \A n, places : Has(stack'[t], n, places) <=> Below(stack[t], n, places) \/ Is(f, n, places)
  BY <1>1, HasReplaced
<1>7. \A n, places : Has(stack[t], n, places) <=>
        Below(stack[t], n, places) \/ Is(stack[t][Len(stack[t])], n, places)
  BY <1>1, HasIs
<1>8. \A n, places : Gains(t, n, places) => Is(f, n, places)
  BY <1>6, <1>7 DEF Gains
<1>9. ~At(t, "ending") /\ (At(t, "stop") => place = "stop")
  BY DEF At
<1>10. ASSUME NEW n \in Names, Gains(t, n, Unstarted)
       PROVE  ~node[n].isActive /\ ~At(t, "stop") /\ node'[n].isActive
  <2>1. f.node = n /\ f.at \in Unstarted
    BY <1>8, <1>10 DEF Is
  <2>2. ~(place \in Unstarted /\ f.node = Here(t))
    <3>1. ASSUME place \in Unstarted, f.node = Here(t) PROVE FALSE
      <4>1. Has(stack[t], n, Unstarted)
        BY <1>1, <1>7, <2>1, <3>1 DEF Is
      <4> QED
        BY <1>10, <4>1 DEF Gains
    <3> QED
      BY <3>1
  <2> QED
    BY <1>9, <2>1, <2>2
<1>11. ASSUME NEW n \in Names, Has(stack'[t], n, Unstarted)
       PROVE  node'[n].isActive
  BY <1>10, <1>11 DEF Gains
<1>12. ASSUME NEW n \in Names, Gains(t, n, Fires)
       PROVE  \E m \in Names : Has(stack[t], m, Fires)
  <2>1. place \in Fires
    BY <1>8, <1>12 DEF Is
  <2>2. Has(stack[t], Here(t), Fires)
    BY <1>1, <1>7, <2>1 DEF Is
  <2> QED
    BY <1>1, <2>2
<1>13. ASSUME NEW n \in Names, Gains(t, n, {"start"})
       PROVE  ~Has(stack[n], n, {"action"})
  BY <1>8, <1>13 DEF Is
<1>14. \A n \in Names : ~Gains(t, n, {"action"}) /\ ~Gains(t, n, {"left"})
  BY <1>8 DEF Is
<1> QED
  BY <1>3, <1>5, <1>9, <1>10, <1>11, <1>12, <1>13, <1>14 DEF Flows

LEMMA NodesKept ==
  ASSUME node' = node
  PROVE  \A n \in Names : Lasts(n) /\ (node'[n].isActive <=> node[n].isActive)
BY DEF Lasts

LEMMA LeftFlows ==
  ASSUME Typed, Parts, NEW t \in Threads, Left(t)
  PROVE  Flows(t)
<1>1. Return(t) /\ node' = node /\ \E place \in {"leaving", "left"} : At(t, place)
  BY DEF Left
<1> QED
  BY <1>1, NodesKept, PopFlows

LEMMA EnterCBFlows ==
  ASSUME Typed, Parts, NEW t \in Threads, EnterCB(t)
  PROVE  Flows(t)
<1>1. At(t, "entering") /\ node' = node
  BY DEF EnterCB
<1>2. Here(t) \in Names
  BY <1>1, TopOf
<1>3. PICK f : f = [at |-> "inside", node |-> Here(t), to |-> Nobody]
  OBVIOUS
<1>4. f.at = "inside" /\ f.node = Here(t) /\ Fits(t, f) /\ Become(t, <<f>>)
  BY <1>2, <1>3 DEF Fits, FrameOf, Places, EnterCB, Frame
<1>5. Steps(t) /\ AtWork(t) /\ Under(t, stack[t]) /\ Replaced(stack[t], stack'[t], f)
  BY <1>1, <1>4, Replaces DEF Halting
<1>6. \A n \in Names : Has(stack[t], n, Unstarted) => node[n].isActive
  BY DEF Parts, QuietEntered
<1> QED
  BY <1>1, <1>2, <1>4, <1>5, <1>6, NodesKept, ReplaceFlows DEF Halting, Fires, Unstarted

LEMMA EnteredFlows ==
  ASSUME Typed, Parts, NEW t \in Threads, NEW e \in Pushes \cup {Nobody}, Entered(t, e)
  PROVE  Flows(t)
<1>1. At(t, "inside") /\ node' = node
  BY DEF Entered
<1>2. Here(t) \in Names
  BY <1>1, TopOf
<1>3. PICK f : f = [at |-> IF e = Nobody THEN "arm" ELSE "push", node |-> Here(t), to |-> e]
  OBVIOUS
<1>4. f.at \in {"arm", "push"} /\ f.node = Here(t) /\ Fits(t, f) /\ Become(t, <<f>>)
  BY <1>2, <1>3, StateMachineAssumption DEF Fits, FrameOf, Places, Entered, Frame
<1>5. Steps(t) /\ AtWork(t) /\ Under(t, stack[t]) /\ Replaced(stack[t], stack'[t], f)
  BY <1>1, <1>4, Replaces DEF Halting
<1>6. \A n \in Names : Has(stack[t], n, Unstarted) => node[n].isActive
  BY DEF Parts, QuietEntered
<1> QED
  BY <1>1, <1>2, <1>4, <1>5, <1>6, NodesKept, ReplaceFlows DEF Halting, Fires, Unstarted

LEMMA PushFlows ==
  ASSUME Typed, Parts, NEW t \in Threads, Push(t)
  PROVE  Flows(t)
<1>1. At(t, "push") /\ node' = node
  BY DEF Push
<1>2. Here(t) \in Names /\ To(t) \in Events
  BY <1>1, TopOf DEF Fits
<1>3. PICK dest \in Names \cup {Nobody} : dest = node[Here(t)].trans[To(t)]
  BY <1>2 DEF Typed, Node
<1>4. PICK f : f = [at |-> IF Stays(Here(t), dest) THEN "arm" ELSE "pushed",
                    node |-> Here(t), to |-> dest]
  OBVIOUS
<1>5. f.at \in {"arm", "pushed"} /\ f.node = Here(t) /\ Fits(t, f)
  BY <1>2, <1>4 DEF Fits, FrameOf, Places
<1>6. Become(t, <<f>>)
  BY <1>3, <1>4 DEF Push, Frame
<1>7. Steps(t) /\ AtWork(t) /\ Under(t, stack[t]) /\ Replaced(stack[t], stack'[t], f)
  BY <1>1, <1>5, <1>6, Replaces DEF Halting
<1>8. \A n \in Names : Has(stack[t], n, Unstarted) => node[n].isActive
  BY DEF Parts, QuietEntered
<1> QED
  BY <1>1, <1>2, <1>5, <1>7, <1>8, NodesKept, ReplaceFlows DEF Halting, Fires, Unstarted

LEMMA ChooseFlows ==
  ASSUME Typed, Parts, NEW t \in Threads, Choose(t)
  PROVE  Flows(t)
<1>1. At(t, "choose") /\ node' = node
  BY DEF Choose
<1>2. Here(t) \in Names /\ t \in Users
  BY <1>1, TopOf DEF Fits
<1>3. t \notin Names
  BY <1>2, StateMachineAssumption
<1>4. CASE Here(t) \in states
  <2>1. PICK f : f = [at |-> "activate", node |-> Here(t), to |-> Nobody]
    OBVIOUS
  <2>2. f.at = "activate" /\ f.node = Here(t) /\ Fits(t, f) /\ Become(t, <<f>>)
    BY <1>2, <1>4, <2>1 DEF Fits, FrameOf, Places, Choose, Frame
  <2>3. Steps(t) /\ AtWork(t) /\ Under(t, stack[t]) /\ Replaced(stack[t], stack'[t], f)
    BY <1>1, <2>2, Replaces DEF Halting
  <2>4. \A n \in Names : Has(stack[t], n, Unstarted) => node[n].isActive
    BY DEF Parts, QuietEntered
  <2> QED
    BY <1>1, <1>2, <1>3, <2>2, <2>3, <2>4, NodesKept, ReplaceFlows DEF Halting, Fires, Unstarted
<1>5. CASE Here(t) \notin states
  <2>1. Return(t)
    BY <1>5 DEF Choose, Return
  <2> QED
    BY <1>1, <2>1, NodesKept, PopFlows
<1> QED
  BY <1>4, <1>5

LEMMA UnnotifyFlows ==
  ASSUME Typed, Parts, NEW t \in Threads, Unnotify(t)
  PROVE  Flows(t)
<1>1. At(t, "unnotify") /\ Return(t)
  BY DEF Unnotify
<1>2. PICK n \in Names : n = Here(t)
  BY <1>1, TopOf
<1>3. PICK q \in SUBSET TimerEvent : q = Killed(n)
  BY KilledIs
<1>4. node' = [node EXCEPT ![n].queue = q] /\ node \in [Names -> Node]
  BY <1>2, <1>3 DEF Unnotify, Typed
<1>5. \A m \in Names : Lasts(m) /\ (node'[m].isActive <=> node[m].isActive)
  BY <1>4 DEF Node, Lasts
<1> QED
  BY <1>1, <1>5, PopFlows

LEMMA TimeoutFlows ==
  ASSUME Typed, Parts, NEW t \in Names, Timeout(t)
  PROVE  Flows(t)
<1>1. At(t, "timeout") /\ node' = node /\ t \in Threads
  BY DEF Timeout, Threads
<1>2. Here(t) \in Names /\ Here(t) = t
  BY <1>1, TopOf DEF Fits
<1>3. CASE Ignored(t, To(t))
  <2>1. Return(t)
    BY <1>3 DEF Timeout, Return
  <2> QED
    BY <1>1, <2>1, NodesKept, PopFlows
<1>4. CASE ~Ignored(t, To(t))
  <2>1. PICK dest \in Names \cup {Nobody} : dest = node[t].dest
    BY DEF Typed, Node
  <2>2. PICK f : f = [at |-> "fired", node |-> t, to |-> dest]
    OBVIOUS
  <2>3. f.at = "fired" /\ f.node = t /\ Fits(t, f)
    BY <2>2 DEF Fits, FrameOf, Places
  <2>4. Become(t, <<f>>)
    BY <1>4, <2>1, <2>2 DEF Timeout, Frame
  <2>5. Steps(t) /\ AtWork(t) /\ Under(t, stack[t]) /\ Replaced(stack[t], stack'[t], f)
    BY <1>1, <2>3, <2>4, Replaces DEF Halting
  <2>6. \A n \in Names : Has(stack[t], n, Unstarted) => node[n].isActive
    BY <1>1 DEF Parts, QuietEntered
  <2> QED
    BY <1>1, <1>2, <2>3, <2>5, <2>6, NodesKept, ReplaceFlows DEF Halting, Fires, Unstarted
<1> QED
  BY <1>3, <1>4

LEMMA StartFlows ==
  ASSUME Typed, Parts, NEW t \in Threads, Start(t)
  PROVE  Flows(t)
<1>1. At(t, "start") /\ Return(t)
  BY DEF Start
<1>2. PICK n \in Names : n = Here(t)
  BY <1>1, TopOf
<1>3. node \in [Names -> Node]
  BY DEF Typed
<1>4. PICK r : r = [[node[n] EXCEPT !.done = FALSE] EXCEPT
                      !.thread = IF @ \in {"none", "over"} THEN "runs" ELSE @]
  OBVIOUS
<1>5. node' = [node EXCEPT ![n] = r]
  BY <1>2, <1>3, <1>4 DEF Start
<1>6. r.isActive = node[n].isActive
  BY <1>3, <1>4 DEF Node
<1>7. \A m \in Names : /\ node'[m].isActive <=> node[m].isActive
                       /\ Lasts(m) \/ ("start" = "start" /\ m = Here(t))
  BY <1>2, <1>3, <1>5, <1>6 DEF Lasts
<1> QED
  BY <1>1, <1>7, PopFlows

LEMMA StopFlows ==
  ASSUME Typed, Parts, NEW t \in Threads, Stop(t)
  PROVE  Flows(t)
<1>1. At(t, "stop")
  BY DEF Stop
<1>2. PICK n \in Names : n = Here(t)
  BY <1>1, TopOf
<1>3. PICK f : f = [at |-> "join", node |-> n, to |-> Nobody]
  OBVIOUS
<1>4. f.at = "join" /\ f.node = n /\ Fits(t, f)
  BY <1>3 DEF Fits, FrameOf, Places
<1>5. Become(t, <<f>>) /\ node' = [node EXCEPT ![n].done = TRUE] /\ node \in [Names -> Node]
  BY <1>2, <1>3 DEF Stop, Frame, Typed
<1>6. Steps(t) /\ AtWork(t) /\ Under(t, stack[t]) /\ Replaced(stack[t], stack'[t], f)
  BY <1>1, <1>4, <1>5, Replaces DEF Halting
<1>7. /\ \A m \in Names : Lasts(m) /\ (node'[m].isActive <=> node[m].isActive)
      /\ node'[n].done
  BY <1>5 DEF Node, Lasts
<1>8. \A m \in Names : Has(stack[t], m, Unstarted) => node[m].isActive
  BY DEF Parts, QuietEntered
<1> QED
  BY <1>1, <1>2, <1>4, <1>6, <1>7, <1>8, ReplaceFlows DEF Halting, Fires, Unstarted

LEMMA JoinFlows ==
  ASSUME Typed, Parts, NEW t \in Threads, Join(t)
  PROVE  Flows(t)
<1>1. At(t, "join")
  BY DEF Join
<1>2. PICK n \in Names : n = Here(t)
  BY <1>1, TopOf
<1>3. PICK f : f = [at |-> IF t # n /\ node[n].thread = "runs" THEN "wait" ELSE "unnotify",
                    node |-> n, to |-> Nobody]
  OBVIOUS
<1>4. f.at \in {"wait", "unnotify"} /\ f.node = n /\ Fits(t, f)
  BY <1>3 DEF Fits, FrameOf, Places
<1>5. /\ Become(t, <<f>>) /\ node \in [Names -> Node]
      /\ node' = [node EXCEPT ![n].thread =
                     IF t = n THEN "doomed" ELSE IF @ = "over" THEN "none" ELSE @]
  BY <1>2, <1>3 DEF Join, Frame, Typed
<1>6. Steps(t) /\ AtWork(t) /\ Under(t, stack[t]) /\ Replaced(stack[t], stack'[t], f)
  BY <1>1, <1>4, <1>5, Replaces DEF Halting
<1>7. \A m \in Names : Lasts(m) /\ (node'[m].isActive <=> node[m].isActive)
  BY <1>5 DEF Node, Lasts
<1>8. \A m \in Names : Has(stack[t], m, Unstarted) => node[m].isActive
  BY DEF Parts, QuietEntered
<1> QED
  BY <1>1, <1>2, <1>4, <1>6, <1>7, <1>8, ReplaceFlows DEF Halting, Fires, Unstarted

LEMMA ArmFlows ==
  ASSUME Typed, Parts, NEW t \in Threads, Arm(t)
  PROVE  Flows(t)
<1>1. At(t, "arm")
  BY DEF Arm
<1>2. PICK n \in Names : n = Here(t)
  BY <1>1, TopOf
<1>3. CASE ~Timed(n)
  <2>1. Return(t) /\ node' = node
    BY <1>2, <1>3 DEF Arm
  <2>2. \A m \in Names : /\ node'[m].isActive <=> node[m].isActive
                         /\ Lasts(m) \/ ("arm" = "start" /\ m = Here(t))
    BY <2>1, NodesKept
  <2> QED
    BY <1>1, <2>1, <2>2, PopFlows
<1>4. CASE Timed(n)
  <2>1. PICK f : f = [at |-> "start", node |-> n, to |-> Nobody]
    OBVIOUS
  <2>2. f.at = "start" /\ f.node = n /\ Fits(t, f)
    BY <2>1 DEF Fits, FrameOf, Places
  <2>3. PICK k, q : /\ Become(t, <<f>>) /\ Free(t, "timer", n) /\ node \in [Names -> Node]
                    /\ node' = [node EXCEPT ![n].token = k, ![n].queue = q]
    BY <1>2, <1>4, <2>1 DEF Arm, Frame, Typed
  <2>4. Steps(t) /\ AtWork(t) /\ Under(t, stack[t]) /\ Replaced(stack[t], stack'[t], f)
    BY <1>1, <2>2, <2>3, Replaces DEF Halting
  <2>5. \A m \in Names : Lasts(m) /\ (node'[m].isActive <=> node[m].isActive)
    <3>1. PICK r : r = [[node[n] EXCEPT !.token = k] EXCEPT !.queue = q]
      OBVIOUS
    <3>2. node' = [node EXCEPT ![n] = r]
      BY <2>3, <3>1
    <3>3. r.isActive = node[n].isActive /\ r.done = node[n].done /\ r.thread = node[n].thread
      BY <2>3, <3>1 DEF Node
    <3> QED
      BY <2>3, <3>2, <3>3 DEF Lasts
  <2>6. \A m \in Names :
          /\ Lasts(m)
          /\ node[m].isActive => node'[m].isActive \/ (Leaves2(t, m) /\ f.at \in Halting)
          /\ Has(stack[t], m, Unstarted) /\ Has(stack'[t], m, Unstarted) => node'[m].isActive
    BY <2>5 DEF Parts, QuietEntered
  <2>7. ~Has(stack[n], n, {"action"})
    <3>1. CASE n # t
      BY <2>3, <3>1 DEF Free, Has, Holders, Threads
    <3>2. CASE n = t
      <4>1. /\ Len(stack[t]) \in Nat \ {0} /\ stack[t][Len(stack[t])].at = "arm"
            /\ stack[t][Len(stack[t])].node = n /\ Layout(t, stack[t])
        BY <1>1, <1>2, TopOf DEF Parts, Laid
      <4>2. Len(stack[t]) \in 1 .. Len(stack[t]) /\ Has(stack[t], n, Unstarted)
        BY <4>1 DEF Has, Unstarted
      <4>3. Quiet(n)
        BY <4>2 DEF Parts, QuietEntered
      <4>4. stack[t][Len(stack[t])].at \in {"action", "ending"} \cup Halting
        BY <3>2, <4>1, <4>2, <4>3, QuietIs
      <4> QED
        BY <4>1, <4>4 DEF Halting
    <3> QED
      BY <3>1, <3>2
  <2> QED
    BY <1>1, <1>2, <2>2, <2>4, <2>6, <2>7, ReplaceFlows DEF Halting, Fires, Unstarted
<1> QED
  BY <1>3, <1>4

LEMMA ActivateFlows ==
  ASSUME Typed, Parts, NEW t \in Threads, Activate(t)
  PROVE  Flows(t)
<1>1. At(t, "activate")
  BY DEF Activate
<1>2. PICK n \in Names : n = Here(t)
  BY <1>1, TopOf
<1>3. CASE node[n].isActive
  <2>1. Return(t) /\ node' = node
    BY <1>2, <1>3 DEF Activate
  <2> QED
    BY <1>1, <2>1, NodesKept, PopFlows
<1>4. CASE ~node[n].isActive
  <2>1. PICK f : f = [at |-> "entering", node |-> n, to |-> Nobody]
    OBVIOUS
  <2>2. f.at = "entering" /\ f.node = n /\ Fits(t, f)
    BY <2>1 DEF Fits, FrameOf, Places
  <2>3. /\ Become(t, <<f>>) /\ node \in [Names -> Node]
        /\ node' = [node EXCEPT ![n].isActive = TRUE, ![n].visit = @ + 1]
    BY <1>2, <1>4, <2>1 DEF Activate, Frame, Typed
  <2>4. Steps(t) /\ AtWork(t) /\ Under(t, stack[t]) /\ Replaced(stack[t], stack'[t], f)
    BY <1>1, <2>2, <2>3, Replaces DEF Halting
  <2>5. PICK o : o = [node[n] EXCEPT !.isActive = TRUE]
    OBVIOUS
  <2>6. PICK r : r = [o EXCEPT !.visit = @ + 1]
    OBVIOUS
  <2>7. node' = [node EXCEPT ![n] = r]
    BY <2>3, <2>5, <2>6
  <2>8. r.isActive /\ r.done = node[n].done /\ r.thread = node[n].thread
    BY <2>3, <2>5, <2>6 DEF Node
  <2>9. node'[n].isActive /\ \A m \in Names :
          /\ Lasts(m)
          /\ node[m].isActive => node'[m].isActive
    BY <2>3, <2>7, <2>8 DEF Lasts
  <2>10. \A m \in Names :
           /\ Lasts(m)
           /\ node[m].isActive => node'[m].isActive \/ (Leaves2(t, m) /\ f.at \in Halting)
           /\ Has(stack[t], m, Unstarted) /\ Has(stack'[t], m, Unstarted) => node'[m].isActive
    BY <2>9 DEF Parts, QuietEntered
  <2> QED
    BY <1>1, <1>2, <1>4, <2>2, <2>4, <2>9, <2>10, ReplaceFlows DEF Halting, Fires, Unstarted
<1> QED
  BY <1>3, <1>4

(* Who deactivates a node stops its timer at once; its own thread is quiet then. *)
LEMMA DeactivateFlows ==
  ASSUME Typed, Parts, NEW t \in Threads, Deactivate(t)
  PROVE  Flows(t)
<1>1. At(t, "deactivate")
  BY DEF Deactivate
<1>2. PICK n \in Names : n = Here(t)
  BY <1>1, TopOf
<1>3. /\ Len(stack[t]) \in Nat \ {0} /\ stack[t][Len(stack[t])].at = "deactivate"
      /\ stack[t][Len(stack[t])].node = n
  BY <1>1, <1>2, TopOf
<1>4. node' = Deactivated(n) /\ Become(t, Stopping(n))
  BY <1>2 DEF Deactivate
<1>5. \A m \in Names : Lasts(m) /\ (node'[m].isActive <=> node[m].isActive /\ m # n)
  BY <1>4, DeactivatedIs DEF Lasts
<1>6. PICK f : /\ f.at = "stop" /\ f.node = n /\ Fits(t, f)
               /\ Stopping(n) = IF node[n].isActive THEN <<f>> ELSE <<>>
  BY StoppingIs
<1>7. CASE ~node[n].isActive
  <2>1. Return(t)
    BY <1>4, <1>6, <1>7 DEF Return
  <2>2. \A m \in Names : Lasts(m) /\ (node'[m].isActive <=> node[m].isActive)
    BY <1>5, <1>7
  <2> QED
    BY <1>1, <2>1, <2>2, PopFlows
<1>8. CASE node[n].isActive
  <2>1. Become(t, <<f>>)
    BY <1>4, <1>6, <1>8
  <2>2. Steps(t) /\ AtWork(t) /\ Under(t, stack[t]) /\ Replaced(stack[t], stack'[t], f)
    BY <1>1, <1>6, <2>1, Replaces DEF Halting
  <2>3. Len(stack'[t]) = Len(stack[t]) /\ stack'[t][Len(stack'[t])] = f /\ stack'[t] # <<>>
    <3>1. Len(stack'[t]) = Len(stack[t]) /\ stack'[t][Len(stack'[t])] = f
      BY <2>2 DEF Replaced
    <3> QED
      BY <1>3, <3>1
  <2>4. At(t, "stop")' /\ Here(t)' = n
    BY <1>6, <2>3 DEF At, Here, Last
  <2>5. /\ Len(stack[t]) = 2 /\ stack[t][1].at \in {"action", "choose"}
    <3>1. PICK i \in 1 .. Len(stack[t]) : i = Len(stack[t])
      BY <1>3
    <3>2. i = 2 /\ stack[t][1].at \in {"action", "choose"}
      BY <1>3, <2>2, <3>1 DEF Under, Shape
    <3> QED
      BY <3>1, <3>2
  <2>6. Leaves2(t, n)
    <3>1. CASE t \in Users
      BY <2>4, <3>1 DEF Leaves2
    <3>2. CASE t \in Names
      <4>1. t = n
        <5>1. Len(stack[t]) \in 1 .. Len(stack[t]) /\ Layout(t, stack[t])
          BY <1>3 DEF Parts, Laid
        <5> QED
          BY <1>3, <3>2, <5>1 DEF Layout
      <4>2. ~Quiet(n)
        <5>1. Has(stack[t], n, Fires)
          BY <1>3 DEF Has, Fires
        <5> QED
          BY <4>1, <5>1 DEF Quiet
      <4>3. \A m \in Names : ~Has(stack'[t], m, Fires)
        <5>1. \A m \in Names : ~Below(stack[t], m, Fires)
          BY <2>5 DEF Below, Fires
        <5>2. \A m \in Names : ~Is(f, m, Fires)
          BY <1>6 DEF Is, Fires
        <5> QED
          BY <1>3, <2>2, <5>1, <5>2, HasReplaced
      <4>4. Quiet(n)'
        BY <2>4, <4>1, <4>3 DEF Quiet
      <4> QED
        BY <4>1, <4>2, <4>4 DEF Leaves2
    <3> QED
      BY <3>1, <3>2 DEF Threads
  <2>7. \A m \in Names : ~Has(stack'[t], m, Unstarted)
    <3>1. \A m \in Names : ~Below(stack[t], m, Unstarted)
      BY <2>5 DEF Below, Unstarted
    <3>2. \A m \in Names : ~Is(f, m, Unstarted)
      BY <1>6 DEF Is, Unstarted
    <3> QED
      BY <1>3, <2>2, <3>1, <3>2, HasReplaced
  <2>8. t \in Names => n = t
    <3>1. Len(stack[t]) \in 1 .. Len(stack[t]) /\ Layout(t, stack[t])
      BY <1>3 DEF Parts, Laid
    <3> QED
      BY <1>3, <3>1 DEF Layout
  <2>9. \A m \in Names :
          /\ Lasts(m)
          /\ node[m].isActive => node'[m].isActive \/ (Leaves2(t, m) /\ f.at \in Halting)
          /\ Has(stack[t], m, Unstarted) /\ Has(stack'[t], m, Unstarted) => node'[m].isActive
    BY <1>5, <1>6, <2>6, <2>7 DEF Halting
  <2> QED
    BY <1>1, <1>2, <1>6, <2>2, <2>8, <2>9, ReplaceFlows DEF Halting, Fires, Unstarted
<1> QED
  BY <1>7, <1>8

(* A push away from node n: its own thread is quiet, so that it has not left any. *)
LEMMA CloseFlows ==
  ASSUME Typed, Parts, NEW t \in Threads, Close(t)
  PROVE  Flows(t)
<1>1. At(t, "close") /\ ~At(t, "ending") /\ ~At(t, "stop")
  BY DEF Close, At
<1>2. PICK n \in Names : n = Here(t)
  BY <1>1, TopOf
<1>3. /\ Len(stack[t]) \in Nat \ {0} /\ stack[t][Len(stack[t])].at = "close"
      /\ stack[t][Len(stack[t])].node = n
  BY <1>1, <1>2, TopOf
<1>4. PICK f : f = [at |-> "left", node |-> n, to |-> Nobody]
  OBVIOUS
<1>5. PICK g : g = [at |-> "stop", node |-> n, to |-> Nobody]
  OBVIOUS
<1>6. /\ f.at = "left" /\ f.node = n /\ Fits(t, f)
      /\ g.at = "stop" /\ g.node = n /\ Fits(t, g)
  BY <1>4, <1>5 DEF Fits, FrameOf, Places
<1>7. Become(t, <<f, g>>) /\ node' = Deactivated(n)
  BY <1>2, <1>4, <1>5 DEF Close, Frame
<1>8. /\ Steps(t) /\ AtWork(t) /\ Under(t, stack[t]) /\ Called(stack[t], stack'[t], f, g)
  BY <1>1, <1>6, <1>7, Calls2 DEF Halting, Callers
<1>9. \A m \in Names : Lasts(m) /\ (node'[m].isActive <=> node[m].isActive /\ m # n)
  BY <1>7, DeactivatedIs DEF Lasts
<1>10. Layout(t, stack[t]) /\ Single(stack[t])
  BY DEF Parts, Laid
<1>11. t \in Names => Len(stack[t]) > 1
  BY <1>8 DEF AtWork
<1>12. Layout(t, stack'[t])
  <2>1. t \in Names => Fitting(t, stack[t], f, g)
    BY <1>3, <1>6 DEF Fitting, Halting, Fires
  <2> QED
    BY <1>6, <1>8, <1>10, <1>11, <2>1, LayoutCalled
<1>13. Single(stack'[t])
  BY <1>3, <1>6, <1>8, <1>10, SingleCalled DEF Unstarted
<1>14. \A m, places : Has(stack'[t], m, places) <=>
         Below(stack[t], m, places) \/ Is(f, m, places) \/ Is(g, m, places)
  BY <1>3, <1>8, HasCalled
<1>15. \A m, places : Has(stack[t], m, places) <=>
         Below(stack[t], m, places) \/ Is(stack[t][Len(stack[t])], m, places)
  BY <1>3, HasIs
<1>16. \A m, places : Gains(t, m, places) => Is(f, m, places) \/ Is(g, m, places)
  BY <1>14, <1>15 DEF Gains
<1>17. Has(stack[t], n, Unstarted) /\ ~Has(stack'[t], n, Unstarted)
  <2>1. Is(stack[t][Len(stack[t])], n, Unstarted)
    BY <1>3 DEF Is, Unstarted
  <2>2. ~Below(stack[t], n, Unstarted)
    BY <1>3, <1>10, SingleBelow DEF Unstarted
  <2>3. ~Is(f, n, Unstarted) /\ ~Is(g, n, Unstarted)
    BY <1>6 DEF Is, Unstarted
  <2> QED
    BY <1>14, <1>15, <2>1, <2>2, <2>3
<1>18. \A m \in Names : Has(stack'[t], m, Unstarted) => node'[m].isActive
  <2>1. \A m \in Names : Has(stack'[t], m, Unstarted) => m # n /\ Has(stack[t], m, Unstarted)
    BY <1>6, <1>14, <1>15, <1>17 DEF Is, Unstarted
  <2> QED
    BY <1>9, <2>1 DEF Parts, QuietEntered
<1>19. \A m \in Names : node[m].isActive /\ ~node'[m].isActive => Leaves2(t, m)
  BY <1>9, <1>17 DEF Leaves2
<1>20. Quiet(n)
  BY <1>17 DEF Parts, QuietEntered
<1>21. Layout(n, stack[n]) /\ n \in Threads
  BY DEF Parts, Laid, Threads
<1>22. n # t
  <2>1. ASSUME n = t PROVE FALSE
    <3>1. Len(stack[n]) \in 1 .. Len(stack[n]) /\ stack[n][Len(stack[n])].at = "close"
      BY <1>3, <2>1
    <3>2. stack[n][Len(stack[n])].at \in {"action", "ending"} \cup Halting
      BY <1>20, <1>21, <3>1, QuietIs
    <3> QED
      BY <3>1, <3>2 DEF Halting
  <2> QED
    BY <2>1
<1>23. \A m \in Names : ~Has(stack[n], m, {"left"})
  <2>1. \A i \in 1 .. Len(stack[n]) : stack[n][i].at \in {"action", "ending"} \cup Halting
    BY <1>20, <1>21, QuietIs
  <2> QED
    BY <2>1 DEF Has, Halting
<1>24. \A m \in Names :
         /\ ~Gains(t, m, Unstarted) /\ ~Gains(t, m, Fires) /\ ~Gains(t, m, {"start"})
         /\ ~Gains(t, m, {"action"})
         /\ Gains(t, m, {"left"}) => m = n
  BY <1>6, <1>16 DEF Is, Unstarted, Fires
<1> QED
  BY <1>1, <1>8, <1>9, <1>12, <1>13, <1>18, <1>19, <1>22, <1>23, <1>24 DEF Flows

(* Only users process events. *)
LEMMA MoveFlows ==
  ASSUME Typed, Parts, NEW t \in Threads, Move(t)
  PROVE  Flows(t)
<1>1. At(t, "process") /\ ~At(t, "ending") /\ ~At(t, "stop")
  BY DEF Move, At
<1>2. PICK n \in Names : n = Here(t)
  BY <1>1, TopOf
<1>3. /\ Len(stack[t]) \in Nat \ {0} /\ stack[t][Len(stack[t])].at = "process"
      /\ stack[t][Len(stack[t])].node = n /\ To(t) \in Events
  BY <1>1, <1>2, TopOf DEF Fits
<1>4. Layout(t, stack[t]) /\ Single(stack[t])
  BY DEF Parts, Laid
<1>5. t \in Users /\ t \notin Names
  <2>1. Len(stack[t]) \in 1 .. Len(stack[t])
    BY <1>3
  <2>2. t \notin Names
    BY <1>3, <1>4, <2>1 DEF Layout
  <2> QED
    BY <2>2 DEF Threads
<1>6. PICK dest \in Names \cup {Nobody} : dest = node[n].trans[To(t)]
  BY <1>3 DEF Typed, Node
<1>7. CASE Stays(n, dest)
  <2>1. Return(t) /\ node' = node
    BY <1>2, <1>6, <1>7 DEF Move
  <2> QED
    BY <1>1, <2>1, NodesKept, PopFlows
<1>8. CASE ~Stays(n, dest)
  <2>1. PICK f : f = [at |-> "moving", node |-> n, to |-> dest]
    OBVIOUS
  <2>2. f.at = "moving" /\ f.node = n /\ Fits(t, f) /\ f \in FrameOf
    BY <2>1 DEF Fits, FrameOf, Places
  <2>3. PICK g : /\ g.at = "stop" /\ g.node = n /\ Fits(t, g)
                 /\ Stopping(n) = IF node[n].isActive THEN <<g>> ELSE <<>>
    BY StoppingIs
  <2>4. g \in FrameOf
    BY <2>3 DEF Fits
  <2>5. Become(t, <<f>> \o Stopping(n)) /\ node' = Deactivated(n)
    BY <1>2, <1>6, <1>8, <2>1 DEF Move, Frame
  <2>6. \A m \in Names : Lasts(m) /\ (node'[m].isActive <=> node[m].isActive /\ m # n)
    BY <2>5, DeactivatedIs DEF Lasts
  <2>7. CASE ~node[n].isActive
    <3>1. Become(t, <<f>>)
      BY <2>2, <2>3, <2>4, <2>5, <2>7, Frames
    <3>2. Steps(t) /\ AtWork(t) /\ Under(t, stack[t]) /\ Replaced(stack[t], stack'[t], f)
      BY <1>1, <2>2, <3>1, Replaces DEF Halting
    <3>3. \A m \in Names :
            /\ Lasts(m)
            /\ node[m].isActive => node'[m].isActive \/ (Leaves2(t, m) /\ f.at \in Halting)
            /\ Has(stack[t], m, Unstarted) /\ Has(stack'[t], m, Unstarted) => node'[m].isActive
      BY <2>6, <2>7 DEF Parts, QuietEntered
    <3> QED
      BY <1>1, <1>5, <2>2, <3>2, <3>3, ReplaceFlows DEF Halting, Fires, Unstarted
  <2>8. CASE node[n].isActive
    <3>1. Become(t, <<f, g>>)
      BY <2>2, <2>3, <2>4, <2>5, <2>8, Frames
    <3>2. Steps(t) /\ AtWork(t) /\ Under(t, stack[t]) /\ Called(stack[t], stack'[t], f, g)
      BY <1>1, <2>2, <2>3, <3>1, Calls2 DEF Halting, Callers
    <3>3. Layout(t, stack'[t]) /\ Single(stack'[t])
      BY <1>3, <1>4, <1>5, <2>2, <2>3, <3>2, LayoutCalled, SingleCalled DEF Unstarted
    <3>4. /\ \A m, places : Has(stack'[t], m, places) <=>
               Below(stack[t], m, places) \/ Is(f, m, places) \/ Is(g, m, places)
          /\ \A m, places : Has(stack[t], m, places) <=>
               Below(stack[t], m, places) \/ Is(stack[t][Len(stack[t])], m, places)
      BY <1>3, <3>2, HasCalled, HasIs
    <3>5. \A m, places : f.at \notin places /\ g.at \notin places => ~Gains(t, m, places)
      BY <3>4 DEF Gains, Is
    <3>6. \A m \in Names :
            /\ ~Gains(t, m, Unstarted) /\ ~Gains(t, m, Fires) /\ ~Gains(t, m, {"start"})
            /\ ~Gains(t, m, {"action"})
      BY <2>2, <2>3, <3>5 DEF Unstarted, Fires
    <3>7. Len(stack'[t]) = Len(stack[t]) + 1 /\ stack'[t][Len(stack'[t])] = g
      BY <3>2 DEF Called
    <3>8. stack'[t] # <<>>
      BY <1>3, <3>7
    <3>9. At(t, "stop")' /\ Here(t)' = n
      BY <2>3, <3>7, <3>8 DEF At, Here, Last
    <3>10. Leaves2(t, n)
      BY <1>5, <3>9 DEF Leaves2
    <3>11. \A m \in Names : ~Has(stack'[t], m, Unstarted)
      <4>1. Len(stack[t]) = 1
        <5>1. Len(stack[t]) \in 1 .. Len(stack[t])
          BY <1>3
        <5> QED
          BY <1>3, <1>4, <5>1 DEF Layout
      <4>2. \A m \in Names : ~Has(stack[t], m, Unstarted)
        BY <1>3, <4>1 DEF Has, Unstarted
      <4> QED
        BY <3>6, <4>2 DEF Gains
    <3> QED
      BY <1>1, <1>5, <2>6, <3>2, <3>3, <3>6, <3>10, <3>11 DEF Flows
  <2> QED
    BY <2>7, <2>8
<1> QED
  BY <1>7, <1>8

LEMMA LeaveCBFlows ==
  ASSUME Typed, Parts, NEW t \in Threads, NEW from \in DOMAIN Afterwards, LeaveCB(t, from)
  PROVE  Flows(t)
<1>1. from \in {"moving", "fired", "pushed"}
  BY DEF Afterwards
<1>2. At(t, from) /\ ~At(t, "ending") /\ ~At(t, "stop")
  BY <1>1 DEF LeaveCB, At
<1>3. /\ Len(stack[t]) \in Nat \ {0} /\ stack[t][Len(stack[t])].at = from
      /\ Here(t) = stack[t][Len(stack[t])].node /\ Here(t) \in Names
      /\ To(t) \in Names \cup {Nobody}
      /\ from = "fired" => t = Here(t)
  BY <1>1, <1>2, TopOf DEF Fits
<1>4. PICK after : after = Afterwards[from]
  OBVIOUS
<1>5. after = IF from = "moving" THEN "left" ELSE IF from = "fired" THEN "deactivate" ELSE "close"
  BY <1>1, <1>4 DEF Afterwards
<1>6. PICK f : f = [at |-> after, node |-> Here(t), to |-> To(t)]
  OBVIOUS
<1>7. f.at = after /\ f.node = Here(t) /\ Fits(t, f)
  BY <1>1, <1>3, <1>5, <1>6 DEF Fits, FrameOf, Places
<1>8. PICK g : g = [at |-> "leaving", node |-> Here(t), to |-> To(t)]
  OBVIOUS
<1>9. g.at = "leaving" /\ g.node = Here(t) /\ Fits(t, g)
  BY <1>3, <1>8 DEF Fits, FrameOf, Places
<1>10. f \in FrameOf /\ g \in FrameOf
  BY <1>7, <1>9 DEF Fits
<1>11. node' = node /\ states \subseteq Names
  BY DEF LeaveCB, Typed
<1>12. Layout(t, stack[t]) /\ Single(stack[t]) /\ AtWork(t)
  BY <1>1, <1>2, WorkingStack DEF Parts, Laid
<1>13. t \in Names => Len(stack[t]) > 1 /\ Fitting(t, stack[t], f, g)
  <2>1. t \in Names => Len(stack[t]) > 1
    BY <1>12 DEF AtWork
  <2>2. t \in Names => from # "moving"
    <3>1. Len(stack[t]) \in 1 .. Len(stack[t])
      BY <1>3
    <3> QED
      BY <1>3, <1>12, <3>1 DEF Layout
  <2> QED
    BY <1>1, <1>3, <1>5, <1>7, <1>9, <2>1, <2>2 DEF Fitting, Halting, Fires
<1>14. f.at \in Unstarted => ~Below(stack[t], f.node, Unstarted)
  <2>1. f.at \in Unstarted => from \in Unstarted
    BY <1>1, <1>5, <1>7 DEF Unstarted
  <2> QED
    BY <1>3, <1>7, <1>12, <2>1, SingleBelow
<1>15. PICK h : h.at = "activate" /\ (To(t) \in states => h = [at |-> "activate", node |-> To(t), to |-> Nobody])
  <2>1. PICK h : h = [at |-> "activate", node |-> To(t), to |-> Nobody]
    OBVIOUS
  <2> QED
    BY <2>1
<1>16. /\ Steps(t) /\ Layout(t, stack'[t]) /\ Single(stack'[t])
       /\ \A n, places : "activate" \notin places =>
            (Has(stack'[t], n, places) <=>
               Below(stack[t], n, places) \/ Is(f, n, places) \/ Is(g, n, places))
  <2>1. CASE To(t) \in states
    <3>1. Fits(t, h)
      BY <1>11, <1>15, <2>1 DEF Fits, FrameOf, Places
    <3>2. Become(t, <<f, g>> \o <<h>>)
      BY <1>4, <1>6, <1>8, <1>15, <2>1 DEF LeaveCB, Frame
    <3>3. Become(t, <<f, g, h>>)
      BY <1>10, <3>1, <3>2, Frames DEF Fits
    <3>4. /\ Steps(t) /\ AtWork(t) /\ Under(t, stack[t])
          /\ CalledOn(stack[t], stack'[t], f, g, h)
      BY <1>1, <1>2, <1>5, <1>7, <1>9, <1>15, <3>1, <3>3, Calls3 DEF Halting, Callers
    <3>5. Layout(t, stack'[t])
      BY <1>5, <1>7, <1>9, <1>12, <1>13, <1>15, <3>4, LayoutCalledOn
    <3>6. Single(stack'[t])
      BY <1>3, <1>9, <1>12, <1>14, <1>15, <3>4, SingleCalledOn DEF Unstarted
    <3>7. \A n, places : "activate" \notin places => ~Is(h, n, places)
      BY <1>15 DEF Is
    <3> QED
      BY <1>3, <3>4, <3>5, <3>6, <3>7, HasCalledOn
  <2>2. CASE To(t) \notin states
    <3>1. Become(t, <<f, g>> \o <<>>)
      BY <1>4, <1>6, <1>8, <2>2 DEF LeaveCB, Frame
    <3>2. Become(t, <<f, g>>)
      BY <1>10, <3>1, Frames
    <3>3. /\ Steps(t) /\ AtWork(t) /\ Under(t, stack[t])
          /\ Called(stack[t], stack'[t], f, g)
      BY <1>1, <1>2, <1>5, <1>7, <1>9, <3>2, Calls2 DEF Halting, Callers
    <3>4. Layout(t, stack'[t])
      BY <1>5, <1>7, <1>9, <1>12, <1>13, <3>3, LayoutCalled
    <3>5. Single(stack'[t])
      BY <1>3, <1>9, <1>12, <1>14, <3>3, SingleCalled DEF Unstarted
    <3> QED
      BY <1>3, <3>3, <3>4, <3>5, HasCalled
  <2> QED
    BY <2>1, <2>2
<1>17. \A n, places : Has(stack[t], n, places) <=>
         Below(stack[t], n, places) \/ Is(stack[t][Len(stack[t])], n, places)
  BY <1>3, HasIs
<1>18. \A n, places : "activate" \notin places /\ "leaving" \notin places =>
         (Gains(t, n, places) =>
            Is(f, n, places) /\ ~Is(stack[t][Len(stack[t])], n, places))
  BY <1>9, <1>16, <1>17 DEF Gains, Is
<1>19. \A n \in Names :
         /\ ~Gains(t, n, Unstarted) /\ ~Gains(t, n, {"start"}) /\ ~Gains(t, n, {"action"})
         /\ ~Gains(t, n, Fires)
  <2>1. ~("activate" \in Unstarted \cup Fires) /\ ~("leaving" \in Unstarted \cup Fires)
    BY DEF Unstarted, Fires
  <2>2. \A n \in Names : ~Gains(t, n, Unstarted)
    BY <1>1, <1>3, <1>5, <1>7, <1>18, <2>1 DEF Is, Unstarted
  <2>3. \A n \in Names : ~Gains(t, n, Fires)
    BY <1>1, <1>3, <1>5, <1>7, <1>18, <2>1 DEF Is, Fires
  <2>4. \A n \in Names : ~Gains(t, n, {"start"}) /\ ~Gains(t, n, {"action"})
    BY <1>1, <1>5, <1>7, <1>18 DEF Is
  <2> QED
    BY <2>2, <2>3, <2>4
<1>20. t \in Names => \A n \in Names : ~Gains(t, n, {"left"})
  <2>1. t \in Names => from # "moving"
    BY <1>5, <1>7, <1>9, <1>13 DEF Fitting
  <2> QED
    BY <1>1, <1>5, <1>7, <1>18, <2>1 DEF Is
<1>21. \A n \in Names : Has(stack'[t], n, Unstarted) => node'[n].isActive
  BY <1>11, <1>19 DEF Gains, Parts, QuietEntered
<1> QED
  BY <1>2, <1>11, <1>12, <1>16, <1>19, <1>20, <1>21, NodesKept DEF Flows

LEMMA FlowFlows ==
  ASSUME Typed, Parts, NEW t \in Threads, Flow(t)
  PROVE  Flows(t)
BY MoveFlows, LeaveCBFlows, LeftFlows, ActivateFlows, EnterCBFlows, EnteredFlows, PushFlows,
   CloseFlows, ArmFlows, StartFlows, DeactivateFlows, StopFlows, JoinFlows, UnnotifyFlows,
   ChooseFlows
   DEF Flow

(* A node as far as Parts is concerned. *)
SameNode(n) ==
  /\ node'[n].isActive <=> node[n].isActive
  /\ node'[n].done <=> node[n].done
  /\ node'[n].thread = "runs" <=> node[n].thread = "runs"

(* What a thread t does that is not at work. *)
LEMMA RestUntangles ==
  ASSUME Typed, Typed', Parts, NEW t \in Threads, ~AtWork(t),
         \A u \in Threads \ {t} : stack'[u] = stack[u],
         \A n \in Names : SameNode(n),
         Layout(t, stack'[t]), Single(stack'[t]),
         \A n \in Names : ~Has(stack'[t], n, Unstarted) /\ ~Has(stack'[t], n, {"left"}),
         AtWork(t)' => \A u \in Threads \ {t} : AtWork(u) => {t, u} \subseteq Names,
         t \in Names /\ Quiet(t) => Quiet(t)',
         t \in Names /\ Has(stack'[t], t, {"action"}) => Has(stack[t], t, {"action"}) \/ ~Quiet(t)
  PROVE  Parts'
<1>1. \A u \in Threads \ {t} : AtWork(u)' <=> AtWork(u)
  BY DEF AtWork
<1>2. OneUser'
  <2>1. ASSUME NEW u \in Users, NEW v \in Threads, AtWork(u)', AtWork(v)', v # u
        PROVE  FALSE
    <3>1. u \in Threads /\ u \notin Names
      BY StateMachineAssumption DEF Threads
    <3>2. CASE t \notin {u, v}
      BY <1>1, <2>1, <3>1, <3>2 DEF Parts, OneUser
    <3>3. CASE t = u
      BY <1>1, <2>1, <3>1, <3>3
    <3>4. CASE t = v
      BY <1>1, <2>1, <3>1, <3>4
    <3> QED
      BY <3>2, <3>3, <3>4
  <2> QED
    BY <2>1 DEF OneUser
<1>3. Laid'
  BY DEF Parts, Laid
<1>4. \A u \in Threads, n \in Names : Has(stack'[u], n, Unstarted) =>
        u # t /\ Has(stack[u], n, Unstarted)
  OBVIOUS
<1>5. OneEnters'
  BY <1>4 DEF Parts, OneEnters
<1>6. ASSUME NEW n \in Names, Quiet(n) PROVE Quiet(n)'
  <2>1. CASE n = t
    BY <1>6, <2>1
  <2>2. CASE n # t
    <3>1. stack'[n] = stack[n]
      BY <2>2 DEF Threads
    <3> QED
      BY <1>6, <3>1, QuietKept DEF SameNode
  <2> QED
    BY <2>1, <2>2
<1>7. QuietEntered'
  BY <1>4, <1>6 DEF Parts, QuietEntered, SameNode
<1>8. QuietLeft'
  <2>1. ASSUME NEW n \in Names, ~node'[n].isActive
        PROVE  Quiet(n)' \/ \E u \in Users : At(u, "stop")' /\ Here(u)' = n
    <3>1. CASE Quiet(n)
      BY <1>6, <3>1
    <3>2. CASE \E u \in Users : At(u, "stop") /\ Here(u) = n
      <4>1. PICK u \in Users : At(u, "stop") /\ Here(u) = n
        BY <3>2
      <4>2. u \in Threads /\ AtWork(u)
        BY <4>1, WorkingStack DEF Threads
      <4>3. stack'[u] = stack[u]
        BY <4>2
      <4>4. At(u, "stop")' /\ Here(u)' = n
        BY <4>1, <4>3 DEF At, Here
      <4> QED
        BY <4>4
    <3> QED
      BY <2>1, <3>1, <3>2 DEF Parts, QuietLeft, SameNode
  <2> QED
    BY <2>1 DEF QuietLeft
<1>9. Unheld'
  <2>1. ASSUME NEW n \in Names, NEW u \in Threads, Has(stack'[u], n, {"start"}),
               Has(stack'[n], n, {"action"})
        PROVE  FALSE
    <3>1. Has(stack'[u], n, Unstarted)
      BY <2>1 DEF Has, Unstarted
    <3>2. u # t /\ Has(stack[u], n, {"start"}) /\ Has(stack[u], n, Unstarted)
      BY <1>4, <2>1, <3>1
    <3>3. Quiet(n) /\ ~Has(stack[n], n, {"action"})
      BY <3>2 DEF Parts, QuietEntered, Unheld
    <3>4. n = t
      BY <2>1, <3>3 DEF Threads
    <3> QED
      BY <2>1, <3>3, <3>4
  <2> QED
    BY <2>1 DEF Unheld
<1>10. InOrder'
  <2>1. \A u \in Threads, n \in Names : Has(stack'[u], n, {"left"}) => Has(stack[u], n, {"left"})
    OBVIOUS
  <2>2. ASSUME NEW S \in (SUBSET Names) \ {{}}
        PROVE  \E u \in S : \A n \in S : ~Has(stack'[u], n, {"left"})
    BY <2>1 DEF Parts, InOrder, Threads
  <2> QED
    BY <2>2 DEF InOrder
<1> QED
  BY <1>2, <1>3, <1>5, <1>7, <1>8, <1>9, <1>10 DEF Parts

(* What leaves the stacks as they are. *)
LEMMA SameUntangles ==
  ASSUME Parts, stack' = stack, \A n \in Names : SameNode(n)
  PROVE  Parts'
<1>1. \A t : /\ AtWork(t)' <=> AtWork(t)
             /\ \A place : At(t, place)' <=> At(t, place)
             /\ Here(t)' = Here(t)
  BY DEF AtWork, At, Here
<1>2. \A n \in Names : Quiet(n)' <=> Quiet(n)
  BY <1>1 DEF Quiet, SameNode
<1>3. OneUser' /\ Laid' /\ OneEnters' /\ Unheld' /\ InOrder'
  BY <1>1 DEF Parts, OneUser, Laid, OneEnters, Unheld, InOrder
<1>4. QuietEntered' /\ QuietLeft'
  BY <1>1, <1>2 DEF Parts, QuietEntered, QuietLeft, SameNode
<1> QED
  BY <1>3, <1>4 DEF Parts

LEMMA ThreadEndsUntangles ==
  ASSUME Typed, Typed', Parts, NEW n \in Names, ThreadEnds(n)
  PROVE  Parts'
<1>1. PICK waits \in SUBSET Threads, f \in FrameOf : Ends(n, waits, f)
  BY ThreadEndsIs
<1>2. /\ f.at = "unnotify" /\ f.node = n
      /\ waits = {t \in Threads : At(t, "wait") /\ Here(t) = n} /\ n \notin waits
      /\ Resting(stack[n]) /\ stack'[n] = <<>> /\ Resting(stack'[n])
      /\ \A t \in Threads \ ({n} \cup waits) : stack'[t] = stack[t]
      /\ n \in Threads
  BY <1>1 DEF Ends, Threads
<1>3. \A t \in waits : /\ t \in Threads /\ Under(t, stack[t]) /\ Replaced(stack[t], stack'[t], f)
                       /\ stack[t][Len(stack[t])].at = "wait"
                       /\ stack[t][Len(stack[t])].node = n
                       /\ Len(stack[t]) \in Nat \ {0} /\ Len(stack'[t]) = Len(stack[t])
  BY <1>1 DEF Ends, Under, Replaced
<1>4. /\ \A m \in Names : /\ node'[m].isActive <=> node[m].isActive
                          /\ node'[m].done = node[m].done
                          /\ m # n => node'[m].thread = node[m].thread
      /\ node'[n].thread # "runs"
  <2>1. node \in [Names -> Node]
    BY DEF Typed
  <2> QED
    BY <1>1, <2>1 DEF Ends
<1>5. \A t \in Threads : AtWork(t)' <=> AtWork(t)
  <2>1. \A k \in {0, 1} : ~(k > 1)
    OBVIOUS
  <2>2. ~AtWork(n) /\ ~AtWork(n)'
    BY <1>2, <2>1 DEF AtWork, Resting
  <2> QED
    BY <1>2, <1>3, <2>2 DEF AtWork
<1>6. ASSUME NEW t \in Threads, NEW m, NEW places,
             places \cap (Halting \cup {"action", "ending"}) = {}
      PROVE  Has(stack'[t], m, places) <=> Has(stack[t], m, places)
  <2>1. CASE t = n
    BY <1>2, <1>6, <2>1, RestingHas
  <2>2. CASE t \in waits
    <3>1. ~Is(stack[t][Len(stack[t])], m, places) /\ ~Is(f, m, places)
      BY <1>2, <1>3, <1>6, <2>2 DEF Is, Halting
    <3> QED
      BY <1>3, <2>2, <3>1, HasIs, HasReplaced
  <2>3. CASE t \notin {n} \cup waits
    BY <1>2, <2>3
  <2> QED
    BY <2>1, <2>2, <2>3
<1>7. Laid'
  <2>1. ASSUME NEW t \in Threads PROVE Layout(t, stack'[t]) /\ Single(stack'[t])
    <3>1. Layout(t, stack[t]) /\ Single(stack[t])
      BY DEF Parts, Laid
    <3>2. CASE t = n
      BY <1>2, <3>2 DEF Layout, Single
    <3>3. CASE t \in waits
      <4>1. Layout(t, stack'[t])
        BY <1>2, <1>3, <3>1, <3>3, LayoutReplaced DEF Halting, Fires
      <4>2. Single(stack'[t])
        BY <1>2, <1>3, <3>1, <3>3, SingleReplaced DEF Unstarted
      <4> QED
        BY <4>1, <4>2
    <3>4. CASE t \notin {n} \cup waits
      BY <1>2, <3>1, <3>4
    <3> QED
      BY <3>2, <3>3, <3>4
  <2> QED
    BY <2>1 DEF Laid
<1>8. ASSUME NEW t \in Threads \ {n}
      PROVE  /\ At(t, "stop") => At(t, "stop")' /\ Here(t)' = Here(t)
             /\ At(t, "ending") => At(t, "ending")'
             /\ stack[t] = <<>> => stack'[t] = <<>>
  <2>1. t \in waits => At(t, "wait")
    BY <1>2
  <2> QED
    BY <1>2, <2>1 DEF At, Here
<1>9. ASSUME NEW m \in Names, Quiet(m) PROVE Quiet(m)'
  <2>1. \A k \in Names : ~Has(stack'[m], k, Fires)
    <3>1. Fires \cap (Halting \cup {"action", "ending"}) = {}
      BY DEF Fires, Halting
    <3> QED
      BY <1>6, <1>9, <3>1 DEF Quiet, Threads
  <2>2. CASE m = n
    BY <1>2, <1>4, <2>1, <2>2 DEF Quiet
  <2>3. CASE m # n
    <3>1. m \in Threads \ {n}
      BY <2>3 DEF Threads
    <3> QED
      BY <1>4, <1>8, <1>9, <2>1, <2>3, <3>1 DEF Quiet
  <2> QED
    BY <2>2, <2>3
<1>10. Unstarted \cap (Halting \cup {"action", "ending"}) = {}
  BY DEF Unstarted, Halting
<1>11. \A m : \A t \in Threads : Has(stack'[t], m, Unstarted) <=> Has(stack[t], m, Unstarted)
  BY <1>6, <1>10
<1>12. OneUser' /\ OneEnters' /\ QuietEntered'
  BY <1>4, <1>5, <1>9, <1>11, StateMachineAssumption
     DEF Parts, OneUser, OneEnters, QuietEntered, Threads
<1>13. QuietLeft'
  <2>1. \A u \in Users : u \in Threads \ {n}
    BY StateMachineAssumption DEF Threads
  <2> QED
    BY <1>4, <1>8, <1>9, <2>1 DEF Parts, QuietLeft
<1>14. InOrder'
  <2>1. {"left"} \cap (Halting \cup {"action", "ending"}) = {}
    BY DEF Halting
  <2>2. \A m : \A t \in Threads : Has(stack'[t], m, {"left"}) <=> Has(stack[t], m, {"left"})
    BY <1>6, <2>1
  <2> QED
    BY <2>2 DEF Parts, InOrder, Threads
<1>15. Unheld'
  <2>1. {"start"} \cap (Halting \cup {"action", "ending"}) = {}
    BY DEF Halting
  <2>2. \A m : \A t \in Threads : Has(stack'[t], m, {"start"}) <=> Has(stack[t], m, {"start"})
    BY <1>6, <2>1
  <2>3. ASSUME NEW t \in Threads, NEW m, Has(stack'[t], m, {"action"})
        PROVE  Has(stack[t], m, {"action"})
    <3>1. CASE t = n
      BY <1>2, <2>3, <3>1 DEF Has
    <3>2. CASE t \in waits
      <4>1. ~Is(f, m, {"action"})
        BY <1>2 DEF Is
      <4> QED
        BY <1>3, <2>3, <3>2, <4>1, HasIs, HasReplaced
    <3>3. CASE t \notin {n} \cup waits
      BY <1>2, <2>3, <3>3
    <3> QED
      BY <3>1, <3>2, <3>3
  <2> QED
    BY <2>2, <2>3 DEF Parts, Unheld, Threads
<1> QED
  BY <1>7, <1>12, <1>13, <1>14, <1>15 DEF Parts

LEMMA OverlapApart ==
  ASSUME NEW t \in Threads, Overlap(t), Apart'
  PROVE  /\ Apart /\ ~At(t, "inside")
         /\ \A u \in Threads \ {t} : AtWork(u) => {t, u} \subseteq Names
<1>1. ~At(t, "inside")
  BY DEF Overlap, Apart
<1>2. Apart
  BY DEF Overlap, Apart
<1>3. ASSUME NEW u \in Threads \ {t}, AtWork(u) PROVE {t, u} \subseteq Names
  <2>1. Both(t, u) \in odd'
    BY <1>3 DEF Overlap
  <2>2. Both(t, u) # "users"
    BY <2>1 DEF Apart
  <2> QED
    BY <2>2 DEF Both
<1> QED
  BY <1>1, <1>2, <1>3

LEMMA DeliverUntangles ==
  ASSUME Typed, Typed', Parts, Apart', NEW n \in Names, NEW e \in node[n].queue, Deliver(n, e)
  PROVE  Parts'
<1>1. /\ n \in Threads /\ Overlap(n) /\ ~node[n].done
      /\ \/ stack[n] = <<>> /\ node[n].thread = "runs"
         \/ At(n, "action")
  BY DEF Threads, Deliver, Awake
<1>2. ~Quiet(n)
  BY <1>1 DEF Quiet, At
<1>3. ~AtWork(n)
  <2>1. Len(stack[n]) \in {0, 1}
    <3>1. CASE At(n, "action")
      <4>1. Len(stack[n]) \in Nat \ {0} /\ stack[n][Len(stack[n])].at = "action" /\ Shape(n, stack[n])
        BY <1>1, <3>1, TopOf, StackOf
      <4>2. PICK k \in 1 .. Len(stack[n]) : k = Len(stack[n])
        BY <4>1
      <4> QED
        BY <4>1, <4>2 DEF Shape
    <3> QED
      BY <1>1, <3>1
  <2>2. \A k \in {0, 1} : ~(k > 1)
    OBVIOUS
  <2> QED
    BY <2>1, <2>2 DEF AtWork
<1>4. \A m \in Names : SameNode(m)
  <2>1. node \in [Names -> Node]
    BY DEF Typed
  <2>2. \E q : node' = [node EXCEPT ![n].queue = q]
    BY DEF Deliver
  <2> QED
    BY <2>1, <2>2 DEF Node, SameNode
<1>5. PICK f : f = [at |-> "action", node |-> n, to |-> Nobody]
  OBVIOUS
<1>6. PICK g : g = [at |-> "timeout", node |-> n, to |-> e]
  OBVIOUS
<1>7. f.at = "action" /\ f.node = n /\ g.at = "timeout" /\ g.node = n
  BY <1>5, <1>6
<1>8. f \in FrameOf /\ g \in FrameOf
  <2>1. node[n] \in Node
    BY DEF Typed
  <2>2. e \in TimerEvent
    BY <2>1 DEF Node
  <2> QED
    BY <1>5, <1>6, <2>2 DEF FrameOf, Places
<1>9. PICK r : /\ r \in {<<f>>, <<f, g>>} /\ stack' = [stack EXCEPT ![n] = r]
  <2>1. CASE e.kind = "plain"
    <3>1. stack' = [stack EXCEPT ![n] = <<f>> \o <<>>]
      BY <1>5, <2>1 DEF Deliver, Frame
    <3> QED
      BY <1>8, <3>1, Frames
  <2>2. CASE e.kind # "plain"
    <3>1. stack' = [stack EXCEPT ![n] = <<f>> \o <<g>>]
      BY <1>5, <1>6, <2>2 DEF Deliver, Frame
    <3> QED
      BY <1>8, <3>1, Frames
  <2> QED
    BY <2>1, <2>2
<1>10. stack'[n] = r /\ \A u \in Threads \ {n} : stack'[u] = stack[u]
  <2>1. stack \in [Threads -> Seq(FrameOf)]
    BY DEF Typed
  <2> QED
    BY <1>1, <1>9, <2>1
<1>11. /\ Len(r) \in {1, 2}
       /\ \A i \in 1 .. Len(r) : r[i].at = IF i = 1 THEN "action" ELSE "timeout"
  BY <1>7, <1>9
<1>12. Layout(n, stack'[n]) /\ Single(stack'[n])
  BY <1>10, <1>11 DEF Layout, Single, Fires, Halting, Unstarted
<1>13. \A m \in Names : ~Has(stack'[n], m, Unstarted) /\ ~Has(stack'[n], m, {"left"})
  BY <1>10, <1>11 DEF Has, Unstarted
<1>14. \A u \in Threads \ {n} : AtWork(u) => {n, u} \subseteq Names
  BY <1>1, OverlapApart
<1> QED
  BY <1>1, <1>2, <1>3, <1>4, <1>10, <1>12, <1>13, <1>14, RestUntangles

LEMMA ActionEndsUntangles ==
  ASSUME Typed, Typed', Parts, NEW n \in Names, ActionEnds(n)
  PROVE  Parts'
<1>1. n \in Threads /\ At(n, "action") /\ node' = node /\ Become(n, <<>>)
  BY DEF Threads, ActionEnds, Return
<1>2. /\ Len(stack[n]) \in Nat \ {0} /\ stack[n][Len(stack[n])].at = "action"
      /\ stack[n][Len(stack[n])] \in FrameOf /\ stack[n] # <<>> /\ Shape(n, stack[n])
      /\ stack[n] \in Seq(FrameOf)
  BY <1>1, TopOf, StackOf DEF Fits, At
<1>3. Len(stack[n]) = 1
  <2>1. PICK k \in 1 .. Len(stack[n]) : k = Len(stack[n])
    BY <1>2
  <2> QED
    BY <1>2, <2>1 DEF Shape
<1>4. (\A u \in Threads \ {n} : stack'[u] = stack[u]) /\ Len(stack'[n]) = 0
  <2>1. <<>> \in Seq(FrameOf)
    OBVIOUS
  <2>2. (\A u \in Threads \ {n} : stack'[u] = stack[u]) /\ Over(stack[n], <<>>, stack'[n])
    BY <1>1, <1>2, <2>1, BecomeIs
  <2>3. PICK f \in FrameOf : f = stack[n][Len(stack[n])]
    BY <1>2
  <2>4. Popped(stack[n], stack'[n])
    BY <1>2, <2>2, <2>3, OverIs
  <2> QED
    BY <1>3, <2>2, <2>4 DEF Popped
<1>5. ~AtWork(n) /\ ~AtWork(n)'
  <2>1. \A k \in {0, 1} : ~(k > 1)
    OBVIOUS
  <2> QED
    BY <1>3, <1>4, <2>1 DEF AtWork
<1>6. \A m, places : ~Has(stack'[n], m, places)
  BY <1>4 DEF Has
<1>7. Layout(n, stack'[n]) /\ Single(stack'[n])
  BY <1>4 DEF Layout, Single
<1>8. Quiet(n) => Quiet(n)'
  <2>1. Quiet(n) => node[n].done
    BY <1>1, <1>2 DEF Quiet, At
  <2> QED
    BY <1>1, <1>6, <2>1 DEF Quiet
<1>9. \A m \in Names : SameNode(m)
  BY <1>1 DEF SameNode
<1> QED
  BY <1>1, <1>4, <1>5, <1>6, <1>7, <1>8, <1>9, RestUntangles

LEMMA LoopEndsUntangles ==
  ASSUME Typed, Typed', Parts, NEW n \in Names, LoopEnds(n)
  PROVE  Parts'
<1>1. n \in Threads /\ stack[n] = <<>> /\ node' = node
  BY DEF Threads, LoopEnds, Awake
<1>2. \A m \in Names : SameNode(m)
  BY <1>1 DEF SameNode
<1>3. CASE ~node[n].done
  <2>1. stack' = stack
    BY <1>3 DEF LoopEnds
  <2> QED
    BY <1>2, <2>1, SameUntangles
<1>4. CASE node[n].done
  <2>1. PICK f : f = [at |-> "ending", node |-> n, to |-> Nobody]
    OBVIOUS
  <2>2. f.at = "ending" /\ f \in FrameOf
    BY <2>1 DEF FrameOf, Places
  <2>3. PICK r \in Seq(FrameOf) : r = <<f>>
    <3>1. <<f>> \in Seq(FrameOf)
      BY <2>2
    <3> QED
      BY <3>1
  <2>4. stack'[n] = r /\ \A u \in Threads \ {n} : stack'[u] = stack[u]
    <3>1. stack \in [Threads -> Seq(FrameOf)] /\ stack' = [stack EXCEPT ![n] = r]
      BY <1>4, <2>1, <2>3 DEF Typed, LoopEnds, Frame
    <3> QED
      BY <1>1, <3>1
  <2>5. Len(r) = 1 /\ \A i \in 1 .. Len(r) : i = 1 /\ r[i].at = "ending"
    BY <2>2, <2>3
  <2>6. ~AtWork(n) /\ ~AtWork(n)'
    <3>1. \A k \in {0, 1} : ~(k > 1)
      OBVIOUS
    <3> QED
      BY <1>1, <2>4, <2>5, <3>1 DEF AtWork
  <2>7. /\ \A m \in Names : /\ ~Has(stack'[n], m, Unstarted) /\ ~Has(stack'[n], m, {"left"})
                            /\ ~Has(stack'[n], m, Fires)
        /\ ~Has(stack'[n], n, {"action"})
    BY <2>4, <2>5 DEF Has, Unstarted, Fires
  <2>8. Layout(n, stack'[n]) /\ Single(stack'[n])
    BY <2>4, <2>5 DEF Layout, Single, Halting, Fires, Unstarted
  <2>9. Quiet(n)'
    BY <1>1, <1>4, <2>7 DEF Quiet
  <2> QED
    BY <1>1, <1>2, <2>4, <2>6, <2>7, <2>8, <2>9, RestUntangles
<1> QED
  BY <1>3, <1>4

LEMMA SweepUntangles ==
  ASSUME Typed, Parts, NEW n \in Names, Sweep(n)
  PROVE  Parts'
<1>1. stack' = stack /\ node \in [Names -> Node] /\ node' = [node EXCEPT ![n].queue = Live(n)]
  BY DEF Sweep, Typed
<1>2. \A m \in Names : SameNode(m)
  BY <1>1 DEF Node, SameNode
<1> QED
  BY <1>1, <1>2, SameUntangles

(* An operation of a user begins; nobody else is at work. *)
LEMMA BeginUntangles ==
  ASSUME Typed, Typed', Parts, Apart', NEW u \in Users, stack[u] = <<>>, Overlap(u), node' = node,
         NEW r \in Seq(FrameOf), stack' = [stack EXCEPT ![u] = r],
         \A i \in 1 .. Len(r) : \/ r[i].at \in {"choose", "deactivate"}
                                \/ r[i].at = "process" /\ i = 1
  PROVE  Parts'
<1>1. u \in Threads /\ u \notin Names /\ ~AtWork(u)
  BY IdleIs
<1>2. stack'[u] = r /\ \A v \in Threads \ {u} : stack'[v] = stack[v]
  <2>1. stack \in [Threads -> Seq(FrameOf)]
    BY DEF Typed
  <2> QED
    BY <1>1, <2>1
<1>3. Layout(u, r)
  BY <1>1 DEF Layout
<1>4. Single(r)
  BY DEF Single, Unstarted
<1>5. \A n \in Names : ~Has(r, n, Unstarted) /\ ~Has(r, n, {"left"})
  BY DEF Has, Unstarted
<1>6. \A v \in Threads \ {u} : AtWork(v) => {u, v} \subseteq Names
  BY <1>1, OverlapApart
<1>7. \A n \in Names : SameNode(n)
  BY DEF SameNode
<1> QED
  BY <1>1, <1>2, <1>3, <1>4, <1>5, <1>6, <1>7, RestUntangles

LEMMA ProcessUntangles ==
  ASSUME Typed, Typed', Parts, Apart', NEW t \in Threads, NEW e \in Events, Process(t, e)
  PROVE  Parts'
<1>1. Overlap(t) /\ node' = node
  BY DEF Process
<1>2. ~At(t, "inside")
  BY <1>1, OverlapApart
<1>3. t \in Users /\ stack[t] = <<>>
  BY <1>2 DEF Process, Idle
<1>4. stack \in [Threads -> Seq(FrameOf)]
  BY DEF Typed
<1>5. CASE active = Gone
  <2>1. stack' = [stack EXCEPT ![t] = stack[t] \o <<>>]
    BY <1>5 DEF Process, Calls
  <2>2. stack[t] \o <<>> = stack[t]
    BY <1>4
  <2>3. stack' = stack
    BY <1>4, <2>1, <2>2
  <2>4. \A n \in Names : SameNode(n)
    BY <1>1 DEF SameNode
  <2> QED
    BY <2>3, <2>4, SameUntangles
<1>6. CASE active # Gone
  <2>1. active \in Names
    BY <1>6 DEF Process, Typed
  <2>2. PICK f : f = [at |-> "process", node |-> active, to |-> e]
    OBVIOUS
  <2>3. f.at = "process" /\ f \in FrameOf
    BY <2>1, <2>2 DEF FrameOf, Places
  <2>4. PICK r \in Seq(FrameOf) : r = <<f>>
    <3>1. <<f>> \in Seq(FrameOf)
      BY <2>3
    <3> QED
      BY <3>1
  <2>5. Len(r) = 1 /\ r[1] = f
    BY <2>4
  <2>6. stack' = [stack EXCEPT ![t] = r]
    <3>1. stack' = [stack EXCEPT ![t] = stack[t] \o r]
      BY <1>6, <2>2, <2>4 DEF Process, Calls, Frame
    <3>2. <<>> \o r = r
      BY ConcatEmptySeq
    <3> QED
      BY <1>3, <3>1, <3>2
  <2>7. \A i \in 1 .. Len(r) : r[i].at = "process" /\ i = 1
    BY <2>3, <2>5
  <2> QED
    BY <1>1, <1>3, <2>6, <2>7, BeginUntangles
<1> QED
  BY <1>5, <1>6

LEMMA SetActiveUntangles ==
  ASSUME Typed, Typed', Parts, Apart', NEW u \in Users, NEW n \in Names, SetActive(u, n)
  PROVE  Parts'
<1>1. Overlap(u) /\ node' = node /\ stack[u] = <<>>
  BY DEF SetActive, Idle
<1>2. PICK f : f = [at |-> "choose", node |-> n, to |-> Nobody]
  OBVIOUS
<1>3. f.at = "choose" /\ f \in FrameOf
  BY <1>2 DEF FrameOf, Places
<1>4. ASSUME NEW r \in Seq(FrameOf), stack' = [stack EXCEPT ![u] = stack[u] \o r],
             \A i \in 1 .. Len(r) : r[i].at \in {"choose", "deactivate"}
      PROVE  Parts'
  <2>1. <<>> \o r = r
    BY ConcatEmptySeq
  <2>2. stack' = [stack EXCEPT ![u] = r]
    BY <1>1, <1>4, <2>1
  <2> QED
    BY <1>1, <1>4, <2>2, BeginUntangles
<1>5. CASE active \in Names
  <2>1. PICK g : g = [at |-> "deactivate", node |-> active, to |-> Nobody]
    OBVIOUS
  <2>2. g.at = "deactivate" /\ g \in FrameOf
    BY <1>5, <2>1 DEF FrameOf, Places
  <2>3. PICK r \in Seq(FrameOf) : r = <<f, g>>
    <3>1. <<f, g>> \in Seq(FrameOf)
      BY <1>3, <2>2
    <3> QED
      BY <3>1
  <2>4. stack' = [stack EXCEPT ![u] = stack[u] \o r]
    <3>1. stack' = [stack EXCEPT ![u] = stack[u] \o (<<f>> \o <<g>>)]
      BY <1>2, <1>5, <2>1 DEF SetActive, Calls, Frame
    <3> QED
      BY <1>3, <2>2, <2>3, <3>1, Frames
  <2>5. \A i \in 1 .. Len(r) : r[i].at \in {"choose", "deactivate"}
    BY <1>3, <2>2, <2>3
  <2> QED
    BY <1>4, <2>4, <2>5
<1>6. CASE active \notin Names
  <2>1. PICK r \in Seq(FrameOf) : r = <<f>>
    <3>1. <<f>> \in Seq(FrameOf)
      BY <1>3
    <3> QED
      BY <3>1
  <2>2. stack' = [stack EXCEPT ![u] = stack[u] \o r]
    <3>1. stack' = [stack EXCEPT ![u] = stack[u] \o (<<f>> \o <<>>)]
      BY <1>2, <1>6 DEF SetActive, Calls, Frame
    <3> QED
      BY <1>3, <2>1, <3>1, Frames
  <2>3. \A i \in 1 .. Len(r) : r[i].at \in {"choose", "deactivate"}
    BY <1>3, <2>1
  <2> QED
    BY <1>4, <2>2, <2>3
<1> QED
  BY <1>5, <1>6

(* An edit leaves the stacks, and of a node what Parts is about, or is one that
   Apart does not allow. *)
LEMMA EditUntangles ==
  ASSUME Typed, Parts, Apart', NEW n \in Names, NEW r, NEW oddity, Edits(n, r, oddity),
         \/ /\ r.isActive <=> node[n].isActive
            /\ r.done <=> node[n].done
            /\ r.thread = node[n].thread
         \/ "removed" \in oddity
  PROVE  Parts'
<1>1. stack' = stack /\ node \in [Names -> Node] /\ node' = [node EXCEPT ![n] = r]
  BY DEF Edits, Typed
<1>2. "removed" \notin oddity
  BY DEF Edits, Apart
<1>3. node'[n] = r /\ \A m \in Names \ {n} : node'[m] = node[m]
  BY <1>1
<1>4. ASSUME NEW m \in Names PROVE SameNode(m)
  <2>1. CASE m = n
    BY <1>2, <1>3, <2>1 DEF SameNode
  <2>2. CASE m # n
    BY <1>3, <2>2 DEF SameNode
  <2> QED
    BY <2>1, <2>2
<1> QED
  BY <1>1, <1>4, SameUntangles

LEMMA EditsUntangle ==
  ASSUME Typed, Parts, Apart', NEW n \in Names, Edit(n)
  PROVE  Parts'
<1>1. node[n] \in Node
  BY DEF Typed
<1>2. ASSUME NEW e \in Events, NEW dest \in Names, AddTransition(n, e, dest) PROVE Parts'
  <2>1. PICK r : r = [node[n] EXCEPT !.trans[e] = IF @ = Nobody THEN dest ELSE @]
    OBVIOUS
  <2>2. Edits(n, r, {})
    BY <1>2, <2>1 DEF AddTransition
  <2>3. r.isActive = node[n].isActive /\ r.done = node[n].done /\ r.thread = node[n].thread
    BY <1>1, <2>1 DEF Node
  <2> QED
    BY <2>2, <2>3, EditUntangles
<1>3. ASSUME NEW e \in Events, RemoveTransition(n, e) PROVE Parts'
  <2>1. PICK r : r = [node[n] EXCEPT !.trans[e] = Nobody]
    OBVIOUS
  <2>2. Edits(n, r, {})
    BY <1>3, <2>1 DEF RemoveTransition
  <2>3. r.isActive = node[n].isActive /\ r.done = node[n].done /\ r.thread = node[n].thread
    BY <1>1, <2>1 DEF Node
  <2> QED
    BY <2>2, <2>3, EditUntangles
<1>4. ASSUME NEW dest \in Names \cup {Nobody}, NEW sameDelay \in BOOLEAN,
             AddTimeout(n, dest, sameDelay)
      PROVE  Parts'
  <2>1. PICK q : q = IF dest = Nobody THEN IF sameDelay THEN node[n].queue ELSE Killed(n)
                     ELSE Scheduled(n, node[n].token)
                            \cup ((IF sameDelay THEN node[n].queue ELSE Killed(n)) \ node[n].queue)
    OBVIOUS
  <2>2. PICK r : r = [node[n] EXCEPT !.hasTimeout = dest # Nobody, !.dest = dest, !.queue = q]
    OBVIOUS
  <2>3. Edits(n, r, IF node[n].isActive THEN {"late"} ELSE {})
    BY <1>4, <2>1, <2>2 DEF AddTimeout
  <2>4. r.isActive = node[n].isActive /\ r.done = node[n].done /\ r.thread = node[n].thread
    BY <1>1, <2>2 DEF Node
  <2> QED
    BY <2>3, <2>4, EditUntangles
<1>5. ASSUME RemoveTimeout(n) PROVE Parts'
  <2>1. PICK r : r = [node[n] EXCEPT !.isActive = FALSE, !.hasTimeout = FALSE,
                                     !.queue = Killed(n)]
    OBVIOUS
  <2>2. Edits(n, r, IF node[n].isActive THEN {"removed"} ELSE {})
    BY <1>5, <2>1 DEF RemoveTimeout
  <2>3. ~r.isActive /\ r.done = node[n].done /\ r.thread = node[n].thread
    BY <1>1, <2>1 DEF Node
  <2> QED
    BY <2>2, <2>3, EditUntangles
<1>6. ASSUME AddTimeoutAction(n) PROVE Parts'
  <2>1. PICK r : r = [node[n] EXCEPT
                        !.queue = @ \cup {[token |-> 0, kind |-> "plain", visit |-> 0]}]
    OBVIOUS
  <2>2. Edits(n, r, {})
    BY <1>6, <2>1 DEF AddTimeoutAction
  <2>3. r.isActive = node[n].isActive /\ r.done = node[n].done /\ r.thread = node[n].thread
    BY <1>1, <2>1 DEF Node
  <2> QED
    BY <2>2, <2>3, EditUntangles
<1>7. ASSUME RemoveTimeoutAction(n) PROVE Parts'
  <2>1. PICK r : r = [node[n] EXCEPT
          !.queue = {[e EXCEPT !.kind = IF @ = "plain" THEN "dead" ELSE @] : e \in @}]
    OBVIOUS
  <2>2. Edits(n, r, {})
    BY <1>7, <2>1 DEF RemoveTimeoutAction
  <2>3. r.isActive = node[n].isActive /\ r.done = node[n].done /\ r.thread = node[n].thread
    BY <1>1, <2>1 DEF Node
  <2> QED
    BY <2>2, <2>3, EditUntangles
<1>8. ASSUME RemoveState(n) PROVE Parts'
  <2>1. PICK r : r = Fresh([e \in Events |-> Nobody], Nobody)
    OBVIOUS
  <2>2. Edits(n, r, {"removed"})
    BY <1>8, <2>1 DEF RemoveState
  <2> QED
    BY <2>2, EditUntangles
<1> QED
  BY <1>2, <1>3, <1>4, <1>5, <1>6, <1>7, <1>8 DEF Edit

LEMMA InitUntangled ==
  ASSUME Init
  PROVE  Parts
<1>1. PICK m \in Machines : node = [n \in Names |-> Fresh(m.trans[n], m.dest[n])]
  BY DEF Init
<1>2. ASSUME NEW n \in Names PROVE ~node[n].isActive /\ node[n].thread = "none"
  BY <1>1 DEF Fresh
<1>3. ASSUME NEW t \in Threads
      PROVE  /\ stack[t] = <<>> /\ Len(stack[t]) = 0 /\ ~AtWork(t)
             /\ \A n, places : ~Has(stack[t], n, places)
  <2>1. stack[t] = <<>>
    BY DEF Init
  <2>2. Len(stack[t]) = 0
    BY <2>1
  <2>3. ~(0 > 1) /\ ~(0 > 0)
    OBVIOUS
  <2> QED
    BY <2>1, <2>2, <2>3 DEF AtWork, Has
<1>4. Laid
  BY <1>3 DEF Laid, Layout, Single
<1>5. QuietLeft
  <2>1. \A n \in Names : n \in Threads
    BY DEF Threads
  <2>2. \A n \in Names : Quiet(n)
    BY <1>2, <1>3, <2>1 DEF Quiet
  <2> QED
    BY <2>2 DEF QuietLeft
<1>6. OneUser
  BY <1>3 DEF OneUser, Threads
<1>7. OneEnters /\ QuietEntered /\ Unheld
  BY <1>3 DEF OneEnters, QuietEntered, Unheld
<1>8. InOrder
  <2>1. \A t, n \in Names : ~Has(stack[t], n, {"left"})
    BY <1>3 DEF Threads
  <2>2. ASSUME NEW S \in SUBSET Names, S # {}
        PROVE  \E t \in S : \A n \in S : ~Has(stack[t], n, {"left"})
    <3>1. PICK t \in S : TRUE
      BY <2>2
    <3> QED
      BY <2>1, <3>1
  <2> QED
    BY <2>2 DEF InOrder
<1> QED
  BY <1>4, <1>5, <1>6, <1>7, <1>8 DEF Parts

(* What was not apart never is again. *)
LEMMA ApartBefore ==
  ASSUME Apart', odd \subseteq odd'
  PROVE  Apart
BY DEF Apart

LEMMA OddGrows ==
  ASSUME Next
  PROVE  odd \subseteq odd'
<1>1. ASSUME NEW what, NEW happens, Oddly(what, happens) PROVE odd \subseteq odd'
  BY <1>1 DEF Oddly
<1>2. ASSUME NEW t, Overlap(t) PROVE odd \subseteq odd'
  BY <1>2 DEF Overlap
<1>3. ASSUME NEW n, NEW r, NEW oddity, Edits(n, r, oddity) PROVE odd \subseteq odd'
  BY <1>3 DEF Edits
<1>4. ASSUME NEW n \in Names, Edit(n) PROVE odd \subseteq odd'
  <2>1. ASSUME NEW dest \in Names \cup {Nobody}, NEW sameDelay \in BOOLEAN,
               AddTimeout(n, dest, sameDelay)
        PROVE  odd \subseteq odd'
    BY <1>3, <2>1 DEF AddTimeout
  <2> QED
    BY <1>3, <1>4, <2>1 DEF Edit, AddTransition, RemoveTransition, RemoveTimeout,
       AddTimeoutAction, RemoveTimeoutAction, RemoveState
<1>5. CASE Operation
  BY <1>2, <1>4, <1>5 DEF Operation, Process, SetActive
<1>6. ASSUME NEW t \in Threads, Flow(t) PROVE odd \subseteq odd'
  <2>1. ASSUME Arm(t) PROVE odd \subseteq odd'
    BY <1>1, <2>1 DEF Arm
  <2>2. ASSUME Push(t) \/ Activate(t) \/ Close(t) \/ Start(t) PROVE odd \subseteq odd'
    BY <1>1, <2>2 DEF Push, Activate, Close, Start
  <2> QED
    BY <1>6, <2>1, <2>2 DEF Flow, Move, LeaveCB, Left, EnterCB, Entered, Deactivate, Stop, Join,
       Unnotify, Choose
<1>7. ASSUME NEW n \in Names, Timer(n) PROVE odd \subseteq odd'
  BY <1>2, <1>7 DEF Timer, Deliver, Sweep, Timeout, ActionEnds, LoopEnds, ThreadEnds
<1> QED
  BY <1>5, <1>6, <1>7 DEF Next

LEMMA NextUntangles ==
  ASSUME IInv, IInv', Untangled, Next
  PROVE  Untangled'
<1> SUFFICES ASSUME Apart' PROVE Parts'
  BY DEF Untangled
<1>1. Typed /\ Typed' /\ Parts
  BY OddGrows, ApartBefore DEF IInv, Untangled
<1>2. CASE Operation
  <2>1. ASSUME NEW t \in Threads, NEW e \in Events, Process(t, e) PROVE Parts'
    BY <1>1, <2>1, ProcessUntangles
  <2>2. ASSUME NEW u \in Users, NEW n \in Names, SetActive(u, n) PROVE Parts'
    BY <1>1, <2>2, SetActiveUntangles
  <2>3. ASSUME NEW n \in Names, Edit(n) PROVE Parts'
    BY <1>1, <2>3, EditsUntangle
  <2> QED
    BY <1>2, <2>1, <2>2, <2>3 DEF Operation
<1>3. ASSUME NEW t \in Threads, Flow(t) PROVE Parts'
  BY <1>1, <1>3, FlowFlows, FlowUntangles
<1>4. ASSUME NEW n \in Names, Timer(n) PROVE Parts'
  <2>1. n \in Threads
    BY DEF Threads
  <2>2. ASSUME Timeout(n) PROVE Parts'
    BY <1>1, <2>1, <2>2, TimeoutFlows, FlowUntangles
  <2>3. ASSUME NEW e \in node[n].queue, Deliver(n, e) PROVE Parts'
    BY <1>1, <2>3, DeliverUntangles
  <2> QED
    BY <1>1, <1>4, <2>2, <2>3, SweepUntangles, ActionEndsUntangles, LoopEndsUntangles,
       ThreadEndsUntangles DEF Timer
<1> QED
  BY <1>2, <1>3, <1>4 DEF Next

LEMMA StutterUntangles ==
  ASSUME Untangled, UNCHANGED vars
  PROVE  Untangled'
<1>1. UNCHANGED <<node, stack, odd>>
  BY DEF vars
<1>2. Apart' => Apart
  BY <1>1 DEF Apart
<1>3. \A n \in Names : SameNode(n)
  BY <1>1 DEF SameNode
<1> QED
  BY <1>1, <1>2, <1>3, SameUntangles DEF Untangled

(* As long as users and callbacks keep out of the way, and no timeout is removed,
   the stacks lie as Parts says. *)
THEOREM StateUntangled == Spec => []Untangled
<1>1. Init => Untangled
  BY InitUntangled DEF Untangled
<1>2. IInv /\ IInv' /\ Untangled /\ [Next]_vars => Untangled'
  BY NextUntangles, StutterUntangles
<1> QED
  BY <1>1, <1>2, StateInvariance, PTL DEF Spec

-------------------------------------------------------------------------------
(* Who is at a place where a thread waits, and what keeps it there. *)
Waiting(place) ==
  CASE place \in {"process", "push"} -> {"moving", "left", "pushed", "close"}
    [] place \in {"moving", "fired", "pushed"} -> {"leaving"}
    [] place = "entering" -> {"inside"}
    [] place = "arm" -> {"action"}
    [] OTHER -> {}

LEMMA BlockersAre ==
  ASSUME Typed, NEW t \in Threads, NEW u \in Blockers(t)
  PROVE  /\ Len(stack[t]) \in Nat \ {0}
         /\ \/ stack[t][Len(stack[t])].at = "wait" /\ u = stack[t][Len(stack[t])].node
            \/ /\ u \in Threads \ {t}
               /\ \E i \in 1 .. Len(stack[u]) :
                    /\ stack[u][i].node = stack[t][Len(stack[t])].node
                    /\ stack[u][i].at \in Waiting(stack[t][Len(stack[t])].at)
<1>1. stack[t] # <<>>
  BY DEF Blockers
<1>2. Len(stack[t]) \in Nat \ {0}
  BY <1>1, StackOf
<1>3. PICK f : f = stack[t][Len(stack[t])]
  OBVIOUS
<1>4. Last(stack[t]) = f /\ Here(t) = f.node
  BY <1>3 DEF Last, Here
<1>5. CASE f.at = "wait"
  BY <1>1, <1>2, <1>3, <1>4, <1>5 DEF Blockers, At
<1>6. CASE f.at # "wait"
  <2>1. /\ u \in Threads \ {t} /\ f.at \in DOMAIN Needs
        /\ \E i \in DOMAIN stack[u] : stack[u][i].node = f.node
                                      /\ stack[u][i].at \in Holders[Needs[f.at]]
    BY <1>1, <1>4, <1>6 DEF Blockers, At
  <2>2. DOMAIN stack[u] = 1 .. Len(stack[u])
    BY <2>1, LenProperties, StackOf
  <2>3. Holders[Needs[f.at]] = Waiting(f.at)
    <3>1. CASE f.at \in {"process", "push"}
      <4>1. Needs[f.at] = "trans"
        BY <3>1 DEF Needs
      <4> QED
        BY <3>1, <4>1 DEF Holders, Waiting
    <3>2. CASE f.at \in {"moving", "fired", "pushed"}
      <4>1. Needs[f.at] = "leave"
        BY <3>2 DEF Needs
      <4> QED
        BY <3>2, <4>1 DEF Holders, Waiting
    <3>3. CASE f.at = "entering"
      <4>1. Needs[f.at] = "enter"
        BY <3>3 DEF Needs
      <4> QED
        BY <3>3, <4>1 DEF Holders, Waiting
    <3>4. CASE f.at = "arm"
      <4>1. Needs[f.at] = "timer"
        BY <3>4 DEF Needs
      <4> QED
        BY <3>4, <4>1 DEF Holders, Waiting
    <3>5. DOMAIN Needs =
            {"process", "push", "moving", "fired", "pushed", "entering", "arm"}
      BY DEF Needs
    <3> QED
      BY <2>1, <3>1, <3>2, <3>3, <3>4, <3>5
  <2> QED
    BY <1>2, <1>3, <2>1, <2>2, <2>3
<1> QED
  BY <1>5, <1>6

LEMMA NotOfItself ==
  ASSUME Typed, NEW t \in Threads
  PROVE  t \notin Blockers(t)
<1>1. ASSUME t \in Blockers(t) PROVE FALSE
  <2>1. /\ Len(stack[t]) \in Nat \ {0}
        /\ stack[t][Len(stack[t])].at = "wait" /\ t = stack[t][Len(stack[t])].node
    BY <1>1, BlockersAre
  <2>2. Len(stack[t]) \in 1 .. Len(stack[t]) /\ Shape(t, stack[t])
    BY <2>1, StackOf
  <2> QED
    BY <2>1, <2>2 DEF Shape, Fits
<1> QED
  BY <1>1

(* Nobody waits in these places, nor who is not at work. *)
LEMMA Unblocked ==
  ASSUME Typed, NEW t \in Threads,
         Len(stack[t]) > 0 =>
           stack[t][Len(stack[t])].at \in
             {"action", "ending", "left", "stop", "join", "unnotify"}
  PROVE  Blockers(t) = {}
<1>1. ASSUME NEW u \in Blockers(t) PROVE FALSE
  <2>1. PICK place : place = stack[t][Len(stack[t])].at
    OBVIOUS
  <2>2. place \in {"action", "ending", "left", "stop", "join", "unnotify"}
    BY <2>1, <1>1, BlockersAre
  <2>3. Waiting(place) = {} /\ place # "wait"
    BY <2>2 DEF Waiting
  <2> QED
    BY <1>1, <2>1, <2>3, BlockersAre
<1> QED
  BY <1>1

LEMMA RestUnblocked ==
  ASSUME Typed, NEW t \in Threads, ~AtWork(t)
  PROVE  Blockers(t) = {}
<1>1. Resting(stack[t])
  BY RestingStack
<1> QED
  BY <1>1, Unblocked DEF Resting

LEMMA QuietUnblocked ==
  ASSUME Typed, Laid, NEW n \in Names, Quiet(n)
  PROVE  Blockers(n) = {}
<1>1. n \in Threads /\ Layout(n, stack[n])
  BY DEF Threads, Laid
<1>2. ASSUME Len(stack[n]) > 0
      PROVE  stack[n][Len(stack[n])].at \in
               {"action", "ending", "left", "stop", "join", "unnotify"}
  <2>1. Len(stack[n]) \in 1 .. Len(stack[n]) /\ Shape(n, stack[n])
    BY <1>1, <1>2, StackOf
  <2>2. PICK f : f = stack[n][Len(stack[n])]
    OBVIOUS
  <2>3. f.at \in {"action", "ending"} \cup Halting /\ (f.at \in Halting => f.node = n)
    BY <1>1, <2>1, <2>2, QuietIs
  <2>4. f.at # "wait"
    BY <2>1, <2>2, <2>3 DEF Shape, Fits, Halting
  <2> QED
    BY <2>2, <2>3, <2>4 DEF Halting
<1> QED
  BY <1>1, <1>2, Unblocked

(* A timer's thread that waits for another timer's to end was pushed away from a
   node, and is above the frame that did so. *)
LEMMA WaitsAbove ==
  ASSUME Typed, Laid, NEW t \in Names, Len(stack[t]) > 0, stack[t][Len(stack[t])].at = "wait"
  PROVE  /\ Len(stack[t]) > 2
         /\ stack[t][Len(stack[t]) - 1].at = "left"
         /\ stack[t][Len(stack[t]) - 1].node = stack[t][Len(stack[t])].node
<1>1. t \in Threads /\ Layout(t, stack[t]) /\ Shape(t, stack[t]) /\ Len(stack[t]) \in Nat
  BY StackOf DEF Threads, Laid
<1>2. PICK i \in 1 .. Len(stack[t]) : i = Len(stack[t])
  BY <1>1
<1>3. stack[t][i].node # t
  BY <1>1, <1>2 DEF Shape, Fits
<1> QED
  BY <1>1, <1>2, <1>3 DEF Layout, Halting

(* Who left a node holds its transitions while he waits for that node's thread. *)
LEMMA LeftWaits ==
  ASSUME Typed, Laid, NEW u \in Names, NEW i \in 1 .. Len(stack[u]), stack[u][i].at = "left",
         Blockers(u) # {}
  PROVE  Blockers(u) = {stack[u][i].node}
<1>1. u \in Threads /\ Layout(u, stack[u]) /\ Shape(u, stack[u]) /\ Len(stack[u]) \in Nat
  BY StackOf DEF Threads, Laid
<1>2. PICK l \in 1 .. Len(stack[u]) : l = Len(stack[u])
  BY <1>1
<1>3. i # l
  <2>1. ASSUME i = l PROVE FALSE
    <3>1. stack[u][Len(stack[u])].at = "left"
      BY <1>2, <2>1
    <3> QED
      BY <1>1, <3>1, Unblocked
  <2> QED
    BY <2>1
<1>4. stack[u][i + 1].at \in Halting /\ i + 1 \in 1 .. Len(stack[u])
  BY <1>1, <1>2, <1>3 DEF Layout
<1>5. i + 1 = l
  <2>1. ASSUME i + 1 # l PROVE FALSE
    <3>1. i + 1 \in 1 .. Len(stack[u]) - 1
      BY <1>1, <1>2, <1>4, <2>1
    <3>2. stack[u][i + 1].at \in Callers
      BY <1>1, <3>1 DEF Shape
    <3> QED
      BY <1>4, <3>2 DEF Callers, Halting
  <2> QED
    BY <2>1
<1>6. stack[u][l].at = "wait"
  <2>1. ASSUME stack[u][l].at # "wait" PROVE FALSE
    <3>1. stack[u][Len(stack[u])].at \in {"stop", "join", "unnotify"}
      BY <1>2, <1>4, <1>5, <2>1 DEF Halting
    <3> QED
      BY <1>1, <3>1, Unblocked
  <2> QED
    BY <2>1
<1>7. stack[u][i].node = stack[u][l].node
  <2>1. stack[u][Len(stack[u])].at = "wait" /\ Len(stack[u]) > 0
    BY <1>1, <1>2, <1>6
  <2>2. stack[u][Len(stack[u]) - 1].node = stack[u][Len(stack[u])].node
    BY <2>1, WaitsAbove
  <2>3. Len(stack[u]) - 1 = i
    BY <1>1, <1>2, <1>5
  <2> QED
    BY <1>2, <2>2, <2>3
<1>8. Blockers(u) = {stack[u][l].node}
  <2>1. stack[u] # <<>> /\ Last(stack[u]) = stack[u][l]
    BY <1>1, <1>2, StackOf DEF Last
  <2> QED
    BY <1>6, <2>1 DEF Blockers, At, Here
<1> QED
  BY <1>7, <1>8

(* Of two timers' threads that are blocked by each other, or in a circle, one is
   above the node it waits for. *)
LEMMA TimersApart ==
  ASSUME Typed, Parts, NEW S \in SUBSET Names, S # {}
  PROVE  \E t \in S : Blockers(t) \cap S = {}
<1> SUFFICES ASSUME \A t \in S : Blockers(t) \cap S # {} PROVE FALSE
  OBVIOUS
<1>1. Laid /\ OneEnters /\ QuietEntered
  BY DEF Parts
<1>2. \A m \in S : ~Quiet(m) /\ m \in Threads
  BY <1>1, QuietUnblocked DEF Threads
<1>3. PICK t \in S : \A n \in S : ~Has(stack[t], n, {"left"})
  BY DEF Parts, InOrder
<1>4. PICK u \in S : u \in Blockers(t)
  OBVIOUS
<1>5. /\ t \in Threads /\ u \in Threads /\ Len(stack[t]) \in Nat \ {0}
      /\ Layout(t, stack[t]) /\ Shape(t, stack[t])
      /\ Len(stack[u]) \in Nat /\ Layout(u, stack[u]) /\ Shape(u, stack[u])
  BY <1>1, <1>2, <1>4, BlockersAre, StackOf DEF Laid
<1>6. PICK l \in 1 .. Len(stack[t]) : l = Len(stack[t])
  BY <1>5
<1>7. PICK n \in Names : n = stack[t][l].node
  BY <1>5 DEF Shape, Fits, FrameOf
<1>8. PICK place : place = stack[t][l].at
  OBVIOUS
<1>9. place # "wait"
  <2>1. ASSUME place = "wait" PROVE FALSE
    <3>1. u = n
      <4>1. Waiting("wait") = {}
        BY DEF Waiting
      <4> QED
        BY <1>4, <1>5, <1>6, <1>7, <1>8, <2>1, <4>1, BlockersAre
    <3>2. /\ stack[t][l - 1].at = "left" /\ stack[t][l - 1].node = n /\ l > 2
      <4>1. stack[t][Len(stack[t])].at = "wait" /\ Len(stack[t]) > 0
        BY <1>5, <1>6, <1>8, <2>1
      <4> QED
        BY <1>1, <1>6, <1>7, <4>1, WaitsAbove
    <3>3. l - 1 \in 1 .. Len(stack[t])
      BY <1>5, <1>6, <3>2
    <3>4. Has(stack[t], n, {"left"})
      BY <3>2, <3>3 DEF Has
    <3> QED
      BY <1>3, <1>4, <3>1, <3>4
  <2> QED
    BY <2>1
<1>10. PICK i \in 1 .. Len(stack[u]) :
         u # t /\ stack[u][i].node = n /\ stack[u][i].at \in Waiting(place)
  <2>1. \/ stack[t][l].at = "wait"
        \/ /\ u \in Threads \ {t}
           /\ \E i \in 1 .. Len(stack[u]) :
                stack[u][i].node = stack[t][l].node /\ stack[u][i].at \in Waiting(stack[t][l].at)
    BY <1>4, <1>5, <1>6, BlockersAre
  <2> QED
    BY <1>7, <1>8, <1>9, <2>1
<1>11. PICK held : held = stack[u][i].at
  OBVIOUS
<1>12. ~(place \in Unstarted /\ held \in Unstarted)
  <2>1. ASSUME place \in Unstarted, held \in Unstarted PROVE FALSE
    <3>1. Has(stack[t], n, Unstarted) /\ Has(stack[u], n, Unstarted)
      BY <1>7, <1>8, <1>10, <1>11, <2>1 DEF Has
    <3> QED
      BY <1>1, <1>5, <1>10, <3>1 DEF OneEnters
  <2> QED
    BY <2>1
<1>13. place \in Unstarted => Quiet(n) /\ n \notin S
  <2>1. ASSUME place \in Unstarted PROVE Quiet(n)
    <3>1. Has(stack[t], n, Unstarted)
      BY <1>7, <1>8, <2>1 DEF Has
    <3> QED
      BY <1>1, <1>5, <3>1 DEF QuietEntered
  <2> QED
    BY <1>2, <2>1
<1>14. held \in Unstarted => Quiet(n) /\ n \notin S
  <2>1. ASSUME held \in Unstarted PROVE Quiet(n)
    <3>1. Has(stack[u], n, Unstarted)
      BY <1>10, <1>11, <2>1 DEF Has
    <3> QED
      BY <1>1, <1>5, <3>1 DEF QuietEntered
  <2> QED
    BY <1>2, <2>1
<1>15. place \notin {"process", "moving"} /\ held # "moving"
  BY <1>5, <1>8, <1>11 DEF Layout
(* held is "left", or it waits for the node that the other enters *)
<1>16. CASE place = "push"
  <2>1. held \in {"moving", "left", "pushed", "close"}
    BY <1>10, <1>11, <1>16 DEF Waiting
  <2>2. held = "left"
    BY <1>12, <1>15, <1>16, <2>1 DEF Unstarted
  <2>3. Blockers(u) = {n}
    BY <1>1, <1>10, <1>11, <2>2, LeftWaits
  <2> QED
    BY <1>13, <1>16, <2>3 DEF Unstarted
<1>17. CASE place \in {"fired", "pushed"}
  <2>1. held = "leaving"
    BY <1>10, <1>11, <1>17 DEF Waiting
  <2>2. /\ i - 1 \in 1 .. Len(stack[u]) /\ stack[u][i - 1].node = n
        /\ stack[u][i - 1].at \in {"deactivate", "close"}
    <3>1. /\ i > 2 /\ stack[u][i - 1].at \in {"deactivate", "close"}
          /\ stack[u][i - 1].node = stack[u][i].node
      BY <1>5, <1>11, <2>1 DEF Layout
    <3>2. i - 1 \in 1 .. Len(stack[u])
      BY <1>5, <3>1
    <3> QED
      BY <1>10, <3>1, <3>2
  <2>3. CASE stack[u][i - 1].at = "close"
    <3>1. Has(stack[u], n, Unstarted)
      BY <2>2, <2>3 DEF Has, Unstarted
    <3>2. Quiet(n)
      BY <1>1, <1>5, <3>1 DEF QuietEntered
    <3>3. place = "pushed"
      <4>1. place = "fired" => n = t
        BY <1>5, <1>7, <1>8 DEF Shape, Fits
      <4> QED
        BY <1>2, <1>17, <3>2, <4>1
    <3>4. Has(stack[t], n, Unstarted)
      BY <1>7, <1>8, <3>3 DEF Has, Unstarted
    <3> QED
      BY <1>1, <1>5, <1>10, <3>1, <3>4 DEF OneEnters
  <2>4. CASE stack[u][i - 1].at = "deactivate"
    <3>1. n = u
      BY <1>5, <2>2, <2>4 DEF Layout
    <3>2. place = "fired" => n = t
      BY <1>5, <1>7, <1>8 DEF Shape, Fits
    <3>3. place = "pushed"
      BY <1>10, <1>17, <3>1, <3>2
    <3> QED
      BY <1>13, <3>1, <3>3 DEF Unstarted
  <2> QED
    BY <2>2, <2>3, <2>4
<1>18. CASE place = "entering"
  BY <1>10, <1>11, <1>12, <1>18 DEF Waiting, Unstarted
<1>19. CASE place = "arm"
  <2>1. held = "action"
    BY <1>10, <1>11, <1>19 DEF Waiting
  <2>2. n = u
    BY <1>5, <1>10, <1>11, <2>1 DEF Shape, Fits
  <2> QED
    BY <1>13, <1>19, <2>2 DEF Unstarted
<1>20. place \in {"process", "push", "moving", "fired", "pushed", "entering", "arm"}
  BY <1>10 DEF Waiting
<1> QED
  BY <1>15, <1>16, <1>17, <1>18, <1>19, <1>20

(* Of threads that one of which alone may be at work, none is blocked for good. *)
LEMMA AloneUnblocked ==
  ASSUME Typed, NEW S \in SUBSET Threads, S # {},
         \A t, u \in S : AtWork(t) /\ AtWork(u) => t = u
  PROVE  \E t \in S : Blockers(t) \cap S = {}
<1>1. CASE \E t \in S : ~AtWork(t)
  BY <1>1, RestUnblocked
<1>2. CASE \A t \in S : AtWork(t)
  <2>1. PICK t \in S : S = {t}
    BY <1>2
  <2> QED
    BY <2>1, NotOfItself
<1> QED
  BY <1>1, <1>2

(***************************************************************************)
(* No threads wait for each other in a circle, in gates or in join(): as long *)
(* as users keep out of the way, and a state that is active keeps its timeout, *)
(* and either no timeouts overlap or no on-enter callback uses the machine.   *)
(***************************************************************************)
THEOREM StateNoDeadlock == Spec => []NoDeadlock
<1>1. ASSUME IInv, Untangled PROVE NoDeadlock
  <2> SUFFICES ASSUME {"users", "removed"} \cap odd = {}, ~({"timers", "nested"} \subseteq odd),
                      NEW S \in SUBSET Threads, S # {}
               PROVE  \E t \in S : Blockers(t) \cap S = {}
    BY DEF NoDeadlock, NoCircle
  <2>1. Typed
    BY <1>1 DEF IInv
  <2>2. CASE Serial
    BY <1>1, <2>1, <2>2, AloneUnblocked DEF IInv, Alone
  <2>3. CASE Apart
    <3>1. Parts
      BY <1>1, <2>3 DEF Untangled
    <3>2. CASE \E t \in S : ~AtWork(t)
      BY <2>1, <3>2, RestUnblocked
    <3>3. CASE \E u \in S : u \in Users /\ \A t \in S : AtWork(t)
      <4>1. \A t, v \in S : t = v
        BY <3>1, <3>3 DEF Parts, OneUser
      <4> QED
        BY <2>1, <4>1, AloneUnblocked
    <3>4. CASE S \subseteq Names
      BY <2>1, <3>1, <3>4, TimersApart
    <3> QED
      BY <3>2, <3>3, <3>4 DEF Threads
  <2>4. Serial \/ Apart
    BY DEF Serial, Apart
  <2> QED
    BY <2>2, <2>3, <2>4
<1> QED
  BY <1>1, StateInvariance, StateUntangled, PTL
===============================================================================
