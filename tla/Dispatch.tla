--------------------------------- MODULE Dispatch ---------------------------------
(***************************************************************************)
(* Who is called for what: GOPriorityTable (goprioritytable.cpp), lists of    *)
(* receivers by level; GOEventTree (goeventtree.cpp), lists by event; and     *)
(* GTokenMap (gtokenmap.h), which gives the token of a source one of its own. *)
(* The lists are MsgCBs (see MsgCB).                                        *)
(***************************************************************************)
EXTENDS Integers, Sequences, SequencesExt, FiniteSets, FiniteSetsExt, CIntegers

CONSTANTS
  Receivers,    \* objects with callbacks in a priority table
  HalfLevels,   \* 2^15: levels wrap around there
  Levels,       \* levels that are asked for
  MaxInstalled, \* bound: callbacks of a level
  Finders,      \* threads that use an event tree
  TreeEvents,
  Sources,      \* tokens that are mapped
  LastToken,    \* 2^32 - 2: the ticker starts again after it
  MaxNested     \* bound: erasures of tokens inside each other

ASSUME DispatchAssumption ==
  /\ HalfLevels \in Nat \ {0} /\ Levels \subseteq Int
  /\ MaxInstalled \in Nat /\ LastToken \in Nat \ {0} /\ MaxNested \in Nat

VARIABLES
  mlmap,    \* _mlmap: the receivers of each level
  walk,     \* the invoke() under way: its level, and the callback it is in
  expected, \* observer: how often each receiver was installed when it began
  calls,    \* observer: how often it has called each receiver
  excused,  \* observer: receivers that were moved, removed, installed or passed over
  installer, \* where a thread is in install(): for whom, at which level, and whether
             \* the levels changed while it looked for that
  evtmap,   \* _evtmap: the list of each event
  finder,   \* where a thread is in event(), and whether the tree changed meanwhile
  lists,    \* observer: the lists that event() returned for each event
  s2d, d2s, \* _s2d and _d2s: the token on the other side
  ticker,   \* _ticker
  tokenErasing, \* the sources that are being erased, the innermost last
  age,      \* observer: how many tokens were given away since a source got its own
  tokenOdd  \* observer: "outlasted", a source has kept its token until the ticker came
            \* round to it, or "stale", an erasure will go on with what is gone

tableVars == <<mlmap, walk, expected, calls, excused, installer>>
treeVars == <<evtmap, finder, lists>>
tokenVars == <<s2d, d2s, ticker, tokenErasing, age, tokenOdd>>

-------------------------------------------------------------------------------
(* GOPriorityTable.  Its gate is recursive, so callbacks may use the table.  install()
   and level() look for a level without it, and with it insert one that they miss.  One
   thread does so step by step; the operations that are one step are those of
   callbacks, which hold the gate, or of threads that no other overlaps but this one.
   Left out: an invoke() in a callback, which MsgCB has. *)
Nil == [lvl |-> HalfLevels, i |-> 0]
Walking == walk # Nil
LevelId(l) == Signed(l, HalfLevels)
NoInstall == [at |-> "idle", who |-> CHOOSE r \in Receivers : TRUE, lvl |-> 0, torn |-> FALSE]
NoCalls == [r \in Receivers |-> 0]

TableInit ==
  /\ mlmap = [l \in {0} |-> <<>>] /\ walk = Nil
  /\ expected = NoCalls /\ calls = NoCalls /\ excused = {}
  /\ installer = NoInstall

List(table, l) == IF l \in DOMAIN table THEN table[l] ELSE <<>>
WithList(table, l, s) == [k \in DOMAIN table \cup {l} |-> IF k = l THEN s ELSE table[k]]
Installed(table, r, l) == WithList(table, l, Append(List(table, l), r))
LevelsOf(r) == {l \in DOMAIN mlmap : r \in Range(mlmap[l])}
First(s, r) == Min({i \in DOMAIN s : s[i] = r})

(* What a removal from the level that is being called does: those behind move up,
   and the next may be passed over. *)
PassedOver(r, ls) ==
  {mlmap[walk.lvl][i] : i \in {j \in {walk.i + 1} : /\ walk.lvl \in ls
                                                    /\ First(mlmap[walk.lvl], r) <= walk.i
                                                    /\ j <= Len(mlmap[walk.lvl])}}
Removed(r, l) == RemoveAt(mlmap[l], First(mlmap[l], r))

(* Whoever looks for a level while one is inserted may miss those that are there. *)
Tears ==
  installer' = IF installer = NoInstall \/ DOMAIN mlmap' = DOMAIN mlmap THEN installer
               ELSE [installer EXCEPT !.torn = TRUE]

(* install() and level(), which finds or makes a level. *)
TableInstall(r, lvl) ==
  /\ Len(List(mlmap, LevelId(lvl))) < MaxInstalled
  /\ mlmap' = Installed(mlmap, r, LevelId(lvl))
  /\ excused' = excused \cup {r}
  /\ Tears /\ UNCHANGED <<walk, expected, calls>>
Level(lvl) ==
  /\ mlmap' = WithList(mlmap, LevelId(lvl), List(mlmap, LevelId(lvl)))
  /\ Tears /\ UNCHANGED <<walk, expected, calls, excused>>

(* install() of a thread that others overlap. *)
Install(r, lvl) ==
  /\ installer = NoInstall
  /\ installer' = [at |-> "search", who |-> r, lvl |-> LevelId(lvl), torn |-> FALSE]
  /\ UNCHANGED <<mlmap, walk, expected, calls, excused>>

LevelFound ==
  /\ installer.at \in {"search", "again"} /\ installer.lvl \in DOMAIN mlmap
  /\ Len(mlmap[installer.lvl]) < MaxInstalled
  /\ mlmap' = Installed(mlmap, installer.who, installer.lvl)
  /\ excused' = excused \cup {installer.who}
  /\ installer' = NoInstall
  /\ UNCHANGED <<walk, expected, calls>>

(* The second time it goes on without one: a null pointer. *)
LevelMissed ==
  /\ installer.at \in {"search", "again"} /\ (installer.torn \/ installer.lvl \notin DOMAIN mlmap)
  /\ installer' = [installer EXCEPT !.at = IF @ = "search" THEN "insert" ELSE "ub", !.torn = FALSE]
  /\ UNCHANGED <<mlmap, walk, expected, calls, excused>>

(* It waits while invoke() has the gate.  GOSet::insert() keeps the level there is. *)
LevelInserted ==
  /\ installer.at = "insert" /\ ~Walking
  /\ mlmap' = WithList(mlmap, installer.lvl, List(mlmap, installer.lvl))
  /\ installer' = [installer EXCEPT !.at = "again", !.torn = FALSE]
  /\ UNCHANGED <<walk, expected, calls, excused>>

(* changeLevel() and changeLevelRel(): of its lowest level. *)
Relevel(r, LevelFrom(_)) ==
  /\ LevelsOf(r) # {}
  /\ LET from == Min(LevelsOf(r))
         to == LevelId(LevelFrom(from))
     IN /\ from # to => Len(List(mlmap, to)) < MaxInstalled
        /\ mlmap' = Installed(WithList(mlmap, from, Removed(r, from)), r, to)
        /\ excused' = excused \cup {r} \cup PassedOver(r, {from})
  /\ Tears /\ UNCHANGED <<walk, expected, calls>>
ChangeLevel(r, lvl) == Relevel(r, LAMBDA from : lvl)
ChangeLevelRel(r, d) == Relevel(r, LAMBDA from : from + d)

(* One callback of each level. *)
TableRemove(r) ==
  /\ mlmap' = [l \in DOMAIN mlmap |-> IF l \in LevelsOf(r) THEN Removed(r, l) ELSE mlmap[l]]
  /\ excused' = excused \cup {r} \cup PassedOver(r, LevelsOf(r))
  /\ UNCHANGED <<walk, expected, calls, installer>>

(* invoke(), unless the table is not enabled.  A callback that does not return 0 is
   the last of its level. *)
Invoke ==
  /\ ~Walking
  /\ walk' = [lvl |-> Min(DOMAIN mlmap), i |-> 0]
  /\ expected' = [r \in Receivers |->
       Cardinality({p \in (DOMAIN mlmap) \X (1 .. MaxInstalled) :
                      p[2] \in DOMAIN mlmap[p[1]] /\ mlmap[p[1]][p[2]] = r})]
  /\ calls' = NoCalls /\ excused' = {} /\ UNCHANGED <<mlmap, installer>>

CallNext ==
  /\ Walking /\ walk.i < Len(mlmap[walk.lvl])
  /\ walk' = [walk EXCEPT !.i = @ + 1]
  /\ calls' = [calls EXCEPT ![mlmap[walk.lvl][walk.i + 1]] = @ + 1]
  /\ UNCHANGED <<mlmap, expected, excused, installer>>

(* Mistake: a level is told again. *)
AtOrAbove(l) == {k \in DOMAIN mlmap : k >= l}

Above(l) == {k \in DOMAIN mlmap : k > l}
NextLevel(stops) ==
  /\ Walking
  /\ IF stops THEN walk.i > 0 ELSE walk.i >= Len(mlmap[walk.lvl])
  /\ walk' = IF Above(walk.lvl) = {} THEN Nil ELSE [lvl |-> Min(Above(walk.lvl)), i |-> 0]
  /\ excused' = excused \cup {mlmap[walk.lvl][j] : j \in walk.i + 1 .. Len(mlmap[walk.lvl])}
  /\ UNCHANGED <<mlmap, expected, calls, installer>>

(* Bound: before a receiver is called more than once too often nothing is changed. *)
TableNext ==
  /\ installer.at # "ub"
  /\ \/ Invoke \/ CallNext
     \/ \E stops \in BOOLEAN : NextLevel(stops)
     \/ LevelFound \/ LevelMissed \/ LevelInserted
     \/ /\ \A r \in Receivers : calls[r] <= expected[r]
        /\ \/ \E r \in Receivers, l \in Levels :
                TableInstall(r, l) \/ Install(r, l) \/ ChangeLevel(r, l) \/ ChangeLevelRel(r, l)
           \/ \E l \in Levels : Level(l)
           \/ \E r \in Receivers : TableRemove(r)

(* A receiver that stays where it is, while others come, go and change their levels
   in callbacks, is called as often as it is installed, unless it is passed over. *)
CalledAsInstalled ==
  \A r \in Receivers \ excused :
    calls[r] <= expected[r] /\ (~Walking => calls[r] = expected[r])

-------------------------------------------------------------------------------
(* GOEventTree: a list is named by the thread that made it.  event() looks for it
   without the gate and, if it misses it, with the gate inserts one and looks again;
   verify() is as event().  A tree that changes meanwhile may hide a node from those
   who look for it: of what such a race may do this is the outcome taken. *)
NoSearch == [at |-> "idle", evt |-> CHOOSE e \in TreeEvents : TRUE, torn |-> FALSE]

TreeInit ==
  /\ evtmap = [e \in {} |-> 0]
  /\ finder = [t \in Finders |-> NoSearch]
  /\ lists = [e \in TreeEvents |-> {}]

Event(t, e) ==
  /\ finder[t] = NoSearch
  /\ finder' = [finder EXCEPT ![t] = [at |-> "search", evt |-> e, torn |-> FALSE]]
  /\ UNCHANGED <<evtmap, lists>>

EventFound(t) ==
  /\ finder[t].at = "search" /\ finder[t].evt \in DOMAIN evtmap
  /\ lists' = [lists EXCEPT ![finder[t].evt] = @ \cup {evtmap[finder[t].evt]}]
  /\ finder' = [finder EXCEPT ![t] = NoSearch] /\ UNCHANGED evtmap

EventMissed(t) ==
  /\ finder[t].at = "search" /\ (finder[t].torn \/ finder[t].evt \notin DOMAIN evtmap)
  /\ finder' = [finder EXCEPT ![t].at = "insert"] /\ UNCHANGED <<evtmap, lists>>

(* Mistake: a node that was made meanwhile is replaced. *)
InsertedAnew(t, e) == t

(* GOMap::insert() keeps the node there is. *)
Inserted(t, e) == IF e \in DOMAIN evtmap THEN evtmap[e] ELSE t

EventInserts(t) ==
  /\ finder[t].at = "insert"
  /\ LET e == finder[t].evt
     IN /\ evtmap' = [f \in DOMAIN evtmap \cup {e} |-> IF f = e THEN Inserted(t, e) ELSE evtmap[f]]
        /\ lists' = [lists EXCEPT ![e] = @ \cup {evtmap'[e]}]
  /\ finder' = [u \in Finders |->
       IF u = t THEN NoSearch
       ELSE IF finder[u].at = "search" /\ DOMAIN evtmap' # DOMAIN evtmap
       THEN [finder[u] EXCEPT !.torn = TRUE] ELSE finder[u]]

(* However many threads ask for an event at the same time, there is one list. *)
OneListPerEvent == \A e \in TreeEvents : Cardinality(lists[e]) <= 1

TreeNext ==
  \E t \in Finders : \/ EventFound(t) \/ EventMissed(t) \/ EventInserts(t)
                     \/ \E e \in TreeEvents : Event(t, e)

-------------------------------------------------------------------------------
(* GTokenMap.  Its gate is recursive: while the watchers of an erasure are called they
   may insert and erase, too. *)
Empty == [k \in {} |-> 0]
Put(m, k, v) == [i \in DOMAIN m \cup {k} |-> IF i = k THEN v ELSE m[i]]
Dropped(m, k) == [i \in DOMAIN m \ {k} |-> m[i]]

TokenInit ==
  s2d = Empty /\ d2s = Empty /\ ticker = 0 /\ tokenErasing = <<>> /\ age = Empty /\ tokenOdd = {}

(* Mistake: the ticker starts again too early. *)
NextTokenEarly == IF ticker >= LastToken - 1 THEN 1 ELSE ticker + 1

NextToken == IF ticker = LastToken THEN 1 ELSE ticker + 1

TokenInsert(s) ==
  /\ IF s \in DOMAIN s2d
     THEN d2s' = Put(d2s, s2d[s], s) /\ UNCHANGED <<s2d, ticker, age, tokenOdd>>
     ELSE /\ ticker' = NextToken
          /\ s2d' = Put(s2d, s, NextToken) /\ d2s' = Put(d2s, NextToken, s)
          /\ age' = [r \in DOMAIN s2d \cup {s} |-> IF r = s THEN 0 ELSE age[r] + 1]
          /\ tokenOdd' = IF \E r \in DOMAIN s2d : age[r] + 1 = LastToken THEN {"outlasted"} ELSE {}
  /\ UNCHANGED tokenErasing

TokenErase(s) ==
  /\ s \in DOMAIN s2d /\ Len(tokenErasing) < MaxNested
  /\ tokenErasing' = Append(tokenErasing, s)
  /\ UNCHANGED <<s2d, d2s, ticker, age, tokenOdd>>

(* An erasure around this one that has found the same element is left with a dangling
   iterator. *)
TokenErased ==
  /\ tokenErasing # <<>>
  /\ LET s == Last(tokenErasing)
     IN /\ s2d' = Dropped(s2d, s) /\ d2s' = Dropped(d2s, s2d[s]) /\ age' = Dropped(age, s)
        /\ tokenErasing' = Front(tokenErasing)
        /\ tokenOdd' = IF s \in Range(tokenErasing') THEN {"stale"} ELSE {}
  /\ UNCHANGED ticker

(* Bound: nothing happens once a token is given away twice or an erasure goes wrong. *)
TokenNext ==
  /\ tokenOdd = {}
  /\ TokenErased \/ \E s \in Sources : TokenInsert(s) \/ TokenErase(s)

(* Both maps lead from a source to its token and back, in callbacks, too, unless a source
   keeps its token while all the others are given away, or a callback erases the source
   that is being erased. *)
TokensPaired ==
  tokenOdd = {} => /\ DOMAIN d2s = {s2d[s] : s \in DOMAIN s2d}
                   /\ \A s \in DOMAIN s2d : d2s[s2d[s]] = s
===============================================================================
