-------------------------------- MODULE Containers --------------------------------
(***************************************************************************)
(* GOVector (govector.h), GOMap (gomap.h) and GOSet (goset.h), whose watchers *)
(* are called after an insertion and before an erasure: of a vector with the  *)
(* element, of a map with the map, where current() is the element, of a set   *)
(* with nothing.  A watcher keeps what it believes the container to hold.      *)
(*                                                                         *)
(* A container's gate is recursive and held throughout: other threads wait,   *)
(* but a callback may use the container, too.  An erasure begins, calls, and   *)
(* ends, and while it calls anything may happen, erasures included.  After an  *)
(* insertion nothing is left to be done: what its callbacks do with the        *)
(* container they might as well do next.                                     *)
(***************************************************************************)
EXTENDS Integers, Sequences, SequencesExt, FiniteSets

CONSTANTS
  Values,   \* of a vector or a map: numbers, T() is 0
  Keys,     \* of a map or a set
  NoKey,    \* end()
  MaxSize,  \* bound: the elements of a vector
  MaxDepth  \* bound: erasures inside each other

ASSUME ContainersAssumption ==
  /\ Values \subseteq Nat /\ 0 \in Values
  /\ NoKey \notin Keys /\ MaxSize \in Nat /\ MaxDepth \in Nat

VARIABLES
  vec,        \* a vector
  vecSeen,    \* how often each value is in it, for all that its watcher knows
  vecErasing, \* the erasures under way, the innermost last
  vecOdd,     \* observer: "untold", the last change, "other", an element went that the
              \* watcher was not told of, "stale", an erasure will go on with what is
              \* gone, or "ub"
  map,        \* a map
  mapSeen,    \* its watcher's copy
  current,    \* _current
  erasing,    \* the erasures under way, the innermost last
  mapOdd,     \* observer: as vecOdd
  set,        \* a set
  setSeen,    \* how many elements it has, for all that its watcher knows
  setErasing, \* the elements that are being erased, the innermost last
  setOdd      \* observer: "stale" or "ub"

vecVars == <<vec, vecSeen, vecErasing, vecOdd>>
mapVars == <<map, mapSeen, current, erasing, mapOdd>>
setVars == <<set, setSeen, setErasing, setOdd>>

-------------------------------------------------------------------------------
(* GOVector. *)
Count(s) == [v \in Values |-> Cardinality({i \in DOMAIN s : s[i] = v})]
VecInit == vec = <<>> /\ vecSeen = Count(<<>>) /\ vecErasing = <<>> /\ vecOdd = {}

(* What the watcher is told. *)
PostInsert(x) == vecSeen' = [vecSeen EXCEPT ![x] = @ + 1]
PreErase(x) == vecSeen' = [vecSeen EXCEPT ![x] = @ - 1]

Spliced(p, s) == SubSeq(vec, 1, p - 1) \o s \o SubSeq(vec, p, Len(vec))
Without(f, l) == SubSeq(vec, 1, f - 1) \o SubSeq(vec, l, Len(vec))
Copies(n, x) == [i \in 1 .. n |-> x]

(* An erasure of the elements from f and before l: who was told so far, and what operator=
   will push then.  Its iterators are stale if one of them is at the place of a change, or
   behind, and all of them if an insertion has moved the vector.  pop_back() keeps none. *)
Erasure(how, f, l, pushes) == [how |-> how, f |-> f, l |-> l, told |-> <<>>, pushes |-> pushes]
Iterates(e) == e.how \in {"erase", "range", "clear"}
Held(e) == IF e.how = "range" THEN e.l ELSE e.f + Len(e.told) - 1

ErasedAt(es, p) ==
  /\ vecErasing' = es
  /\ vecOdd' = IF \E e \in Range(es) : Iterates(e) /\ p <= Held(e) THEN {"stale"} ELSE {}
InsertedAt(es, p) ==
  \/ ErasedAt(es, p)
  \/ (\E e \in Range(es) : Iterates(e)) /\ vecErasing' = es /\ vecOdd' = {"stale"}

PushBack(x) == vec' = Append(vec, x) /\ PostInsert(x) /\ InsertedAt(vecErasing, Len(vec) + 1)

(* One call for any n, for none, too, if there is an element at p. *)
VecInsert(p, n, x) ==
  /\ vec' = Spliced(p, Copies(n, x))
  /\ IF p <= Len(vec') THEN PostInsert(vec'[p]) ELSE UNCHANGED vecSeen
  /\ IF n = 1 THEN InsertedAt(vecErasing, p)
     ELSE vecOdd' = (IF p > Len(vec') THEN {} ELSE {"untold"}) /\ UNCHANGED vecErasing

(* The elements to insert are taken for numbers of elements, and _P, that is stale as
   soon as one was inserted, is used again: it may still lead to the first.  The copy
   constructor does it, too, without watchers yet. *)
VecInsertRange(p, s) ==
  \/ /\ Len(s) = 1 /\ vec' = Spliced(p, Copies(s[1], 0)) /\ p <= Len(vec')
     /\ vecSeen' = [vecSeen EXCEPT ![vec'[p]] = @ + 2]
     /\ vecOdd' = {"untold"} /\ UNCHANGED vecErasing
  \/ /\ Len(s) > 1 \/ s[1] > 0 \/ p > Len(vec)
     /\ vecOdd' = {"ub"} /\ UNCHANGED <<vec, vecSeen, vecErasing>>

(* resize() and assign() tell nobody. *)
VecResize(n, x) ==
  /\ vec' = IF n <= Len(vec) THEN SubSeq(vec, 1, n) ELSE vec \o Copies(n - Len(vec), x)
  /\ vecOdd' = {"untold"} /\ UNCHANGED <<vecSeen, vecErasing>>
VecAssign(s) == vec' = s /\ vecOdd' = {"untold"} /\ UNCHANGED <<vecSeen, vecErasing>>

VecUndefined == vecOdd' = {"ub"} /\ UNCHANGED <<vec, vecSeen, vecErasing>>
Begins(how, f, l, pushes) ==
  /\ Len(vecErasing) < MaxDepth
  /\ vecErasing' = Append(vecErasing, Erasure(how, f, l, pushes))
  /\ UNCHANGED <<vec, vecSeen, vecOdd>>

PopBack == vec # <<>> /\ Begins("pop", Len(vec), Len(vec) + 1, <<>>)
VecErase(p) == IF p <= Len(vec) THEN Begins("erase", p, p + 1, <<>>) ELSE VecUndefined
VecEraseRange(f, l) == f < l /\ l <= Len(vec) + 1 /\ Begins("range", f, l, <<>>)
VecClear == Begins("clear", 1, 1, <<>>)

(* operator=: of the vector itself what is copied has been cleared before. *)
VecCopy(other) == Begins("clear", 1, 1, other)
VecCopySelf == VecClear

Inner == Last(vecErasing)
Outer == Front(vecErasing)

(* Mistake: the last of the elements is not told of. *)
GoalShort == IF Inner.how = "clear" THEN Len(vec) ELSE Inner.l - 1

(* clear() looks for end() every time. *)
Goal == IF Inner.how = "clear" THEN Len(vec) + 1 ELSE Inner.l
HasTold == Inner.f + Len(Inner.told) >= Goal

VecTells ==
  /\ Inner.how # "copy" /\ ~HasTold
  /\ LET x == vec[Inner.f + Len(Inner.told)]
     IN /\ PreErase(x)
        /\ vecErasing' = Append(Outer, [Inner EXCEPT !.told = Append(@, x)])
  /\ UNCHANGED <<vec, vecOdd>>

(* Whatever is last now. *)
PopEnds ==
  /\ Inner.how = "pop" /\ HasTold
  /\ IF vec = <<>>
     THEN VecUndefined
     ELSE /\ vec' = Front(vec) /\ UNCHANGED vecSeen
          /\ IF <<Last(vec)>> = Inner.told THEN ErasedAt(Outer, Len(vec))
             ELSE vecOdd' = {"other"} /\ vecErasing' = Outer

EraseEnds ==
  /\ Inner.how \in {"erase", "range"} /\ HasTold
  /\ vec' = Without(Inner.f, Inner.l) /\ ErasedAt(Outer, Inner.f) /\ UNCHANGED vecSeen

ClearEnds ==
  /\ Inner.how = "clear" /\ HasTold
  /\ vec' = <<>> /\ UNCHANGED vecSeen
  /\ ErasedAt(IF Inner.pushes = <<>> THEN Outer
            ELSE Append(Outer, Erasure("copy", 1, 1, Inner.pushes)), 1)

(* operator= goes on to push. *)
VecPushes ==
  /\ Inner.how = "copy"
  /\ LET rest == Tail(Inner.pushes)
     IN InsertedAt(IF rest = <<>> THEN Outer
                 ELSE Append(Outer, Erasure("copy", 1, 2, rest)), Len(vec) + 1)
  /\ vec' = Append(vec, Head(Inner.pushes)) /\ PostInsert(Head(Inner.pushes))

(* A watcher that was not told looks at the vector again. *)
Reread ==
  /\ vecOdd = {"untold"} /\ vecErasing = <<>>
  /\ vecSeen' = Count(vec) /\ vecOdd' = {} /\ UNCHANGED <<vec, vecErasing>>

Some == {<<v>> : v \in Values} \cup {<<0, v>> : v \in Values}

(* Nothing is under way, or a callback of the innermost: it has told, or pushed. *)
InCallback == vecErasing # <<>> => Inner.told # <<>> \/ (Inner.how = "copy" /\ Inner.l = 2)

(* Bound: nothing happens once the watcher is wrong or an erasure will go wrong. *)
VecNext ==
  \/ Reread
  \/ /\ vecOdd = {} /\ vecErasing # <<>>
     /\ VecTells \/ PopEnds \/ EraseEnds \/ ClearEnds \/ VecPushes
  \/ /\ vecOdd = {} /\ InCallback /\ Len(vec) < MaxSize
     /\ \/ \E x \in Values : PushBack(x)
        \/ \E p \in 1 .. Len(vec) + 1 :
             \/ \E n \in 0 .. 2, x \in Values : VecInsert(p, n, x)
             \/ \E s \in Some : VecInsertRange(p, s)
        \/ \E n \in 0 .. MaxSize, x \in Values : VecResize(n, x)
        \/ \E s \in Some : VecAssign(s) \/ VecCopy(s)
  \/ /\ vecOdd = {} /\ InCallback
     /\ \/ PopBack \/ VecClear \/ VecCopySelf
        \/ \E p \in 1 .. Len(vec) + 1 : VecErase(p)
        \/ \E f, l \in 1 .. Len(vec) + 1 : VecEraseRange(f, l)

(* A watcher knows what a vector holds, however it was changed, in callbacks, too,
   unless by one of the operations that tell it nothing, or the wrong thing, or a
   callback has made another element the last one or an iterator stale. *)
VectorWatched == vecOdd = {} /\ vecErasing = <<>> => vecSeen = Count(vec)

-------------------------------------------------------------------------------
(* GOMap. *)
Nothing == [k \in {} |-> 0]
MapWith(m, k, v) == [i \in DOMAIN m \cup {k} |-> IF i = k THEN v ELSE m[i]]
MapLess(m, k) == [i \in DOMAIN m \ {k} |-> m[i]]

MapInit ==
  map = Nothing /\ mapSeen = Nothing /\ current = NoKey /\ erasing = <<>> /\ mapOdd = {}

(* Mistake: it replaces the element there is, and tells nobody. *)
MapInsertOver(k, v) ==
  /\ current' = k /\ map' = MapWith(map, k, v)
  /\ mapSeen' = IF k \in DOMAIN map THEN mapSeen ELSE MapWith(mapSeen, k, v)
  /\ UNCHANGED <<erasing, mapOdd>>

(* insert() keeps the element there is. *)
MapInsert(k, v) ==
  /\ current' = k
  /\ IF k \in DOMAIN map
     THEN UNCHANGED <<map, mapSeen>>
     ELSE map' = MapWith(map, k, v) /\ mapSeen' = MapWith(mapSeen, k, v)
  /\ UNCHANGED <<erasing, mapOdd>>

(* The watcher is told which element is current.  An erasure goes on with the element
   that is current then, or (by iterator) the one it began with.  update() has a value to
   insert in the end. *)
BeginErase(k, iterator, new) ==
  /\ Len(erasing) < MaxDepth
  /\ current' = k
  /\ mapSeen' = MapLess(mapSeen, k)
  /\ erasing' = Append(erasing, [told |-> k, iterator |-> iterator, new |-> new])
  /\ UNCHANGED <<map, mapOdd>>

Update(k, v) == IF k \in DOMAIN map THEN BeginErase(k, FALSE, <<v>>) ELSE MapInsert(k, v)
EraseKey(k) ==
  IF k \in DOMAIN map
  THEN BeginErase(k, FALSE, <<>>)
  ELSE current' = NoKey /\ UNCHANGED <<map, mapSeen, erasing, mapOdd>>
EraseIterator(k) == k \in DOMAIN map /\ BeginErase(k, TRUE, <<>>)

Victim(frame) == IF frame.iterator THEN frame.told ELSE current

(* What becomes of the erasures around this one: one that is of the same element goes on
   with what is gone, or with another. *)
MapOddness(frame) ==
  IF Victim(frame) # frame.told THEN {"other"}
  ELSE IF \E i \in 1 .. Len(erasing) - 1 : erasing[i].told = frame.told THEN {"stale"}
  ELSE {}

EndErase ==
  /\ erasing # <<>>
  /\ LET frame == Last(erasing)
         left == MapLess(map, Victim(frame))
     IN IF Victim(frame) \notin DOMAIN map
        THEN mapOdd' = {"ub"} /\ UNCHANGED <<map, mapSeen, current>>
        ELSE /\ mapOdd' = MapOddness(frame)
             /\ IF frame.new = <<>>
                THEN map' = left /\ UNCHANGED <<mapSeen, current>>
                ELSE /\ map' = IF frame.told \in DOMAIN left THEN left
                               ELSE MapWith(left, frame.told, frame.new[1])
                     /\ current' = frame.told
                     /\ mapSeen' = MapWith(mapSeen, frame.told, map'[frame.told])
  /\ erasing' = Front(erasing)

(* erase() of a range goes on from an iterator whose element it has erased. *)
EraseRange == map # Nothing /\ mapOdd' = {"ub"} /\ UNCHANGED <<map, mapSeen, current, erasing>>

(* operator= tells nobody; of the map itself it leaves nothing. *)
MapCopy(other) == map' = other /\ mapOdd' = {"untold"} /\ UNCHANGED <<mapSeen, current, erasing>>

(* Bound: nothing happens once the watcher is wrong or an erasure will go wrong. *)
MapNext ==
  /\ mapOdd = {}
  /\ \/ EndErase \/ EraseRange
     \/ \E k \in Keys :
          \/ \E v \in Values : MapInsert(k, v) \/ Update(k, v)
          \/ EraseKey(k) \/ EraseIterator(k)
     \/ \E m \in {Nothing} \cup [Keys -> Values] : MapCopy(m)

(* A watcher of a map knows what it holds, whatever its callbacks do with the map,
   unless one of them made another element current while one is being erased, or
   erased that, or the map was assigned. *)
MapWatched == mapOdd = {} /\ erasing = <<>> => mapSeen = map

-------------------------------------------------------------------------------
(* GOSet. *)
SetInit == set = {} /\ setSeen = 0 /\ setErasing = <<>> /\ setOdd = {}
(* Mistake: it tells of an element that was there before, too. *)
SetInsertTells(k) ==
  set' = set \cup {k} /\ setSeen' = setSeen + 1 /\ UNCHANGED <<setErasing, setOdd>>

SetInsert(k) ==
  /\ set' = set \cup {k}
  /\ setSeen' = IF k \in set THEN setSeen ELSE setSeen + 1
  /\ UNCHANGED <<setErasing, setOdd>>
SetErase(k) ==
  /\ k \in set /\ Len(setErasing) < MaxDepth
  /\ setSeen' = setSeen - 1 /\ setErasing' = Append(setErasing, k)
  /\ UNCHANGED <<set, setOdd>>
SetEnds ==
  /\ setErasing # <<>>
  /\ set' = set \ {Last(setErasing)} /\ setErasing' = Front(setErasing)
  /\ setOdd' = IF Last(setErasing) \in Range(setErasing') THEN {"stale"} ELSE {}
  /\ UNCHANGED setSeen
SetEraseRange == set # {} /\ setOdd' = {"ub"} /\ UNCHANGED <<set, setSeen, setErasing>>

SetNext ==
  /\ setOdd = {}
  /\ SetEnds \/ SetEraseRange \/ \E k \in Keys : SetInsert(k) \/ SetErase(k)

(* A watcher that counts knows how many elements a set has, unless a callback erases
   the element that is being erased. *)
SetWatched == setOdd = {} /\ setErasing = <<>> => setSeen = Cardinality(set)
===============================================================================
