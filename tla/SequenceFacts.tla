----------------------------- MODULE SequenceFacts -----------------------------
(***************************************************************************)
(* Facts about the operators on sequences the lists and queues of the library *)
(* are modelled with.                                                       *)
(***************************************************************************)
EXTENDS Integers, Sequences, SequencesExt, SequenceTheorems,
        NaturalsInduction, WellFoundedInduction, TLAPS

(* For the facts about folds, of which instances of this module are made. *)
CONSTANTS
  FoldOp(_, _, _, _),  \* of two parameters, what was folded so far and the next element
  FoldBase(_, _),      \* of the parameters
  FoldInv(_, _, _, _)  \* of the parameters, how many elements so far, what was folded

(* A part of a sequence, possibly none of it. *)
LEMMA Subsequence ==
  ASSUME NEW S, NEW s \in Seq(S), NEW m \in Nat, NEW n \in Nat,
         1 <= m, m <= n + 1, n <= Len(s)
  PROVE  SubSeq(s, m, n) \in Seq(S) /\ Len(SubSeq(s, m, n)) = n - m + 1
<1>1. m \in Int /\ n \in Int
  OBVIOUS
<1>2. ASSUME NEW i \in m .. n PROVE s[i] \in S
  <2>1. i \in 1 .. Len(s)
    BY LenProperties
  <2> QED
    BY <2>1, ElementOfSeq
<1> DEFINE r == SubSeq(s, m, n)
<1>3. r \in Seq(S) /\ Len(r) = IF m <= n THEN n - m + 1 ELSE 0
  BY <1>1, <1>2, SubSeqProperties
<1> HIDE DEF r
<1>4. Len(r) = n - m + 1
  BY <1>1, <1>3
<1> QED
  BY <1>3, <1>4 DEF r

(* An element more. *)
LEMMA InsertAtLength ==
  ASSUME NEW S, NEW s \in Seq(S), NEW i \in 1 .. Len(s) + 1, NEW e \in S
  PROVE  InsertAt(s, i, e) \in Seq(S) /\ Len(InsertAt(s, i, e)) = Len(s) + 1
<1> DEFINE a == SubSeq(s, 1, i - 1)
           b == SubSeq(s, i, Len(s))
<1>0. Len(s) \in Nat /\ i \in Nat /\ 1 <= i /\ i <= Len(s) + 1 /\ i - 1 \in Nat
  BY LenProperties
<1>1. a \in Seq(S) /\ Len(a) = i - 1
  <2>1. SubSeq(s, 1, i - 1) \in Seq(S) /\ Len(SubSeq(s, 1, i - 1)) = (i - 1) - 1 + 1
    BY <1>0, Subsequence
  <2> QED
    BY <1>0, <2>1
<1>2. b \in Seq(S) /\ Len(b) = Len(s) - i + 1
  BY <1>0, Subsequence
<1>3. InsertAt(s, i, e) = a \o <<e>> \o b
  BY DEF InsertAt
<1> HIDE DEF a, b
<1>4. <<e>> \in Seq(S) /\ Len(<<e>>) = 1
  OBVIOUS
<1>5. a \o <<e>> \in Seq(S) /\ Len(a \o <<e>>) = Len(a) + 1
  BY <1>1, <1>4, ConcatProperties
<1>6. (a \o <<e>>) \o b \in Seq(S)
      /\ Len((a \o <<e>>) \o b) = Len(a \o <<e>>) + Len(b)
  BY <1>2, <1>5, ConcatProperties
<1>7. Len((a \o <<e>>) \o b) = Len(s) + 1
  BY <1>0, <1>1, <1>2, <1>5, <1>6
<1> QED
  BY <1>3, <1>6, <1>7

LEMMA AppendLast ==
  ASSUME NEW S, NEW s \in Seq(S), NEW e \in S
  PROVE  /\ Append(s, e) \in Seq(S) /\ Append(s, e) # <<>>
         /\ Last(Append(s, e)) = e
<1>1. /\ Append(s, e) \in Seq(S) /\ Len(Append(s, e)) = Len(s) + 1
      /\ Append(s, e)[Len(s) + 1] = e /\ Len(s) \in Nat
  BY AppendProperties, LenProperties
<1>2. Append(s, e) # <<>>
  BY <1>1, EmptySeq
<1> QED
  BY <1>1, <1>2 DEF Last

LEMMA AppendKeeps ==
  ASSUME NEW S, NEW s \in Seq(S), NEW e \in S
  PROVE  ToSet(s) \subseteq ToSet(Append(s, e))
BY AppendProperties, LenProperties DEF ToSet

(* An element less: what the others become, and which values may be lost. *)
LEMMA RemoveAtProperties ==
  ASSUME NEW S, NEW s \in Seq(S), NEW i \in 1 .. Len(s)
  PROVE  /\ RemoveAt(s, i) \in Seq(S)
         /\ Len(RemoveAt(s, i)) = Len(s) - 1
         /\ ToSet(s) \subseteq ToSet(RemoveAt(s, i)) \cup {s[i]}
<1> DEFINE a == SubSeq(s, 1, i - 1)
           b == SubSeq(s, i + 1, Len(s))
<1>0. Len(s) \in Nat /\ DOMAIN s = 1 .. Len(s) /\ \A k \in 1 .. Len(s) : s[k] \in S
  BY LenProperties, ElementOfSeq
<1>1. /\ a \in Seq(S) /\ Len(a) = i - 1
      /\ \A k \in 1 .. i - 1 : a[k] = s[k]
  BY <1>0, SubSeqProperties
<1>2. /\ b \in Seq(S) /\ Len(b) = Len(s) - i
      /\ \A k \in 1 .. Len(s) - i : b[k] = s[i + k]
  <2>1. i \in Nat /\ Len(s) \in Nat /\ i + 1 <= Len(s) + 1
    BY <1>0
  <2>2. ASSUME NEW k \in i + 1 .. Len(s) PROVE s[k] \in S
    BY <1>0, <2>1
  <2>3. /\ b \in Seq(S)
        /\ Len(b) = IF i + 1 <= Len(s) THEN Len(s) - (i + 1) + 1 ELSE 0
        /\ \A k \in 1 .. Len(s) - (i + 1) + 1 : b[k] = s[i + 1 + k - 1]
    <3>1. i + 1 \in Int /\ Len(s) \in Int
      BY <2>1
    <3> QED
      BY <2>2, <3>1, SubSeqProperties
  <2> HIDE DEF b
  <2>4. Len(b) = Len(s) - i
    BY <2>1, <2>3
  <2>5. ASSUME NEW k \in 1 .. Len(s) - i PROVE b[k] = s[i + k]
    <3>1. k \in 1 .. Len(s) - (i + 1) + 1 /\ i + 1 + k - 1 = i + k
      BY <2>1
    <3> QED
      BY <2>3, <3>1
  <2> QED
    BY <2>3, <2>4, <2>5
<1>3. RemoveAt(s, i) = a \o b
  BY DEF RemoveAt
<1> HIDE DEF a, b
<1>4. /\ a \o b \in Seq(S) /\ Len(a \o b) = Len(a) + Len(b)
      /\ \A k \in 1 .. Len(a) + Len(b) :
           (a \o b)[k] = IF k <= Len(a) THEN a[k] ELSE b[k - Len(a)]
  BY <1>1, <1>2, ConcatProperties
<1>5. ASSUME NEW k \in 1 .. Len(s), k # i
      PROVE  \E j \in 1 .. Len(s) - 1 : (a \o b)[j] = s[k]
  <2>1. CASE k < i
    <3>1. k \in 1 .. Len(a) + Len(b) /\ k \in 1 .. Len(s) - 1 /\ k <= Len(a)
      BY <1>0, <1>1, <1>2, <2>1
    <3> QED
      BY <1>1, <1>4, <2>1, <3>1
  <2>2. CASE k > i
    <3>1. /\ k - 1 \in 1 .. Len(a) + Len(b) /\ k - 1 \in 1 .. Len(s) - 1
          /\ ~(k - 1 <= Len(a)) /\ k - 1 - Len(a) = k - i
          /\ k - i \in 1 .. Len(s) - i
      BY <1>0, <1>1, <1>2, <2>2
    <3>2. (a \o b)[k - 1] = b[k - i]
      BY <1>4, <3>1
    <3>3. b[k - i] = s[k]
      BY <1>2, <3>1
    <3> QED
      BY <3>1, <3>2, <3>3
  <2>3. k < i \/ k > i
    BY <1>0, <1>5
  <2> QED
    BY <2>1, <2>2, <2>3
<1>6. ToSet(s) \subseteq ToSet(a \o b) \cup {s[i]}
  <2>0. Len(a \o b) = Len(s) - 1
    BY <1>0, <1>1, <1>2, <1>4
  <2>1. DOMAIN (a \o b) = 1 .. Len(s) - 1
    BY <1>4, <2>0, LenProperties
  <2> QED
    BY <1>0, <1>5, <2>1 DEF ToSet
<1> QED
  BY <1>0, <1>1, <1>2, <1>3, <1>4, <1>6


(* Where the elements are after an insertion and after a removal. *)
LEMMA InsertAtElements ==
  ASSUME NEW S, NEW s \in Seq(S), NEW i \in 1 .. Len(s) + 1, NEW e \in S
  PROVE  \A k \in 1 .. Len(s) + 1 :
           InsertAt(s, i, e)[k] = IF k < i THEN s[k] ELSE IF k = i THEN e ELSE s[k - 1]
<1> DEFINE a == SubSeq(s, 1, i - 1)
           b == SubSeq(s, i, Len(s))
<1>0. /\ Len(s) \in Nat /\ i \in Int /\ 1 <= i /\ i <= Len(s) + 1
      /\ \A k \in 1 .. Len(s) : s[k] \in S
  BY LenProperties, ElementOfSeq
<1>1. /\ a \in Seq(S) /\ Len(a) = i - 1
      /\ \A k \in 1 .. i - 1 : a[k] = s[k]
  <2>1. /\ a \in Seq(S) /\ Len(a) = IF 1 <= i - 1 THEN i - 1 - 1 + 1 ELSE 0
        /\ \A k \in 1 .. i - 1 - 1 + 1 : a[k] = s[1 + k - 1]
    <3>1. 1 \in Int /\ i - 1 \in Int /\ \A k \in 1 .. i - 1 : s[k] \in S
      BY <1>0
    <3> QED
      BY <3>1, SubSeqProperties
  <2> HIDE DEF a
  <2> QED
    BY <1>0, <2>1
<1>2. /\ b \in Seq(S) /\ Len(b) = Len(s) - i + 1
      /\ \A k \in 1 .. Len(s) - i + 1 : b[k] = s[i + k - 1]
  <2>1. /\ b \in Seq(S) /\ Len(b) = IF i <= Len(s) THEN Len(s) - i + 1 ELSE 0
        /\ \A k \in 1 .. Len(s) - i + 1 : b[k] = s[i + k - 1]
    <3>1. i \in Int /\ Len(s) \in Int /\ \A k \in i .. Len(s) : s[k] \in S
      BY <1>0
    <3> QED
      BY <3>1, SubSeqProperties
  <2> HIDE DEF b
  <2> QED
    BY <1>0, <2>1
<1>3. InsertAt(s, i, e) = (a \o <<e>>) \o b
  BY DEF InsertAt
<1> HIDE DEF a, b
<1>4. <<e>> \in Seq(S) /\ Len(<<e>>) = 1 /\ <<e>>[1] = e
  OBVIOUS
<1>5. /\ a \o <<e>> \in Seq(S) /\ Len(a \o <<e>>) = i
      /\ \A k \in 1 .. i : (a \o <<e>>)[k] = IF k < i THEN s[k] ELSE e
  <2>1. /\ a \o <<e>> \in Seq(S) /\ Len(a \o <<e>>) = Len(a) + Len(<<e>>)
        /\ \A k \in 1 .. Len(a) + Len(<<e>>) :
             (a \o <<e>>)[k] = IF k <= Len(a) THEN a[k] ELSE <<e>>[k - Len(a)]
    BY <1>1, <1>4, ConcatProperties
  <2> DEFINE c == a \o <<e>>
             d == <<e>>
  <2> HIDE DEF c, d
  <2>2. /\ c \in Seq(S) /\ Len(c) = Len(a) + Len(d)
        /\ \A k \in 1 .. Len(a) + Len(d) : c[k] = IF k <= Len(a) THEN a[k] ELSE d[k - Len(a)]
    BY <2>1 DEF c, d
  <2>3. Len(d) = 1 /\ d[1] = e
    BY <1>4 DEF d
  <2>4. c \in Seq(S) /\ Len(c) = i /\ \A k \in 1 .. i : c[k] = IF k < i THEN s[k] ELSE e
    BY <1>0, <1>1, <2>2, <2>3
  <2> QED
    BY <2>4 DEF c
<1> DEFINE c == a \o <<e>>
<1> HIDE DEF c
<1>6. \A k \in 1 .. Len(c) + Len(b) :
        (c \o b)[k] = IF k <= Len(c) THEN c[k] ELSE b[k - Len(c)]
  BY <1>2, <1>5, ConcatProperties DEF c
<1>7. Len(c) = i /\ \A k \in 1 .. i : c[k] = IF k < i THEN s[k] ELSE e
  BY <1>5 DEF c
<1>8. ASSUME NEW k \in 1 .. Len(s) + 1
      PROVE  (c \o b)[k] = IF k < i THEN s[k] ELSE IF k = i THEN e ELSE s[k - 1]
  <2>1. k \in 1 .. Len(c) + Len(b)
    BY <1>0, <1>2, <1>7
  <2>2. CASE k <= i
    <3>1. k \in 1 .. i
      BY <1>0, <2>2
    <3> QED
      BY <1>0, <1>6, <1>7, <2>1, <2>2, <3>1
  <2>3. CASE k > i
    <3>1. k - i \in 1 .. Len(s) - i + 1 /\ i + (k - i) - 1 = k - 1 /\ ~(k <= i) /\ ~(k < i)
      BY <1>0, <2>3
    <3> QED
      BY <1>2, <1>6, <1>7, <2>1, <3>1
  <2>4. k <= i \/ k > i
    BY <1>0
  <2> QED
    BY <2>2, <2>3, <2>4
<1> QED
  BY <1>3, <1>8 DEF c

LEMMA RemoveAtElements ==
  ASSUME NEW S, NEW s \in Seq(S), NEW i \in 1 .. Len(s)
  PROVE  \A k \in 1 .. Len(s) - 1 :
           RemoveAt(s, i)[k] = IF k < i THEN s[k] ELSE s[k + 1]
<1> DEFINE a == SubSeq(s, 1, i - 1)
           b == SubSeq(s, i + 1, Len(s))
<1>0. /\ Len(s) \in Nat /\ i \in Int /\ 1 <= i /\ i <= Len(s)
      /\ \A k \in 1 .. Len(s) : s[k] \in S
  BY LenProperties, ElementOfSeq
<1>1. /\ a \in Seq(S) /\ Len(a) = i - 1
      /\ \A k \in 1 .. i - 1 : a[k] = s[k]
  <2>1. /\ a \in Seq(S) /\ Len(a) = IF 1 <= i - 1 THEN i - 1 - 1 + 1 ELSE 0
        /\ \A k \in 1 .. i - 1 - 1 + 1 : a[k] = s[1 + k - 1]
    <3>1. 1 \in Int /\ i - 1 \in Int /\ \A k \in 1 .. i - 1 : s[k] \in S
      BY <1>0
    <3> QED
      BY <3>1, SubSeqProperties
  <2> HIDE DEF a
  <2> QED
    BY <1>0, <2>1
<1>2. /\ b \in Seq(S) /\ Len(b) = Len(s) - i
      /\ \A k \in 1 .. Len(s) - i : b[k] = s[i + k]
  <2>1. /\ b \in Seq(S) /\ Len(b) = IF i + 1 <= Len(s) THEN Len(s) - (i + 1) + 1 ELSE 0
        /\ \A k \in 1 .. Len(s) - (i + 1) + 1 : b[k] = s[i + 1 + k - 1]
    <3>1. i + 1 \in Int /\ Len(s) \in Int /\ \A k \in i + 1 .. Len(s) : s[k] \in S
      BY <1>0
    <3> QED
      BY <3>1, SubSeqProperties
  <2> HIDE DEF b
  <2>2. Len(b) = Len(s) - i
    BY <1>0, <2>1
  <2>3. ASSUME NEW k \in 1 .. Len(s) - i PROVE b[k] = s[i + k]
    <3>1. k \in 1 .. Len(s) - (i + 1) + 1 /\ i + 1 + k - 1 = i + k
      BY <1>0
    <3> QED
      BY <2>1, <3>1
  <2> QED
    BY <2>1, <2>2, <2>3
<1>3. RemoveAt(s, i) = a \o b
  BY DEF RemoveAt
<1> HIDE DEF a, b
<1>4. \A k \in 1 .. Len(a) + Len(b) :
        (a \o b)[k] = IF k <= Len(a) THEN a[k] ELSE b[k - Len(a)]
  BY <1>1, <1>2, ConcatProperties
<1>5. ASSUME NEW k \in 1 .. Len(s) - 1
      PROVE  (a \o b)[k] = IF k < i THEN s[k] ELSE s[k + 1]
  <2>1. k \in 1 .. Len(a) + Len(b)
    BY <1>0, <1>1, <1>2
  <2>2. CASE k < i
    <3>1. k \in 1 .. i - 1 /\ k <= Len(a)
      BY <1>0, <1>1, <2>2
    <3> QED
      BY <1>1, <1>4, <2>1, <2>2, <3>1
  <2>3. CASE ~(k < i)
    <3>1. k - Len(a) \in 1 .. Len(s) - i /\ i + (k - Len(a)) = k + 1 /\ ~(k <= Len(a))
      BY <1>0, <1>1, <2>3
    <3> QED
      BY <1>2, <1>4, <2>1, <2>3, <3>1
  <2> QED
    BY <2>2, <2>3
<1> QED
  BY <1>3, <1>5

(* The smallest of the numbers with a property. *)
LEMMA LeastNumber ==
  ASSUME NEW T, T \subseteq Nat, T # {}
  PROVE  \E x \in T : \A y \in T : x <= y
<1> DEFINE R == {p \in Nat \X Nat : p[1] < p[2]}
<1>1. IsWellFoundedOn(R, Nat)
  BY NatLessThanWellFounded DEF OpToRel
<1>2. \E x \in T : \A y \in T : ~(<<y, x>> \in R)
  <2> HIDE DEF R
  <2> QED
    BY <1>1, WFMin
<1>3. \A x, y \in T : ~(<<y, x>> \in R) => x <= y
  OBVIOUS
<1> QED
  BY <1>2, <1>3

-------------------------------------------------------------------------------
(***************************************************************************)
(* What FoldLeft computes, for an operator that has two parameters beside what *)
(* was folded so far and the next element.                                   *)
(***************************************************************************)
LEMMA GreatestNumber ==
  ASSUME NEW n \in Nat, NEW t, t \subseteq 1 .. n, t # {}
  PROVE  Max(t) \in t /\ \A y \in t : y <= Max(t)
<1>1. PICK U : U = {b \in Nat : \A y \in t : y <= b}
  OBVIOUS
<1>2. n \in U
  BY <1>1
<1>3. PICK b \in U : \A c \in U : b <= c
  BY <1>1, <1>2, LeastNumber
<1>4. b \in t
  <2> SUFFICES ASSUME b \notin t PROVE FALSE
    OBVIOUS
  <2>1. b # 0 /\ b - 1 \in Nat
    <3>1. PICK y \in t : y \in 1 .. n
      OBVIOUS
    <3>2. y <= b /\ b \in Nat
      BY <1>1
    <3> QED
      BY <3>1, <3>2
  <2>2. \A y \in t : y <= b - 1
    BY <1>1
  <2> QED
    BY <1>1, <1>3, <2>1, <2>2
<1>5. \A y \in t : b >= y
  BY <1>1
<1>6. \E x \in t : \A y \in t : x >= y
  BY <1>4, <1>5
<1>7. Max(t) \in t /\ \A y \in t : Max(t) >= y
  BY <1>6 DEF Max
<1> QED
  BY <1>7

(* The function that FoldLeft defines recursively is a g with g = FoldStep(..., g). *)
FoldStep(p, q, s, D, g) ==
  [t \in SUBSET D |->
     IF t = {} THEN FoldBase(p, q) ELSE FoldOp(p, q, g[t \ {Max(t)}], s[Max(t)])]

LEMMA StepExists ==
  ASSUME NEW p, NEW q, NEW s, NEW n \in Nat
  PROVE  \E g : g = FoldStep(p, q, s, 1 .. n, g)
<1>1. PICK T : T = {k \in Nat : ~ \E g : g = FoldStep(p, q, s, 1 .. k, g)}
  OBVIOUS
<1>2. CASE T = {}
  BY <1>1, <1>2
<1>3. CASE T # {}
  <2>1. PICK k \in T : \A j \in T : k <= j
    BY <1>1, <1>3, LeastNumber
  <2>2. k # 0
    <3>1. PICK g : g = [t \in SUBSET (1 .. 0) |-> FoldBase(p, q)]
      OBVIOUS
    <3>2. \A t \in SUBSET (1 .. 0) : t = {}
      OBVIOUS
    <3>3. g = FoldStep(p, q, s, 1 .. 0, g)
      BY <3>1, <3>2 DEF FoldStep
    <3> QED
      BY <1>1, <2>1, <3>3
  <2>3. PICK j \in Nat : k = j + 1
    <3>1. k - 1 \in Nat /\ k = (k - 1) + 1
      BY <1>1, <2>1, <2>2
    <3> QED
      BY <3>1
  <2>4. j \notin T
    BY <1>1, <2>1, <2>3
  <2>5. PICK g : g = FoldStep(p, q, s, 1 .. j, g)
    BY <1>1, <2>4
  <2>6. PICK h : h = [t \in SUBSET (1 .. k) |->
                        IF k \in t THEN FoldOp(p, q, g[t \ {k}], s[k]) ELSE g[t]]
    OBVIOUS
  <2>7. ASSUME NEW t \in SUBSET (1 .. k)
        PROVE  h[t] = IF t = {} THEN FoldBase(p, q) ELSE FoldOp(p, q, h[t \ {Max(t)}], s[Max(t)])
    <3>1. CASE k \in t
      <4>1. k \in Nat
        BY <1>1
      <4>2. Max(t) = k
        <5>1. Max(t) \in t /\ \A y \in t : y <= Max(t)
          BY <3>1, <4>1, GreatestNumber
        <5>2. Max(t) \in 1 .. k /\ k <= Max(t)
          BY <3>1, <5>1
        <5> QED
          BY <4>1, <5>2
      <4>3. h[t \ {k}] = g[t \ {k}]
        BY <2>6
      <4>4. h[t] = FoldOp(p, q, g[t \ {k}], s[k])
        BY <2>6, <3>1
      <4> QED
        BY <3>1, <4>2, <4>3, <4>4
    <3>2. CASE k \notin t
      <4>1. t \in SUBSET (1 .. j)
        BY <2>3, <3>2
      <4>2. h[t] = g[t]
        BY <2>6, <3>2
      <4>3. g[t] = IF t = {} THEN FoldBase(p, q) ELSE FoldOp(p, q, g[t \ {Max(t)}], s[Max(t)])
        BY <2>5, <4>1, Zenon DEF FoldStep
      <4>4. k \notin t \ {Max(t)} /\ t \ {Max(t)} \in SUBSET (1 .. k)
        BY <3>2
      <4>5. h[t \ {Max(t)}] = g[t \ {Max(t)}]
        BY <2>6, <4>4
      <4> QED
        BY <4>2, <4>3, <4>5
    <3> QED
      BY <3>1, <3>2
  <2>8. h = FoldStep(p, q, s, 1 .. k, h)
    <3>1. h = [t \in SUBSET (1 .. k) |-> h[t]]
      BY <2>6
    <3> QED
      BY <2>7, <3>1, Zenon DEF FoldStep
  <2> QED
    BY <1>1, <2>1, <2>8
<1> QED
  BY <1>2, <1>3

Fold(p, q, s) == FoldLeft(LAMBDA x, y : FoldOp(p, q, x, y), FoldBase(p, q), s)

(* a[k] is what the first k elements give. *)
Folding(p, q, s, n, a) ==
  /\ a = [k \in 0 .. n |-> a[k]]
  /\ a[0] = FoldBase(p, q)
  /\ \A k \in 1 .. n : a[k] = FoldOp(p, q, a[k - 1], s[k])
  /\ Fold(p, q, s) = a[n]

(* The fold goes through the sequence from its first element to its last... *)
LEMMA FoldIs ==
  ASSUME NEW p, NEW q, NEW s, NEW n \in Nat, DOMAIN s = 1 .. n
  PROVE  \E a : Folding(p, q, s, n, a)
<1>1. PICK g : g = CHOOSE h : h = FoldStep(p, q, s, 1 .. n, h)
  OBVIOUS
<1>2. g = FoldStep(p, q, s, 1 .. n, g)
  BY <1>1, StepExists, Zenon
<1>3. Fold(p, q, s) = g[1 .. n]
  BY <1>1, Zenon DEF Fold, FoldLeft, MapThenFoldSet, FoldStep
<1>4. PICK a : a = [k \in 0 .. n |-> g[1 .. k]]
  OBVIOUS
<1>5. a[0] = FoldBase(p, q)
  <2>1. 1 .. 0 = {} /\ 0 \in 0 .. n
    OBVIOUS
  <2>2. g[{}] = FoldBase(p, q)
    BY <1>2, Zenon DEF FoldStep
  <2> QED
    BY <1>4, <2>1, <2>2
<1>6. ASSUME NEW k \in 1 .. n
      PROVE  a[k] = FoldOp(p, q, a[k - 1], s[k])
  <2>1. /\ 1 .. k \in SUBSET (1 .. n) /\ 1 .. k # {} /\ (1 .. k) \ {k} = 1 .. k - 1
        /\ k \in Nat /\ k \in 0 .. n /\ k - 1 \in 0 .. n
    <3>1. k \in Nat /\ k <= n /\ k >= 1
      OBVIOUS
    <3>2. k \in 1 .. k
      BY <3>1
    <3>3. (1 .. k) \ {k} = 1 .. k - 1
      BY <3>1
    <3> QED
      BY <3>1, <3>2, <3>3
  <2>2. g[1 .. k] = FoldOp(p, q, g[(1 .. k) \ {Max(1 .. k)}], s[Max(1 .. k)])
    BY <1>2, <2>1, Zenon DEF FoldStep
  <2>3. Max(1 .. k) = k
    <3>1. k \in 1 .. k
      BY <2>1
    <3>2. Max(1 .. k) \in 1 .. k /\ k <= Max(1 .. k)
      BY <2>1, <3>1, GreatestNumber
    <3> QED
      BY <2>1, <3>2
  <2>4. a[k] = g[1 .. k] /\ a[k - 1] = g[1 .. k - 1]
    BY <1>4, <2>1
  <2> QED
    BY <2>1, <2>2, <2>3, <2>4
<1>7. a = [k \in 0 .. n |-> a[k]] /\ a[n] = g[1 .. n]
  BY <1>4
<1>8. Fold(p, q, s) = a[n]
  BY <1>3, <1>7, Zenon
<1> QED
  BY <1>5, <1>6, <1>7, <1>8, Zenon DEF Folding

(* ... and so it keeps what each of its steps keeps. *)
LEMMA FoldKeeps ==
  ASSUME NEW p, NEW q, NEW s, NEW n \in Nat, DOMAIN s = 1 .. n,
         FoldInv(p, q, 0, FoldBase(p, q)),
         \A k \in 1 .. n : \A x : FoldInv(p, q, k - 1, x) => FoldInv(p, q, k, FoldOp(p, q, x, s[k]))
  PROVE  \E a : Folding(p, q, s, n, a) /\ \A k \in 0 .. n : FoldInv(p, q, k, a[k])
<1>1. PICK a : Folding(p, q, s, n, a)
  BY FoldIs, Zenon
<1>2. ASSUME NEW j \in 0 .. n, ~FoldInv(p, q, j, a[j])
      PROVE  FALSE
  <2>1. PICK T : T = {k \in Nat : k <= n /\ ~FoldInv(p, q, k, a[k])}
    OBVIOUS
  <2>2. j \in T
    BY <1>2, <2>1
  <2>3. PICK k \in T : \A i \in T : k <= i
    BY <2>1, <2>2, LeastNumber
  <2>4. k \in Nat /\ k <= n /\ ~FoldInv(p, q, k, a[k])
    BY <2>1
  <2>5. a[0] = FoldBase(p, q) /\ FoldInv(p, q, 0, FoldBase(p, q))
    BY <1>1, Zenon DEF Folding
  <2>6. k \in 1 .. n /\ k - 1 \in Nat /\ k - 1 <= n /\ k - 1 < k
    BY <2>4, <2>5
  <2>7. FoldInv(p, q, k - 1, a[k - 1])
    BY <2>1, <2>3, <2>6
  <2>8. a[k] = FoldOp(p, q, a[k - 1], s[k])
    BY <1>1, <2>6, Zenon DEF Folding
  <2>9. FoldInv(p, q, k, a[k])
    BY <2>6, <2>7, <2>8, Zenon
  <2> QED
    BY <2>4, <2>9
<1>3. \A k \in 0 .. n : FoldInv(p, q, k, a[k])
  BY <1>2, Zenon
<1> QED
  BY <1>1, <1>3, Zenon

(* What any such a ends with. *)
LEMMA FoldEnds ==
  ASSUME NEW p, NEW q, NEW s, NEW n \in Nat, DOMAIN s = 1 .. n,
         NEW b, b[0] = FoldBase(p, q), \A k \in 1 .. n : b[k] = FoldOp(p, q, b[k - 1], s[k])
  PROVE  Fold(p, q, s) = b[n]
<1>1. PICK a : Folding(p, q, s, n, a)
  BY FoldIs
<1>2. a[n] = b[n]
  <2> SUFFICES ASSUME a[n] # b[n] PROVE FALSE
    OBVIOUS
  <2>1. PICK T : T = {k \in Nat : k <= n /\ a[k] # b[k]}
    OBVIOUS
  <2>2. n \in T
    BY <2>1
  <2>3. PICK k \in T : \A i \in T : k <= i
    BY <2>1, <2>2, LeastNumber
  <2>4. k \in Nat /\ k <= n /\ a[k] # b[k]
    BY <2>1
  <2>5. a[0] = b[0]
    BY <1>1, Zenon DEF Folding
  <2>6. k \in 1 .. n /\ k - 1 \in Nat /\ k - 1 <= n /\ k - 1 < k
    BY <2>4, <2>5
  <2>7. a[k - 1] = b[k - 1]
    BY <2>1, <2>3, <2>6
  <2>8. a[k] = FoldOp(p, q, a[k - 1], s[k]) /\ b[k] = FoldOp(p, q, b[k - 1], s[k])
    BY <1>1, <2>6, Zenon DEF Folding
  <2> QED
    BY <2>4, <2>7, <2>8
<1> QED
  BY <1>1, <1>2, Zenon DEF Folding
===============================================================================
