------------------------------ MODULE BlobDBProofs ------------------------------
(***************************************************************************)
(* What holds of a BlobDB for any contents, sizes of blocks and buffers,      *)
(* lengths of the file and crashes at any step.  A walk along the chains is a *)
(* place in the file with the blocks passed and their data; the walks from a   *)
(* block are the smallest set with the first step that is closed under one      *)
(* step more, so what is shown of each step is shown of every walk.           *)
(***************************************************************************)
EXTENDS BlobDB, SequenceFacts, FiniteSetTheorems, WellFoundedInduction

Block == [data : Seq(Units), next : 0 .. MaxBlocks]
Header == [garbage : 0 .. MaxBlocks, recycled : Nat]
File == [made : BOOLEAN, hdr : Header, blocks : {s \in Seq(Block) : Len(s) <= MaxBlocks}]

Walks == Nat \X (SUBSET Nat) \X Seq(Units)

Begun(a, W) == <<a, {}, <<>>>> \in W

ClosedUnderSteps(f, W) ==
  \A b \in Nat, B \in SUBSET Nat, t \in Seq(Units) :
    <<b, B, t>> \in W /\ b \in DOMAIN f.blocks /\ b \notin B =>
      <<f.blocks[b].next, B \cup {b}, t \o f.blocks[b].data>> \in W

(* From a one comes to b, over the blocks B with the data t. *)
Path(f, a, b, B, t) ==
  /\ <<b, B, t>> \in Walks
  /\ \A W \in SUBSET Walks : Begun(a, W) /\ ClosedUnderSteps(f, W) => <<b, B, t>> \in W

(* From a one comes to an end. *)
List(f, a) == Path(f, a, 0, Blocks(f, a), Stored(f, a))

-------------------------------------------------------------------------------
LEMMA BlocksOfFile ==
  ASSUME NEW f \in File
  PROVE  /\ Len(f.blocks) \in Nat /\ Len(f.blocks) <= MaxBlocks
         /\ DOMAIN f.blocks = 1 .. Len(f.blocks)
         /\ \A b \in DOMAIN f.blocks :
              /\ b \in Nat /\ b # 0 /\ b \in Ids
              /\ f.blocks[b] \in Block /\ f.blocks[b].data \in Seq(Units)
              /\ f.blocks[b].next \in 0 .. MaxBlocks /\ f.blocks[b].next \in Nat
<1>1. f.blocks \in Seq(Block) /\ Len(f.blocks) <= MaxBlocks
  BY DEF File
<1>2. Len(f.blocks) \in Nat /\ DOMAIN f.blocks = 1 .. Len(f.blocks)
  BY <1>1, LenProperties
<1>3. ASSUME NEW b \in DOMAIN f.blocks PROVE f.blocks[b] \in Block
  BY <1>1, <1>2, <1>3, ElementOfSeq
<1>4. ASSUME NEW b \in DOMAIN f.blocks PROVE b \in Nat /\ b # 0 /\ b \in Ids
  BY <1>1, <1>2, <1>4, BlobAssumption DEF Ids
<1>5. ASSUME NEW b \in DOMAIN f.blocks
      PROVE  /\ f.blocks[b].data \in Seq(Units)
             /\ f.blocks[b].next \in 0 .. MaxBlocks /\ f.blocks[b].next \in Nat
  BY <1>3, BlobAssumption DEF Block
<1> QED
  BY <1>1, <1>2, <1>3, <1>4, <1>5

LEMMA Concat ==
  ASSUME NEW s \in Seq(Units), NEW t \in Seq(Units)
  PROVE  /\ s \o t \in Seq(Units) /\ Len(s \o t) = Len(s) + Len(t)
         /\ Len(s) \in Nat /\ Len(t) \in Nat
         /\ s \o <<>> = s /\ <<>> \o s = s
<1>1. s \o t \in Seq(Units) /\ Len(s \o t) = Len(s) + Len(t)
  BY ConcatProperties
<1>2. s \o <<>> = s /\ <<>> \o s = s
  BY ConcatEmptySeq
<1> QED
  BY <1>1, <1>2, LenProperties

LEMMA Associative ==
  ASSUME NEW s \in Seq(Units), NEW t \in Seq(Units), NEW u \in Seq(Units)
  PROVE  (s \o t) \o u = s \o (t \o u)
BY ConcatAssociative

LEMMA PathStart ==
  ASSUME NEW f, NEW a \in Nat
  PROVE  Path(f, a, a, {}, <<>>)
BY EmptySeq DEF Path, Walks, Begun

LEMMA PathType ==
  ASSUME NEW f, NEW a, NEW b, NEW B, NEW t, Path(f, a, b, B, t)
  PROVE  b \in Nat /\ B \in SUBSET Nat /\ t \in Seq(Units)
BY DEF Path, Walks

LEMMA PathStep ==
  ASSUME NEW f \in File, NEW a \in Nat, NEW b, NEW B, NEW t, Path(f, a, b, B, t),
         b \in DOMAIN f.blocks, b \notin B
  PROVE  Path(f, a, f.blocks[b].next, B \cup {b}, t \o f.blocks[b].data)
<1>1. b \in Nat /\ B \in SUBSET Nat /\ t \in Seq(Units)
  BY PathType
<1>2. f.blocks[b].next \in Nat /\ f.blocks[b].data \in Seq(Units)
  BY BlocksOfFile
<1> DEFINE d == f.blocks[b].data
           n == f.blocks[b].next
<1>3. t \o d \in Seq(Units)
  BY <1>1, <1>2, Concat
<1>4. <<n, B \cup {b}, t \o d>> \in Walks
  BY <1>1, <1>2, <1>3 DEF Walks
<1>5. ASSUME NEW W \in SUBSET Walks, Begun(a, W), ClosedUnderSteps(f, W)
      PROVE  <<n, B \cup {b}, t \o d>> \in W
  <2>1. <<b, B, t>> \in W
    BY <1>5 DEF Path
  <2> QED
    BY <1>1, <1>5, <2>1 DEF ClosedUnderSteps
<1> QED
  BY <1>4, <1>5 DEF Path

(* What the first walk has, and what each step keeps, every walk has. *)
LEMMA PathInduction ==
  ASSUME NEW f, NEW a, NEW b, NEW B, NEW t, Path(f, a, b, B, t),
         NEW W \in SUBSET Walks, Begun(a, W), ClosedUnderSteps(f, W)
  PROVE  <<b, B, t>> \in W
BY DEF Path

LEMMA PathBlocks ==
  ASSUME NEW f \in File, NEW a \in Nat, NEW b, NEW B, NEW t, Path(f, a, b, B, t)
  PROVE  B \subseteq DOMAIN f.blocks
<1> DEFINE W == {w \in Walks : w[2] \subseteq DOMAIN f.blocks}
<1>1. Begun(a, W)
  BY EmptySeq DEF Begun, Walks
<1>2. ClosedUnderSteps(f, W)
  <2> SUFFICES ASSUME NEW c \in Nat, NEW C \in SUBSET Nat, NEW u \in Seq(Units),
                      <<c, C, u>> \in W, c \in DOMAIN f.blocks, c \notin C
               PROVE  <<f.blocks[c].next, C \cup {c}, u \o f.blocks[c].data>> \in W
    BY DEF ClosedUnderSteps
  <2>1. f.blocks[c].next \in Nat /\ f.blocks[c].data \in Seq(Units)
    BY BlocksOfFile
  <2>2. u \o f.blocks[c].data \in Seq(Units)
    BY <2>1, Concat
  <2> QED
    BY <2>1, <2>2 DEF Walks
<1>3. <<b, B, t>> \in W
  BY <1>1, <1>2, PathInduction
<1> QED
  BY <1>3

LEMMA PathJoin ==
  ASSUME NEW f \in File, NEW a \in Nat, NEW b, NEW B, NEW t, Path(f, a, b, B, t),
         NEW c, NEW C, NEW u, Path(f, b, c, C, u), B \cap C = {}
  PROVE  Path(f, a, c, B \cup C, t \o u)
<1>1. b \in Nat /\ B \in SUBSET Nat /\ t \in Seq(Units)
  BY PathType
<1> DEFINE W == {w \in Walks : B \cap w[2] = {} => Path(f, a, w[1], B \cup w[2], t \o w[3])}
<1>2. Begun(b, W)
  BY <1>1, EmptySeq, Concat DEF Begun, Walks
<1>3. ClosedUnderSteps(f, W)
  <2> SUFFICES ASSUME NEW d \in Nat, NEW D \in SUBSET Nat, NEW v \in Seq(Units),
                      <<d, D, v>> \in W, d \in DOMAIN f.blocks, d \notin D
               PROVE  <<f.blocks[d].next, D \cup {d}, v \o f.blocks[d].data>> \in W
    BY DEF ClosedUnderSteps
  <2> DEFINE n == f.blocks[d].next
             e == f.blocks[d].data
  <2>1. n \in Nat /\ e \in Seq(Units)
    BY BlocksOfFile
  <2>2. v \o e \in Seq(Units) /\ (t \o v) \o e = t \o (v \o e)
    <3> HIDE DEF e
    <3>1. v \o e \in Seq(Units)
      BY <2>1, Concat
    <3>2. (t \o v) \o e = t \o (v \o e)
      BY <1>1, <2>1, Associative
    <3> QED
      BY <3>1, <3>2
  <2>3. ASSUME B \cap (D \cup {d}) = {}
        PROVE  Path(f, a, n, B \cup (D \cup {d}), t \o (v \o e))
    <3>1. Path(f, a, d, B \cup D, t \o v)
      BY <2>3
    <3>2. Path(f, a, n, (B \cup D) \cup {d}, (t \o v) \o e)
      BY <2>3, <3>1, PathStep
    <3>3. (B \cup D) \cup {d} = B \cup (D \cup {d})
      OBVIOUS
    <3> QED
      BY <2>2, <3>2, <3>3
  <2>4. <<n, D \cup {d}, v \o e>> \in Walks
    BY <2>1, <2>2 DEF Walks
  <2> QED
    BY <2>3, <2>4
<1>4. <<c, C, u>> \in W
  BY <1>2, <1>3, PathInduction
<1> QED
  BY <1>4

(* A file that is the same in some blocks. *)
Same(f, g, B) ==
  \A b \in DOMAIN f.blocks \cap B : b \in DOMAIN g.blocks /\ g.blocks[b] = f.blocks[b]

LEMMA PathFrame ==
  ASSUME NEW f \in File, NEW g \in File, NEW a \in Nat,
         NEW b, NEW B, NEW t, Path(f, a, b, B, t), Same(f, g, B)
  PROVE  Path(g, a, b, B, t)
<1> DEFINE W == {w \in Walks : w[2] \subseteq B => Path(g, a, w[1], w[2], w[3])}
<1>1. Begun(a, W)
  BY EmptySeq, PathStart DEF Begun, Walks
<1>2. ClosedUnderSteps(f, W)
  <2> SUFFICES ASSUME NEW d \in Nat, NEW D \in SUBSET Nat, NEW v \in Seq(Units),
                      <<d, D, v>> \in W, d \in DOMAIN f.blocks, d \notin D
               PROVE  <<f.blocks[d].next, D \cup {d}, v \o f.blocks[d].data>> \in W
    BY DEF ClosedUnderSteps
  <2> DEFINE n == f.blocks[d].next
             e == f.blocks[d].data
  <2>1. n \in Nat /\ e \in Seq(Units)
    BY BlocksOfFile
  <2>2. v \o e \in Seq(Units)
    BY <2>1, Concat
  <2>3. ASSUME D \cup {d} \subseteq B
        PROVE  Path(g, a, n, D \cup {d}, v \o e)
    <3>1. d \in DOMAIN g.blocks /\ g.blocks[d] = f.blocks[d]
      BY <2>3 DEF Same
    <3>2. Path(g, a, d, D, v)
      BY <2>3
    <3> QED
      BY <3>1, <3>2, PathStep
  <2>4. <<n, D \cup {d}, v \o e>> \in Walks
    BY <2>1, <2>2 DEF Walks
  <2> QED
    BY <2>3, <2>4
<1>3. <<b, B, t>> \in W
  BY <1>1, <1>2, PathInduction
<1> QED
  BY <1>3

(* The first step of a walk. *)
Stepped(f, a, b, B, t) ==
  /\ a \in B /\ a \in DOMAIN f.blocks
  /\ \E u \in Seq(Units) :
       /\ Path(f, f.blocks[a].next, b, B \ {a}, u)
       /\ t = f.blocks[a].data \o u

LEMMA PathFirst ==
  ASSUME NEW f \in File, NEW a \in Nat, NEW b, NEW B, NEW t, Path(f, a, b, B, t)
  PROVE  (b = a /\ B = {} /\ t = <<>>) \/ Stepped(f, a, b, B, t)
<1> DEFINE W == {w \in Walks : (w[1] = a /\ w[2] = {} /\ w[3] = <<>>)
                                 \/ Stepped(f, a, w[1], w[2], w[3])}
<1>1. Begun(a, W)
  BY EmptySeq DEF Begun, Walks
<1>2. ClosedUnderSteps(f, W)
  <2> SUFFICES ASSUME NEW d \in Nat, NEW D \in SUBSET Nat, NEW v \in Seq(Units),
                      <<d, D, v>> \in W, d \in DOMAIN f.blocks, d \notin D
               PROVE  <<f.blocks[d].next, D \cup {d}, v \o f.blocks[d].data>> \in W
    BY DEF ClosedUnderSteps
  <2> DEFINE n == f.blocks[d].next
             e == f.blocks[d].data
  <2>1. n \in Nat /\ e \in Seq(Units)
    BY BlocksOfFile
  <2>2. v \o e \in Seq(Units)
    BY <2>1, Concat
  <2>3. CASE d = a /\ D = {} /\ v = <<>>
    <3>1. Path(f, n, n, {}, <<>>)
      BY <2>1, PathStart
    <3>2. v \o e = e /\ e = e \o <<>> /\ <<>> \in Seq(Units)
      BY <2>1, <2>3, Concat, EmptySeq
    <3>3. (D \cup {d}) \ {a} = {}
      BY <2>3
    <3>4. Stepped(f, a, n, D \cup {d}, v \o e)
      BY <2>3, <3>1, <3>2, <3>3 DEF Stepped
    <3> QED
      BY <2>1, <2>2, <3>4 DEF Walks
  <2>4. CASE Stepped(f, a, d, D, v)
    <3>1. PICK u \in Seq(Units) :
            /\ Path(f, f.blocks[a].next, d, D \ {a}, u)
            /\ v = f.blocks[a].data \o u
      BY <2>4 DEF Stepped
    <3>2. a \in D /\ a \in DOMAIN f.blocks /\ d # a
      BY <2>4 DEF Stepped
    <3>3. f.blocks[a].next \in Nat /\ f.blocks[a].data \in Seq(Units)
      BY <3>2, BlocksOfFile
    <3>4. Path(f, f.blocks[a].next, n, (D \ {a}) \cup {d}, u \o e)
      BY <3>1, <3>3, PathStep
    <3>5. (D \ {a}) \cup {d} = (D \cup {d}) \ {a}
      BY <3>2
    <3>6. u \o e \in Seq(Units) /\ v \o e = f.blocks[a].data \o (u \o e)
      <4> DEFINE d0 == f.blocks[a].data
      <4>1. d0 \in Seq(Units) /\ v = d0 \o u
        BY <3>1, <3>3
      <4> HIDE DEF e, d0
      <4>2. u \o e \in Seq(Units)
        BY <2>1, Concat
      <4>3. (d0 \o u) \o e = d0 \o (u \o e)
        BY <2>1, <4>1, Associative
      <4> QED
        BY <4>1, <4>2, <4>3 DEF d0
    <3>7. Stepped(f, a, n, D \cup {d}, v \o e)
      BY <3>2, <3>4, <3>5, <3>6 DEF Stepped
    <3> QED
      BY <2>1, <2>2, <3>7 DEF Walks
  <2> QED
    BY <2>3, <2>4
<1>3. <<b, B, t>> \in W
  BY <1>1, <1>2, PathInduction
<1> QED
  BY <1>3

(* The places of a walk and the data up to each of them, counted. *)
Counted(f, a, b, B, t, n, g, x) ==
  /\ IsFiniteSet(B) /\ Cardinality(B) = n
  /\ g[1] = a /\ g[n + 1] = b /\ x[0] = <<>> /\ x[n] = t
  /\ \A i \in 1 .. n : /\ g[i] \in B /\ g[i] \in DOMAIN f.blocks
                       /\ g[i + 1] = f.blocks[g[i]].next
                       /\ x[i] = x[i - 1] \o f.blocks[g[i]].data
  /\ \A c \in B : \E i \in 1 .. n : g[i] = c

Countable(f, a, b, B, t) ==
  \E n \in Nat : \E g \in [1 .. n + 1 -> Nat], x \in [0 .. n -> Seq(Units)] :
    Counted(f, a, b, B, t, n, g, x)

LEMMA CountedStep ==
  ASSUME NEW f \in File, NEW a \in Nat, NEW b \in Nat, NEW B \in SUBSET Nat,
         NEW t \in Seq(Units), Countable(f, a, b, B, t),
         b \in DOMAIN f.blocks, b \notin B
  PROVE  Countable(f, a, f.blocks[b].next, B \cup {b}, t \o f.blocks[b].data)
<1> DEFINE m == f.blocks[b].next
           e == f.blocks[b].data
<1>1. m \in Nat /\ e \in Seq(Units)
  BY BlocksOfFile
<1>2. t \o e \in Seq(Units)
  BY <1>1, Concat
<1>3. PICK n \in Nat : \E g \in [1 .. n + 1 -> Nat], x \in [0 .. n -> Seq(Units)] :
             Counted(f, a, b, B, t, n, g, x)
  BY DEF Countable
<1>4. PICK g \in [1 .. n + 1 -> Nat], x \in [0 .. n -> Seq(Units)] :
             Counted(f, a, b, B, t, n, g, x)
  BY <1>3
<1> DEFINE g2 == [i \in 1 .. n + 2 |-> IF i = n + 2 THEN m ELSE g[i]]
           x2 == [i \in 0 .. n + 1 |-> IF i = n + 1 THEN t \o e ELSE x[i]]
<1>5. g2 \in [1 .. n + 2 -> Nat] /\ x2 \in [0 .. n + 1 -> Seq(Units)]
  <2>1. ASSUME NEW i \in 1 .. n + 2, i # n + 2 PROVE g[i] \in Nat
    <3>1. i \in 1 .. n + 1
      BY <2>1
    <3> QED
      BY <3>1
  <2>2. ASSUME NEW i \in 0 .. n + 1, i # n + 1 PROVE x[i] \in Seq(Units)
    <3>1. i \in 0 .. n
      BY <2>2
    <3> QED
      BY <3>1
  <2> HIDE DEF m, e
  <2> QED
    BY <1>1, <1>2, <2>1, <2>2
<1>6. IsFiniteSet(B \cup {b}) /\ Cardinality(B \cup {b}) = n + 1
  <2>1. IsFiniteSet(B) /\ Cardinality(B) = n
    BY <1>4 DEF Counted
  <2> QED
    BY <2>1, FS_AddElement
<1>7. g2[1] = a /\ g2[n + 2] = m /\ x2[0] = <<>> /\ x2[n + 1] = t \o e
  <2> HIDE DEF m, e
  <2> QED
    BY <1>4 DEF Counted
<1>8. ASSUME NEW i \in 1 .. n + 1
      PROVE  /\ g2[i] \in B \cup {b} /\ g2[i] \in DOMAIN f.blocks
             /\ g2[i + 1] = f.blocks[g2[i]].next
             /\ x2[i] = x2[i - 1] \o f.blocks[g2[i]].data
  <2>1. CASE i = n + 1
    <3>1. g2[i] = b /\ g2[i + 1] = m /\ x2[i] = t \o e /\ x2[i - 1] = t
      <4>1. i \in 1 .. n + 2 /\ i # n + 2 /\ i + 1 \in 1 .. n + 2 /\ i + 1 = n + 2
            /\ i \in 0 .. n + 1 /\ i - 1 \in 0 .. n + 1 /\ i - 1 # n + 1 /\ i - 1 = n
        BY <2>1
      <4>2. g[n + 1] = b /\ x[n] = t
        BY <1>4 DEF Counted
      <4> HIDE DEF m, e
      <4> QED
        BY <2>1, <4>1, <4>2
    <3> QED
      BY <3>1
  <2>2. CASE i # n + 1
    <3>1. i \in 1 .. n /\ i + 1 # n + 2 /\ i # n + 2 /\ i - 1 # n + 1
          /\ i + 1 \in 1 .. n + 2 /\ i \in 1 .. n + 2 /\ i \in 0 .. n + 1 /\ i - 1 \in 0 .. n + 1
      BY <2>2
    <3>2. g2[i] = g[i] /\ g2[i + 1] = g[i + 1] /\ x2[i] = x[i] /\ x2[i - 1] = x[i - 1]
      <4> HIDE DEF m, e
      <4> QED
        BY <2>2, <3>1
    <3>3. /\ g[i] \in B /\ g[i] \in DOMAIN f.blocks
          /\ g[i + 1] = f.blocks[g[i]].next
          /\ x[i] = x[i - 1] \o f.blocks[g[i]].data
      BY <1>4, <3>1 DEF Counted
    <3> HIDE DEF g2, x2, m, e
    <3> QED
      BY <3>2, <3>3
  <2> QED
    BY <2>1, <2>2
<1>9. ASSUME NEW c \in B \cup {b} PROVE \E i \in 1 .. n + 1 : g2[i] = c
  <2>1. CASE c = b
    <3>1. g2[n + 1] = b /\ n + 1 \in 1 .. n + 1
      <4> HIDE DEF m
      <4> QED
        BY <1>4 DEF Counted
    <3> HIDE DEF g2
    <3> QED
      BY <2>1, <3>1
  <2>2. CASE c \in B
    <3>1. PICK i \in 1 .. n : g[i] = c
      BY <1>4, <2>2 DEF Counted
    <3>2. g2[i] = g[i] /\ i \in 1 .. n + 1
      <4> HIDE DEF m
      <4> QED
        BY <3>1
    <3> HIDE DEF g2
    <3> QED
      BY <3>1, <3>2
  <2> QED
    BY <2>1, <2>2
<1> DEFINE k == n + 1
<1>10. k \in Nat /\ k + 1 = n + 2
  BY DEF k
<1> HIDE DEF g2, x2, m, e
<1>11. Counted(f, a, m, B \cup {b}, t \o e, k, g2, x2)
  BY <1>6, <1>7, <1>8, <1>9, <1>10 DEF Counted
<1>12. g2 \in [1 .. k + 1 -> Nat] /\ x2 \in [0 .. k -> Seq(Units)]
  BY <1>5, <1>10
<1> HIDE DEF k
<1>13. Countable(f, a, m, B \cup {b}, t \o e)
  BY <1>10, <1>11, <1>12 DEF Countable
<1> QED
  BY <1>13 DEF m, e

LEMMA PathCounted ==
  ASSUME NEW f \in File, NEW a \in Nat, NEW b, NEW B, NEW t, Path(f, a, b, B, t)
  PROVE  Countable(f, a, b, B, t)
<1> DEFINE W == {w \in Walks : Countable(f, a, w[1], w[2], w[3])}
<1>1. Begun(a, W)
  <2> DEFINE g == [i \in 1 .. 1 |-> a]
             x == [i \in 0 .. 0 |-> <<>>]
  <2>1. g \in [1 .. 0 + 1 -> Nat] /\ x \in [0 .. 0 -> Seq(Units)]
    BY EmptySeq
  <2>2. Counted(f, a, a, {}, <<>>, 0, g, x)
    BY FS_EmptySet DEF Counted
  <2> HIDE DEF g, x
  <2>3. Countable(f, a, a, {}, <<>>)
    BY <2>1, <2>2 DEF Countable
  <2> QED
    BY <2>3, EmptySeq DEF Begun, Walks
<1>2. ClosedUnderSteps(f, W)
  <2> SUFFICES ASSUME NEW d \in Nat, NEW D \in SUBSET Nat, NEW v \in Seq(Units),
                      <<d, D, v>> \in W, d \in DOMAIN f.blocks, d \notin D
               PROVE  <<f.blocks[d].next, D \cup {d}, v \o f.blocks[d].data>> \in W
    BY DEF ClosedUnderSteps
  <2>1. f.blocks[d].next \in Nat /\ f.blocks[d].data \in Seq(Units)
    BY BlocksOfFile
  <2>2. v \o f.blocks[d].data \in Seq(Units)
    BY <2>1, Concat
  <2>3. Countable(f, a, f.blocks[d].next, D \cup {d}, v \o f.blocks[d].data)
    BY CountedStep
  <2> QED
    BY <2>1, <2>2, <2>3 DEF Walks
<1>3. <<b, B, t>> \in W
  BY <1>1, <1>2, PathInduction
<1> QED
  BY <1>3

(* So many places, and then zeros. *)
Padded(chain, n, g) ==
  /\ DOMAIN chain = 1 .. MaxBlocks
  /\ \A i \in 1 .. MaxBlocks : chain[i] = IF i <= n THEN g[i] ELSE 0

(* The recursive functions of the model, by what they return: there is one
   function that satisfies the equation, and no other. *)
LEMMA ChainIs ==
  ASSUME NEW f \in File, NEW a \in Nat, NEW B, NEW t, NEW n \in Nat,
         NEW g \in [1 .. n + 1 -> Nat], NEW x \in [0 .. n -> Seq(Units)],
         Counted(f, a, 0, B, t, n, g, x), n <= MaxBlocks
  PROVE  Padded(Chain(f, a), n, g)
<1> DEFINE next == [b \in 0 .. Len(f.blocks) |-> IF b = 0 THEN 0 ELSE f.blocks[b].next]
           w == [i \in 1 .. MaxBlocks |-> IF i <= n THEN g[i] ELSE 0]
           Fits(h) == h = [k \in 1 .. MaxBlocks |-> IF k = 1 THEN a ELSE next[h[k - 1]]]
<1>0. MaxBlocks \in Nat
  BY BlobAssumption
<1>1. Len(f.blocks) \in Nat /\ DOMAIN f.blocks = 1 .. Len(f.blocks)
  BY BlocksOfFile
<1>2. next[0] = 0 /\ \A b \in DOMAIN f.blocks : next[b] = f.blocks[b].next
  BY <1>1
<1>3. /\ g[1] = a /\ g[n + 1] = 0
      /\ \A i \in 1 .. n : g[i] \in DOMAIN f.blocks /\ g[i + 1] = f.blocks[g[i]].next
  BY DEF Counted
<1> HIDE DEF next
<1>4. ASSUME NEW k \in 1 .. MaxBlocks
      PROVE  w[k] = IF k = 1 THEN a ELSE next[w[k - 1]]
  <2>1. CASE k = 1
    <3>1. CASE n = 0
      BY <1>3, <2>1, <3>1
    <3>2. CASE n > 0
      BY <1>3, <2>1, <3>2
    <3> QED
      BY <3>1, <3>2
  <2>2. CASE k # 1
    <3>1. k - 1 \in 1 .. MaxBlocks /\ k \in 1 .. MaxBlocks /\ k - 1 \in Nat
      BY <1>0, <2>2
    <3>2. CASE k - 1 <= n
      <4>1. w[k - 1] = g[k - 1] /\ k - 1 \in 1 .. n /\ k - 1 + 1 = k
        BY <3>1, <3>2
      <4>2. next[w[k - 1]] = g[k]
        BY <1>2, <1>3, <4>1
      <4>3. w[k] = g[k]
        <5>1. CASE k <= n
          BY <5>1
        <5>2. CASE k = n + 1
          BY <1>3, <5>2
        <5> QED
          BY <3>1, <3>2, <5>1, <5>2
      <4> QED
        BY <2>2, <4>2, <4>3
    <3>3. CASE ~(k - 1 <= n)
      <4>1. w[k - 1] = 0 /\ w[k] = 0
        BY <3>1, <3>3
      <4> QED
        BY <1>2, <2>2, <4>1
    <3> QED
      BY <3>2, <3>3
  <2> QED
    BY <2>1, <2>2
<1>5. Fits(w)
  BY <1>4
<1>6. ASSUME NEW h, Fits(h) PROVE h = w
  <2> DEFINE T == {k \in 1 .. MaxBlocks : h[k] # w[k]}
  <2>1. DOMAIN h = 1 .. MaxBlocks /\ h = [k \in 1 .. MaxBlocks |-> h[k]]
    BY <1>6
  <2>2. ASSUME NEW k \in 1 .. MaxBlocks
        PROVE  h[k] = IF k = 1 THEN a ELSE next[h[k - 1]]
    BY <1>6
  <2>3. T = {}
    <3> SUFFICES ASSUME T # {} PROVE FALSE
      OBVIOUS
    <3>1. T \subseteq Nat
      BY <1>0
    <3>2. PICK k \in T : \A j \in T : k <= j
      BY <3>1, LeastNumber
    <3>3. k \in 1 .. MaxBlocks /\ h[k] # w[k]
      OBVIOUS
    <3>4. k # 1
      BY <1>4, <2>2, <3>3
    <3>5. k - 1 \in 1 .. MaxBlocks /\ ~(k <= k - 1)
      BY <1>0, <3>3, <3>4
    <3>6. h[k - 1] = w[k - 1]
      BY <3>2, <3>5
    <3>7. w[k] = next[w[k - 1]]
      BY <1>4, <3>3, <3>4
    <3>8. h[k] = next[h[k - 1]]
      BY <2>2, <3>3, <3>4
    <3> HIDE DEF w, T, Fits
    <3> QED
      BY <3>3, <3>6, <3>7, <3>8
  <2>4. \A k \in 1 .. MaxBlocks : h[k] = w[k]
    BY <2>3
  <2> QED
    BY <2>1, <2>4
<1>7. (CHOOSE h : Fits(h)) = w
  <2> HIDE DEF Fits, w
  <2> QED
    BY <1>5, <1>6
<1>8. Chain(f, a) = [k \in 1 .. MaxBlocks |-> (CHOOSE h : Fits(h))[k]]
  BY DEF Chain, next
<1>9. Chain(f, a) = w
  BY <1>7, <1>8
<1> QED
  BY <1>9 DEF Padded

LEMMA StoredIs ==
  ASSUME NEW f \in File, NEW a \in Nat, NEW B, NEW t, NEW n \in Nat,
         NEW g \in [1 .. n + 1 -> Nat], NEW x \in [0 .. n -> Seq(Units)],
         Counted(f, a, 0, B, t, n, g, x), n <= MaxBlocks
  PROVE  Stored(f, a) = t
<1> DEFINE chain == Chain(f, a)
           w == [k \in 0 .. MaxBlocks |-> IF k <= n THEN x[k] ELSE t]
           One(h, k) == IF k = 0 THEN <<>>
                        ELSE IF chain[k] = 0 THEN h[k - 1]
                        ELSE h[k - 1] \o f.blocks[chain[k]].data
           Fits(h) == h = [k \in 0 .. MaxBlocks |-> One(h, k)]
<1>0. MaxBlocks \in Nat
  BY BlobAssumption
<1>1. \A k \in 1 .. MaxBlocks : chain[k] = IF k <= n THEN g[k] ELSE 0
  <2>1. Padded(chain, n, g)
    BY ChainIs
  <2> QED
    BY <2>1 DEF Padded
<1> HIDE DEF chain
<1>2. /\ x[0] = <<>> /\ x[n] = t
      /\ \A i \in 1 .. n : g[i] # 0 /\ x[i] = x[i - 1] \o f.blocks[g[i]].data
  BY BlocksOfFile DEF Counted
<1>3. ASSUME NEW k \in 0 .. MaxBlocks PROVE w[k] = One(w, k)
  <2>1. CASE k = 0
    BY <1>2, <2>1
  <2>2. CASE k # 0 /\ k <= n
    <3>1. k \in 1 .. n /\ k \in 1 .. MaxBlocks /\ k - 1 \in 0 .. MaxBlocks /\ k - 1 <= n
      BY <1>0, <2>2
    <3>2. chain[k] = g[k] /\ g[k] # 0 /\ x[k] = x[k - 1] \o f.blocks[g[k]].data
      BY <1>1, <1>2, <2>2, <3>1
    <3>3. w[k] = x[k] /\ w[k - 1] = x[k - 1]
      BY <2>2, <3>1
    <3> HIDE DEF w
    <3> QED
      BY <2>2, <3>2, <3>3
  <2>3. CASE ~(k <= n)
    <3>1. k # 0 /\ k \in 1 .. MaxBlocks /\ k - 1 \in 0 .. MaxBlocks
      BY <1>0, <2>3
    <3>2. chain[k] = 0
      BY <1>1, <2>3, <3>1
    <3>3. w[k] = t
      BY <2>3
    <3>4. w[k - 1] = t
      <4>1. CASE k - 1 <= n
        <5>1. k - 1 = n
          BY <2>3, <4>1
        <5> QED
          BY <1>2, <3>1, <5>1
      <4>2. CASE ~(k - 1 <= n)
        BY <3>1, <4>2
      <4> QED
        BY <4>1, <4>2
    <3> HIDE DEF w
    <3> QED
      BY <3>1, <3>2, <3>3, <3>4
  <2> QED
    BY <2>1, <2>2, <2>3
<1>4. Fits(w)
  <2>1. w = [k \in 0 .. MaxBlocks |-> w[k]]
    OBVIOUS
  <2> HIDE DEF w, One
  <2> QED
    BY <1>3, <2>1
<1>5. ASSUME NEW h, Fits(h) PROVE h = w
  <2> DEFINE T == {k \in 0 .. MaxBlocks : h[k] # w[k]}
  <2>1. /\ DOMAIN h = 0 .. MaxBlocks /\ h = [k \in 0 .. MaxBlocks |-> h[k]]
        /\ \A k \in 0 .. MaxBlocks : h[k] = One(h, k)
    <3> HIDE DEF One
    <3> QED
      BY <1>5
  <2>2. T = {}
    <3> SUFFICES ASSUME T # {} PROVE FALSE
      OBVIOUS
    <3>1. T \subseteq Nat
      BY <1>0
    <3>2. PICK k \in T : \A j \in T : k <= j
      <4> HIDE DEF T
      <4> QED
        BY <3>1, LeastNumber
    <3>3. k \in 0 .. MaxBlocks /\ h[k] # w[k]
      OBVIOUS
    <3>4. h[k] = One(h, k) /\ w[k] = One(w, k)
      <4> HIDE DEF One, w
      <4> QED
        BY <1>3, <2>1, <3>3
    <3>5. k # 0
      <4> HIDE DEF w
      <4> QED
        BY <3>3, <3>4
    <3>6. k - 1 \in 0 .. MaxBlocks /\ ~(k <= k - 1)
      BY <1>0, <3>3, <3>5
    <3>7. h[k - 1] = w[k - 1]
      <4> HIDE DEF w
      <4> QED
        BY <3>2, <3>6
    <3> HIDE DEF w, T
    <3> QED
      BY <3>3, <3>4, <3>7
  <2>3. \A k \in 0 .. MaxBlocks : h[k] = w[k]
    <3> HIDE DEF w
    <3> QED
      BY <2>2
  <2>4. DOMAIN w = 0 .. MaxBlocks /\ w = [k \in 0 .. MaxBlocks |-> w[k]]
    OBVIOUS
  <2> HIDE DEF w
  <2> QED
    BY <2>1, <2>3, <2>4
<1>6. (CHOOSE h : Fits(h)) = w
  <2> HIDE DEF Fits, w
  <2> QED
    BY <1>4, <1>5
<1>7. Stored(f, a) = (CHOOSE h : Fits(h))[MaxBlocks]
  BY DEF Stored, chain
<1>8. w[MaxBlocks] = t
  <2>1. CASE MaxBlocks <= n
    <3>1. MaxBlocks = n
      BY <1>0, <2>1
    <3> QED
      BY <1>0, <1>2, <3>1
  <2>2. CASE ~(MaxBlocks <= n)
    BY <1>0, <2>2
  <2> QED
    BY <2>1, <2>2
<1> QED
  BY <1>6, <1>7, <1>8

(* A walk to an end is what the model computes. *)
LEMMA ListIs ==
  ASSUME NEW f \in File, NEW a \in Nat, NEW B, NEW t, Path(f, a, 0, B, t)
  PROVE  List(f, a) /\ Blocks(f, a) = B /\ Stored(f, a) = t
<1>1. PICK n \in Nat : \E g \in [1 .. n + 1 -> Nat], x \in [0 .. n -> Seq(Units)] :
             Counted(f, a, 0, B, t, n, g, x)
  BY PathCounted DEF Countable
<1>2. PICK g \in [1 .. n + 1 -> Nat], x \in [0 .. n -> Seq(Units)] :
             Counted(f, a, 0, B, t, n, g, x)
  BY <1>1
<1>3. B \subseteq DOMAIN f.blocks /\ IsFiniteSet(B) /\ Cardinality(B) = n
  BY <1>2, PathBlocks DEF Counted
<1>4. MaxBlocks \in Nat /\ B \subseteq 1 .. MaxBlocks /\ \A b \in B : b # 0
  BY <1>3, BlocksOfFile, BlobAssumption DEF Ids
<1>5. n <= MaxBlocks
  <2>1. IsFiniteSet(1 .. MaxBlocks) /\ Cardinality(1 .. MaxBlocks) = MaxBlocks
    <3>0. 1 \in Int /\ MaxBlocks \in Int
      BY <1>4
    <3>1. /\ IsFiniteSet(1 .. MaxBlocks)
          /\ Cardinality(1 .. MaxBlocks) = IF 1 > MaxBlocks THEN 0 ELSE MaxBlocks - 1 + 1
      BY <3>0, FS_Interval, Zenon
    <3> QED
      BY <1>4, <3>1
  <2>2. Cardinality(B) <= Cardinality(1 .. MaxBlocks)
    BY <1>4, <2>1, FS_Subset
  <2> QED
    BY <1>3, <2>1, <2>2
<1> DEFINE w == Chain(f, a)
<1>6. Padded(w, n, g)
  BY <1>2, <1>5, ChainIs
<1> HIDE DEF w
<1>7. DOMAIN w = 1 .. MaxBlocks /\ \A i \in 1 .. MaxBlocks : w[i] = IF i <= n THEN g[i] ELSE 0
  BY <1>6 DEF Padded
<1>8. ASSUME NEW b PROVE b \in Blocks(f, a) <=> b \in B
  <2>1. b \in Blocks(f, a) <=> b # 0 /\ \E i \in 1 .. MaxBlocks : w[i] = b
    BY <1>7 DEF Blocks, ToSet, w
  <2>2. ASSUME NEW i \in 1 .. MaxBlocks, w[i] # 0 PROVE w[i] \in B
    <3>1. i \in 1 .. n /\ w[i] = g[i]
      BY <1>7, <2>2
    <3> QED
      BY <1>2, <3>1 DEF Counted
  <2>3. ASSUME b \in B PROVE \E i \in 1 .. MaxBlocks : w[i] = b
    <3>1. PICK i \in 1 .. n : g[i] = b
      BY <1>2, <2>3 DEF Counted
    <3>2. i \in 1 .. MaxBlocks /\ w[i] = b
      BY <1>4, <1>5, <1>7, <3>1
    <3> QED
      BY <3>2
  <2> QED
    BY <1>4, <2>1, <2>2, <2>3
<1>9. Blocks(f, a) = B
  BY <1>8
<1>10. Stored(f, a) = t
  BY <1>2, <1>5, StoredIs
<1> QED
  BY <1>9, <1>10 DEF List

LEMMA ListEnds ==
  ASSUME NEW f \in File
  PROVE  List(f, 0) /\ Blocks(f, 0) = {} /\ Stored(f, 0) = <<>>
<1>1. Path(f, 0, 0, {}, <<>>)
  BY PathStart
<1> QED
  BY <1>1, ListIs

LEMMA ListType ==
  ASSUME NEW f \in File, NEW a \in Nat, List(f, a)
  PROVE  Blocks(f, a) \subseteq DOMAIN f.blocks /\ Stored(f, a) \in Seq(Units)
BY PathType, PathBlocks DEF List

LEMMA ListJoin ==
  ASSUME NEW f \in File, NEW a \in Nat, NEW b, NEW B, NEW t, Path(f, a, b, B, t),
         List(f, b), B \cap Blocks(f, b) = {}
  PROVE  /\ List(f, a) /\ Blocks(f, a) = B \cup Blocks(f, b)
         /\ Stored(f, a) = t \o Stored(f, b)
<1>1. Path(f, b, 0, Blocks(f, b), Stored(f, b))
  BY DEF List
<1>2. Path(f, a, 0, B \cup Blocks(f, b), t \o Stored(f, b))
  BY <1>1, PathJoin
<1> QED
  BY <1>2, ListIs

LEMMA ListFirst ==
  ASSUME NEW f \in File, NEW a \in Nat, List(f, a), a # 0
  PROVE  /\ a \in DOMAIN f.blocks
         /\ List(f, f.blocks[a].next)
         /\ Blocks(f, a) = Blocks(f, f.blocks[a].next) \cup {a}
         /\ a \notin Blocks(f, f.blocks[a].next)
         /\ Stored(f, a) = f.blocks[a].data \o Stored(f, f.blocks[a].next)
<1>1. Path(f, a, 0, Blocks(f, a), Stored(f, a))
  BY DEF List
<1>2. Stepped(f, a, 0, Blocks(f, a), Stored(f, a))
  BY <1>1, PathFirst
<1>3. PICK u \in Seq(Units) :
        /\ Path(f, f.blocks[a].next, 0, Blocks(f, a) \ {a}, u)
        /\ Stored(f, a) = f.blocks[a].data \o u
  BY <1>2 DEF Stepped
<1>4. f.blocks[a].next \in Nat /\ a \in Blocks(f, a) /\ a \in DOMAIN f.blocks
  BY <1>2, BlocksOfFile DEF Stepped
<1>5. /\ List(f, f.blocks[a].next)
      /\ Blocks(f, f.blocks[a].next) = Blocks(f, a) \ {a}
      /\ Stored(f, f.blocks[a].next) = u
  BY <1>3, <1>4, ListIs
<1> QED
  BY <1>3, <1>4, <1>5

LEMMA ListHead ==
  ASSUME NEW f \in File, NEW a \in Nat, List(f, a), a # 0
  PROVE  a \in DOMAIN f.blocks /\ a \in Blocks(f, a) /\ f.blocks[a].next \in Nat
<1>1. Path(f, a, 0, Blocks(f, a), Stored(f, a))
  BY DEF List
<1>2. Stepped(f, a, 0, Blocks(f, a), Stored(f, a))
  BY <1>1, PathFirst
<1> QED
  BY <1>2, BlocksOfFile DEF Stepped

LEMMA ListFrame ==
  ASSUME NEW f \in File, NEW g \in File, NEW a \in Nat, List(f, a),
         Same(f, g, Blocks(f, a))
  PROVE  List(g, a) /\ Blocks(g, a) = Blocks(f, a) /\ Stored(g, a) = Stored(f, a)
<1>1. Path(g, a, 0, Blocks(f, a), Stored(f, a))
  BY PathFrame DEF List
<1> QED
  BY <1>1, ListIs

-------------------------------------------------------------------------------
(* What a file says of the blobs: each is a list of its own with its content,
   and so is what begins at the block a. *)
Contained(f, blobs) ==
  /\ \A id \in DOMAIN blobs : id \in Ids /\ List(f, id) /\ Stored(f, id) = blobs[id]
  /\ \A i, j \in DOMAIN blobs : i # j => Blocks(f, i) \cap Blocks(f, j) = {}

Apart(f, blobs, B) == \A id \in DOMAIN blobs : Blocks(f, id) \cap B = {}

Spare(f, blobs, a) == List(f, a) /\ Apart(f, blobs, Blocks(f, a))

Sound(f, blobs) == Contained(f, blobs) /\ Spare(f, blobs, f.hdr.garbage)

LEMMA ContainedFrame ==
  ASSUME NEW f \in File, NEW g \in File, NEW blobs, Contained(f, blobs),
         \A id \in DOMAIN blobs : Same(f, g, Blocks(f, id))
  PROVE  /\ Contained(g, blobs)
         /\ \A id \in DOMAIN blobs : Blocks(g, id) = Blocks(f, id)
<1>1. ASSUME NEW id \in DOMAIN blobs
      PROVE  /\ id \in Ids /\ List(g, id) /\ Blocks(g, id) = Blocks(f, id)
             /\ Stored(g, id) = blobs[id]
  <2>1. id \in Ids /\ List(f, id) /\ Stored(f, id) = blobs[id]
    BY DEF Contained
  <2>2. id \in Nat
    BY <2>1, BlobAssumption DEF Ids
  <2> QED
    BY <2>1, <2>2, ListFrame
<1> QED
  BY <1>1 DEF Contained

LEMMA SpareFrame ==
  ASSUME NEW f \in File, NEW g \in File, NEW blobs, NEW a \in Nat, Spare(f, blobs, a),
         \A id \in DOMAIN blobs : Blocks(g, id) = Blocks(f, id),
         Same(f, g, Blocks(f, a))
  PROVE  Spare(g, blobs, a) /\ Blocks(g, a) = Blocks(f, a)
<1>1. List(g, a) /\ Blocks(g, a) = Blocks(f, a)
  BY ListFrame DEF Spare
<1> QED
  BY <1>1 DEF Spare, Apart

LEMMA AppendedFile ==
  ASSUME NEW f \in File, NEW g, Len(f.blocks) < MaxBlocks,
         g = [f EXCEPT !.blocks = Append(@, Blank)]
  PROVE  /\ g \in File /\ g.hdr = f.hdr /\ Len(g.blocks) = Len(f.blocks) + 1
         /\ DOMAIN g.blocks = DOMAIN f.blocks \cup {Len(f.blocks) + 1}
         /\ Len(f.blocks) + 1 \notin DOMAIN f.blocks /\ Len(f.blocks) + 1 \in Ids
         /\ g.blocks[Len(f.blocks) + 1] = Blank
         /\ \A B : Same(f, g, B)
<1>1. /\ f.blocks \in Seq(Block) /\ f.hdr \in Header
      /\ g = [made |-> f.made, hdr |-> f.hdr, blocks |-> Append(f.blocks, Blank)]
  BY DEF File
<1>2. Blank \in Block
  BY EmptySeq, BlobAssumption DEF Block, Blank
<1>3. Len(f.blocks) \in Nat /\ DOMAIN f.blocks = 1 .. Len(f.blocks)
  BY BlocksOfFile
<1> DEFINE s == Append(f.blocks, Blank)
<1>4. /\ s \in Seq(Block) /\ Len(s) = Len(f.blocks) + 1
      /\ \A i \in 1 .. Len(f.blocks) : s[i] = f.blocks[i]
      /\ s[Len(f.blocks) + 1] = Blank
  BY <1>1, <1>2, AppendProperties
<1> HIDE DEF s
<1>5. DOMAIN s = 1 .. Len(f.blocks) + 1
  BY <1>4, LenProperties
<1>6. g.blocks = s /\ g.hdr = f.hdr
  BY <1>1 DEF s
<1>7. g \in File
  <2>1. Len(s) <= MaxBlocks
    BY <1>3, <1>4, BlobAssumption
  <2> QED
    BY <1>1, <1>4, <2>1 DEF File, s
<1>8. ASSUME NEW B PROVE Same(f, g, B)
  BY <1>3, <1>4, <1>5, <1>6 DEF Same
<1>9. Len(f.blocks) + 1 \in Ids
  BY <1>3, BlobAssumption DEF Ids
<1>10. /\ DOMAIN g.blocks = DOMAIN f.blocks \cup {Len(f.blocks) + 1}
       /\ Len(f.blocks) + 1 \notin DOMAIN f.blocks
  BY <1>3, <1>5, <1>6
<1>11. Len(g.blocks) = Len(f.blocks) + 1 /\ g.blocks[Len(f.blocks) + 1] = Blank
  BY <1>4, <1>6
<1> QED
  BY <1>6, <1>7, <1>8, <1>9, <1>10, <1>11

(* One block is another, and all else is as before. *)
BlockPut(f, g, p, e) ==
  /\ g \in File /\ g.hdr = f.hdr /\ Len(g.blocks) = Len(f.blocks)
  /\ DOMAIN g.blocks = DOMAIN f.blocks /\ g.blocks[p] = e
  /\ \A B : p \notin B => Same(f, g, B)

LEMMA PutFile ==
  ASSUME NEW f \in File, NEW g, NEW p \in DOMAIN f.blocks, NEW e \in Block,
         g = [f EXCEPT !.blocks[p] = e]
  PROVE  BlockPut(f, g, p, e)
<1>1. /\ f.blocks \in Seq(Block) /\ f.hdr \in Header
      /\ g = [made |-> f.made, hdr |-> f.hdr, blocks |-> [f.blocks EXCEPT ![p] = e]]
  BY DEF File
<1>2. Len(f.blocks) \in Nat /\ DOMAIN f.blocks = 1 .. Len(f.blocks)
      /\ Len(f.blocks) <= MaxBlocks
  BY BlocksOfFile
<1> DEFINE s == [f.blocks EXCEPT ![p] = e]
<1>3. /\ s \in Seq(Block) /\ Len(s) = Len(f.blocks) /\ s[p] = e
      /\ \A b \in DOMAIN f.blocks \ {p} : s[b] = f.blocks[b]
  BY <1>1, <1>2, ExceptSeq
<1>4. DOMAIN s = DOMAIN f.blocks
  OBVIOUS
<1>5. g.blocks = s /\ g.hdr = f.hdr
  BY <1>1
<1> HIDE DEF s
<1>6. g \in File
  BY <1>1, <1>2, <1>3 DEF File, s
<1>7. ASSUME NEW B, p \notin B PROVE Same(f, g, B)
  BY <1>3, <1>4, <1>5, <1>7 DEF Same
<1> QED
  BY <1>3, <1>4, <1>5, <1>6, <1>7 DEF BlockPut

LEMMA HeaderFile ==
  ASSUME NEW f \in File, NEW g, NEW h \in Header, g = [f EXCEPT !.hdr = h]
  PROVE  /\ g \in File /\ g.hdr = h /\ g.blocks = f.blocks
         /\ \A B : Same(f, g, B)
<1>1. g.hdr = h /\ g.blocks = f.blocks /\ g \in File
  BY DEF File
<1> QED
  BY <1>1 DEF Same

-------------------------------------------------------------------------------
Places == {"idle", "get", "fill", "header", "flush", "walk", "save", "read", "closed"}

Locals == [rest : Seq(Units), pos : 0 .. MaxBlocks, next : 0 .. MaxBlocks,
           first : 0 .. MaxBlocks, given : Seq(Units),
           out : Seq(Units), buf : Seq(Units), max : Nat, astray : BOOLEAN]
Sizings == [id : 0 .. MaxBlocks, pos : 0 .. MaxBlocks, sz : Nat, astray : BOOLEAN]

Typed ==
  /\ file \in File /\ disk \in File /\ hdr \in Header
  /\ len \in {Unknown, Len(file.blocks)}
  /\ at \in Places /\ op \in Locals
  /\ sizing \in Sizings
  /\ DOMAIN live \subseteq Ids /\ live = [id \in DOMAIN live |-> live[id]]
  /\ \A id \in DOMAIN live : live[id] \in Seq(Units)
  /\ crashes \in 0 .. MaxCrashes

(* Until a crash each block is garbage, in a blob or held by the operation, and
   recycle_sz counts the garbage and what recycle() has passed. *)
Accounted(B, n) ==
  crashes = 0 =>
    /\ \A b \in DOMAIN file.blocks :
         b \in Garbage \/ b \in B \/ \E id \in DOMAIN live : b \in Blocks(file, id)
    /\ hdr.recycled = Cardinality(Garbage) + n

AtRest == file.hdr = hdr /\ Spare(file, live, hdr.garbage) /\ Accounted({}, 0)

AtEnd ==
  /\ len = Unknown /\ sizing = NotSizing
  /\ crashes = 0 => file.hdr = hdr
  /\ Accounted({}, 0)

ToBegin ==
  /\ op.first = 0 /\ op.next = 0 /\ op.rest = op.given /\ op.given \in Contents
  /\ AtRest

(* What write() has filled, and the block that it fills next.  The header of the
   file still has the garbage there was, of which the first block is taken. *)
Written(B, t) ==
  /\ op.first # 0 /\ op.pos \in DOMAIN file.blocks /\ op.pos \notin B
  /\ Path(file, op.first, op.pos, B, t)
  /\ t \o op.rest = op.given /\ op.given \in Contents /\ op.rest # <<>>
  /\ Apart(file, live, B \cup {op.pos}) /\ (B \cup {op.pos}) \cap Garbage = {}
  /\ Spare(file, live, file.blocks[op.pos].next)
  /\ (B \cup {op.pos}) \cap Blocks(file, file.blocks[op.pos].next) = {}
  /\ file.hdr.garbage \in {0, op.first}
  /\ Spare(file, live, hdr.garbage)

Extending(B, t) ==
  /\ Written(B, t) /\ op.next = 0 /\ More(op.rest)
  /\ file.blocks[op.pos].next = hdr.garbage
  /\ Accounted(B \cup {op.pos}, 0)

Extended(B, t) ==
  /\ Written(B, t) /\ More(op.rest)
  /\ op.next \in DOMAIN file.blocks /\ op.next \notin B \cup {op.pos}
  /\ op.next \notin Garbage /\ Apart(file, live, {op.next})
  /\ file.blocks[op.next].next = hdr.garbage
  /\ Accounted(B \cup {op.pos, op.next}, 0)

Ending(B, t) ==
  Written(B, t) /\ ~More(op.rest) /\ Accounted(B \cup {op.pos}, 0)

Complete ==
  /\ op.first # 0 /\ List(file, op.first) /\ Stored(file, op.first) = op.given
  /\ op.given \in Contents
  /\ Apart(file, live, Blocks(file, op.first)) /\ Blocks(file, op.first) \cap Garbage = {}
  /\ Spare(file, live, hdr.garbage)
  /\ Accounted(Blocks(file, op.first), 0)

(* What recycle() has passed, and what is left. *)
Walking(B, t) ==
  /\ op.first # 0 /\ op.pos # 0 /\ Path(file, op.first, op.pos, B, t)
  /\ List(file, op.pos) /\ B \cap Blocks(file, op.pos) = {}
  /\ Apart(file, live, B \cup Blocks(file, op.pos))
  /\ (B \cup Blocks(file, op.pos)) \cap Garbage = {}
  /\ file.hdr.garbage = hdr.garbage /\ Spare(file, live, hdr.garbage)
  /\ Accounted(B \cup Blocks(file, op.pos), Cardinality(B))

Saving == Spare(file, live, hdr.garbage) /\ Accounted({}, 0)

(* What read() has handed on and what it has still to read are the blob, unless it
   went astray. *)
Passing ==
  IF op.first \in DOMAIN live
  THEN List(file, op.pos) /\ (op.out \o op.buf) \o Stored(file, op.pos) = live[op.first]
  ELSE op.pos \notin DOMAIN file.blocks /\ op.out = <<>> /\ op.buf = <<>>

Reading == op.max \in Buffers /\ Len(op.buf) < op.max /\ (op.astray \/ Passing)

Recycling == \E B \in SUBSET Nat, t \in Seq(Units) : Walking(B, t)
Growing == \E B \in SUBSET Nat, t \in Seq(Units) : Extending(B, t)
Filling == \E B \in SUBSET Nat, t \in Seq(Units) :
             IF op.next = 0 THEN Ending(B, t) ELSE Extended(B, t)

Placed ==
  /\ at \in {"idle", "read"} => AtRest
  /\ at = "read" => Reading
  /\ at = "closed" => AtEnd
  /\ at = "get" => IF op.pos = 0 THEN ToBegin ELSE Growing
  /\ at = "fill" => Filling
  /\ at \in {"header", "flush"} => Complete
  /\ at = "flush" => file.hdr = hdr
  /\ at = "walk" => Recycling
  /\ at = "save" => Saving

Measured ==
  sizing # NotSizing /\ ~sizing.astray =>
    /\ sizing.id \in DOMAIN live /\ List(file, sizing.pos)
    /\ Blocks(file, sizing.pos) \subseteq Blocks(file, sizing.id)
    /\ sizing.sz + Len(Stored(file, sizing.pos)) = Len(live[sizing.id])

IInv == Typed /\ Sound(file, live) /\ Sound(disk, live) /\ Placed /\ Measured

(* A file without blocks, with and without its header. *)
LEMMA NoBlocks ==
  /\ NewHeader \in Header /\ NewHeader.garbage = 0 /\ NewHeader.recycled = 0
  /\ \A f \in {NewFile, EmptyFile} :
       /\ f \in File /\ f.hdr = NewHeader
       /\ DOMAIN f.blocks = {} /\ Len(f.blocks) = 0
       /\ List(f, 0) /\ Blocks(f, 0) = {}
<1>0. 0 \in 0 .. MaxBlocks /\ MaxBlocks \in Nat
  BY BlobAssumption
<1>1. NewHeader \in Header /\ NewHeader.garbage = 0 /\ NewHeader.recycled = 0
  BY <1>0 DEF NewHeader, Header
<1>3. <<>> \in Seq(Block) /\ Len(<<>>) = 0 /\ DOMAIN <<>> = {}
  BY EmptySeq
<1>4. ASSUME NEW f \in {NewFile, EmptyFile}
      PROVE  /\ f \in File /\ f.hdr = NewHeader
             /\ DOMAIN f.blocks = {} /\ Len(f.blocks) = 0
  <2>1. f.hdr = NewHeader /\ f.blocks = <<>>
    BY DEF NewFile, EmptyFile
  <2>2. NewFile \in File /\ EmptyFile \in File
    BY <1>0, <1>1, <1>3 DEF NewFile, EmptyFile, File
  <2> QED
    BY <1>3, <2>1, <2>2
<1> QED
  BY <1>1, <1>4, ListEnds

LEMMA InitIInv == Init => IInv
<1> SUFFICES ASSUME Init PROVE IInv
  OBVIOUS
<1>0. MaxBlocks \in Nat /\ MaxCrashes \in Nat /\ 0 \in 0 .. MaxBlocks
  BY BlobAssumption
<1>1. /\ NewFile \in File /\ NewFile.hdr = NewHeader /\ NewHeader \in Header
      /\ NewHeader.garbage = 0 /\ NewHeader.recycled = 0
      /\ DOMAIN NewFile.blocks = {} /\ List(NewFile, 0) /\ Blocks(NewFile, 0) = {}
      /\ EmptyFile \in File /\ EmptyFile.hdr = NewHeader
      /\ List(EmptyFile, 0) /\ Blocks(EmptyFile, 0) = {}
  BY NoBlocks
<1>2. Typed
  BY <1>0, <1>1, EmptySeq
     DEF Typed, Init, NoOp, NotSizing, NoBlobs, Locals, Sizings, Places
<1>4. DOMAIN live = {}
  BY DEF Init, NoBlobs
<1>5. Sound(file, live) /\ Sound(disk, live)
  BY <1>1, <1>4 DEF Init, Sound, Contained, Spare, Apart
<1>6. Accounted({}, 0)
  <2>1. Cardinality({}) = 0
    BY FS_EmptySet
  <2> QED
    BY <1>1, <2>1 DEF Init, Accounted, Garbage
<1>7. Placed
  BY <1>1, <1>4, <1>6 DEF Init, Placed, AtRest, Spare, Apart
<1>8. Measured
  BY DEF Init, Measured
<1> QED
  BY <1>2, <1>5, <1>7, <1>8 DEF IInv

LEMMA Basics ==
  ASSUME IInv
  PROVE  /\ file \in File /\ disk \in File /\ hdr \in Header
         /\ hdr.garbage \in 0 .. MaxBlocks /\ hdr.garbage \in Nat /\ hdr.recycled \in Nat
         /\ file.hdr \in Header /\ disk.hdr \in Header
         /\ file.hdr.garbage \in Nat /\ disk.hdr.garbage \in Nat
         /\ op \in Locals /\ op.pos \in Nat /\ op.first \in Nat /\ op.next \in Nat
         /\ op.rest \in Seq(Units) /\ op.given \in Seq(Units)
         /\ sizing.id \in Nat /\ sizing.pos \in Nat /\ sizing.sz \in Nat
         /\ MaxBlocks \in Nat /\ Unknown = MaxBlocks + 1
         /\ \A id \in DOMAIN live : id \in Nat /\ id # 0 /\ id \in Ids
<1>1. Typed /\ MaxBlocks \in Nat
  BY BlobAssumption DEF IInv
<1>2. file \in File /\ disk \in File /\ hdr \in Header
  BY <1>1 DEF Typed
<1>3. /\ hdr.garbage \in 0 .. MaxBlocks /\ hdr.garbage \in Nat /\ hdr.recycled \in Nat
      /\ file.hdr \in Header /\ disk.hdr \in Header
      /\ file.hdr.garbage \in Nat /\ disk.hdr.garbage \in Nat
  BY <1>1, <1>2 DEF File, Header
<1>4. /\ op \in Locals /\ op.pos \in Nat /\ op.first \in Nat /\ op.next \in Nat
      /\ op.rest \in Seq(Units) /\ op.given \in Seq(Units)
  BY <1>1 DEF Typed, Locals
<1>5. sizing.id \in Nat /\ sizing.pos \in Nat /\ sizing.sz \in Nat
  BY <1>1 DEF Typed, Sizings
<1>6. \A id \in DOMAIN live : id \in Nat /\ id # 0 /\ id \in Ids
  BY <1>1 DEF Typed, Ids
<1> QED
  BY <1>1, <1>2, <1>3, <1>4, <1>5, <1>6 DEF Unknown

-------------------------------------------------------------------------------
(* A getsz() notices nothing of a step that leaves its blob alone. *)
LEMMA MeasuredFrame ==
  ASSUME IInv, sizing' = sizing, file' \in File,
         \A id \in DOMAIN live : Same(file, file', Blocks(file, id)),
         sizing # NotSizing /\ ~sizing.astray =>
           sizing.id \in DOMAIN live' /\ live'[sizing.id] = live[sizing.id]
  PROVE  Measured'
<1> SUFFICES ASSUME sizing # NotSizing, ~sizing.astray
             PROVE  /\ sizing.id \in DOMAIN live' /\ List(file', sizing.pos)
                    /\ Blocks(file', sizing.pos) \subseteq Blocks(file', sizing.id)
                    /\ sizing.sz + Len(Stored(file', sizing.pos)) = Len(live'[sizing.id])
  BY DEF Measured
<1>1. /\ sizing.id \in DOMAIN live /\ List(file, sizing.pos)
      /\ Blocks(file, sizing.pos) \subseteq Blocks(file, sizing.id)
      /\ sizing.sz + Len(Stored(file, sizing.pos)) = Len(live[sizing.id])
  BY DEF IInv, Measured
<1>2. sizing.pos \in Nat /\ sizing.id \in Nat /\ file \in File
  BY Basics
<1>3. Same(file, file', Blocks(file, sizing.id)) /\ Same(file, file', Blocks(file, sizing.pos))
  BY <1>1 DEF Same
<1>4. List(file, sizing.id)
  BY <1>1 DEF IInv, Sound, Contained
<1>5. Blocks(file', sizing.id) = Blocks(file, sizing.id)
  BY <1>2, <1>3, <1>4, ListFrame
<1>6. /\ List(file', sizing.pos) /\ Blocks(file', sizing.pos) = Blocks(file, sizing.pos)
      /\ Stored(file', sizing.pos) = Stored(file, sizing.pos)
  BY <1>1, <1>2, <1>3, ListFrame
<1> QED
  BY <1>1, <1>5, <1>6

(* The steps that leave the blocks of the file alone. *)
LEMMA WriteKeeps ==
  ASSUME IInv, NEW c \in Contents, Write(c)
  PROVE  IInv'
<1>1. /\ file' = file /\ disk' = disk /\ len' = len /\ hdr' = hdr /\ sizing' = sizing
      /\ live' = live /\ crashes' = crashes /\ at = "idle" /\ at' = "get"
      /\ op' = [NoOp EXCEPT !.rest = c, !.given = c]
  BY DEF Write
<1>2. c \in Seq(Units)
  BY BlobAssumption
<1>3. op' \in Locals /\ op'.pos = 0 /\ op'.first = 0 /\ op'.next = 0
      /\ op'.rest = c /\ op'.given = c
  <2>1. op' = [rest |-> c, pos |-> 0, next |-> 0, first |-> 0, given |-> c,
               out |-> <<>>, buf |-> <<>>, max |-> 0, astray |-> FALSE]
    BY <1>1 DEF NoOp
  <2>2. 0 \in 0 .. MaxBlocks /\ <<>> \in Seq(Units)
    BY EmptySeq, BlobAssumption
  <2> QED
    BY <1>2, <2>1, <2>2 DEF Locals
<1>4. Typed'
  BY <1>1, <1>3 DEF IInv, Typed, Places
<1>5. Sound(file', live') /\ Sound(disk', live') /\ Measured'
  BY <1>1 DEF IInv, Measured
<1>6. AtRest'
  BY <1>1 DEF IInv, Placed, AtRest, Accounted, Garbage
<1>7. Placed'
  BY <1>1, <1>3, <1>6 DEF Placed, ToBegin
<1> QED
  BY <1>4, <1>5, <1>7 DEF IInv

LEMMA WriteHeaderKeeps ==
  ASSUME IInv, WriteHeader
  PROVE  IInv'
<1>1. /\ file' = [file EXCEPT !.hdr = hdr] /\ disk' = file /\ len' = len /\ hdr' = hdr
      /\ sizing' = sizing /\ live' = live /\ crashes' = crashes
      /\ at = "header" /\ at' = "flush" /\ op' = op
  BY DEF WriteHeader, PutHeader, Put
<1>2. file' \in File /\ file'.hdr = hdr /\ file'.blocks = file.blocks
      /\ \A B : Same(file, file', B)
  BY <1>1, Basics, HeaderFile
<1>3. Typed'
  BY <1>1, <1>2 DEF IInv, Typed, Places
<1>4. /\ Contained(file', live)
      /\ \A id \in DOMAIN live : Blocks(file', id) = Blocks(file, id)
  BY <1>2, Basics, ContainedFrame DEF IInv, Sound
<1>5. Complete
  BY <1>1 DEF IInv, Placed
<1>6. Spare(file', live, hdr.garbage) /\ Blocks(file', hdr.garbage) = Blocks(file, hdr.garbage)
  BY <1>2, <1>4, <1>5, Basics, SpareFrame DEF Complete
<1>7. Sound(file', live') /\ Sound(disk', live')
  BY <1>1, <1>2, <1>4, <1>6 DEF IInv, Sound
<1>8. /\ List(file', op.first) /\ Blocks(file', op.first) = Blocks(file, op.first)
      /\ Stored(file', op.first) = Stored(file, op.first)
  BY <1>2, <1>5, Basics, ListFrame DEF Complete
<1>9. Complete'
  BY <1>1, <1>2, <1>4, <1>5, <1>6, <1>8 DEF Complete, Apart, Accounted, Garbage
<1>10. Placed'
  BY <1>1, <1>2, <1>9 DEF Placed
<1>11. Measured'
  <2>1. \A id \in DOMAIN live : Same(file, file', Blocks(file, id))
    BY <1>2
  <2>2. sizing # NotSizing /\ ~sizing.astray => sizing.id \in DOMAIN live' /\ live'[sizing.id] = live[sizing.id]
    BY <1>1 DEF IInv, Measured
  <2> QED
    BY <1>1, <1>2, <2>1, <2>2, MeasuredFrame
<1> QED
  BY <1>3, <1>7, <1>10, <1>11 DEF IInv

LEMMA BlankLocals == NoOp \in Locals /\ NoOp.pos = 0
<1>1. 0 \in 0 .. MaxBlocks /\ <<>> \in Seq(Units)
  BY EmptySeq, BlobAssumption
<1> QED
  BY <1>1 DEF NoOp, Locals

LEMMA SaveKeeps ==
  ASSUME IInv, Save
  PROVE  IInv'
<1>1. /\ file' = [file EXCEPT !.hdr = hdr] /\ disk' = file /\ len' = len /\ hdr' = hdr
      /\ sizing' = sizing /\ live' = live /\ crashes' = crashes
      /\ at = "save" /\ at' = "idle" /\ op' = NoOp
  BY DEF Save, PutHeader, Put
<1>2. file' \in File /\ file'.hdr = hdr /\ file'.blocks = file.blocks
      /\ \A B : Same(file, file', B)
  BY <1>1, Basics, HeaderFile
<1>3. Typed'
  BY <1>1, <1>2, BlankLocals DEF IInv, Typed, Places
<1>4. /\ Contained(file', live)
      /\ \A id \in DOMAIN live : Blocks(file', id) = Blocks(file, id)
  BY <1>2, Basics, ContainedFrame DEF IInv, Sound
<1>5. Saving
  BY <1>1 DEF IInv, Placed
<1>6. Spare(file', live, hdr.garbage) /\ Blocks(file', hdr.garbage) = Blocks(file, hdr.garbage)
  BY <1>2, <1>4, <1>5, Basics, SpareFrame DEF Saving
<1>7. Sound(file', live') /\ Sound(disk', live')
  BY <1>1, <1>2, <1>4, <1>6 DEF IInv, Sound
<1>8. AtRest'
  BY <1>1, <1>2, <1>4, <1>5, <1>6 DEF Saving, AtRest, Accounted, Garbage
<1>9. Placed'
  BY <1>1, <1>8 DEF Placed
<1>10. Measured'
  <2>1. \A id \in DOMAIN live : Same(file, file', Blocks(file, id))
    BY <1>2
  <2>2. sizing # NotSizing /\ ~sizing.astray => sizing.id \in DOMAIN live' /\ live'[sizing.id] = live[sizing.id]
    BY <1>1 DEF IInv, Measured
  <2> QED
    BY <1>1, <1>2, <2>1, <2>2, MeasuredFrame
<1> QED
  BY <1>3, <1>7, <1>9, <1>10 DEF IInv

LEMMA CloseKeeps ==
  ASSUME IInv, Close
  PROVE  IInv'
<1>1. /\ file' = file /\ disk' = file /\ len' = Unknown /\ hdr' = hdr /\ op' = op
      /\ sizing' = sizing /\ live' = live /\ crashes' = crashes
      /\ at = "idle" /\ at' = "closed" /\ sizing = NotSizing
  BY DEF Close
<1>2. Typed'
  BY <1>1 DEF IInv, Typed, Places
<1>3. Sound(file', live') /\ Sound(disk', live') /\ Measured'
  BY <1>1 DEF IInv, Measured
<1>4. AtRest
  BY <1>1 DEF IInv, Placed
<1>5. Placed'
  BY <1>1, <1>4 DEF Placed, AtRest, AtEnd, Accounted, Garbage
<1> QED
  BY <1>2, <1>3, <1>5 DEF IInv

LEMMA CreateKeeps ==
  ASSUME IInv, Create
  PROVE  IInv'
<1>1. /\ file' = NewFile /\ disk' = EmptyFile /\ len' = len /\ hdr' = NewHeader /\ op' = op
      /\ sizing' = sizing /\ live' = NoBlobs /\ crashes' = crashes
      /\ at = "closed" /\ at' = "idle"
  BY DEF Create
<1>2. len = Unknown /\ sizing = NotSizing
  BY <1>1 DEF IInv, Placed, AtEnd
<1>3. DOMAIN live' = {} /\ live' = [id \in DOMAIN live' |-> live'[id]]
  BY <1>1 DEF NoBlobs
<1>4. Typed'
  BY <1>1, <1>2, <1>3, NoBlocks DEF IInv, Typed, Places
<1>5. Sound(file', live') /\ Sound(disk', live')
  BY <1>1, <1>3, NoBlocks DEF Sound, Contained, Spare, Apart
<1>6. Cardinality({}) = 0
  BY FS_EmptySet
<1>7. AtRest'
  <2>1. Spare(NewFile, live', 0)
    BY <1>3, NoBlocks DEF Spare, Apart
  <2>2. Garbage' = {} /\ hdr'.recycled = 0 /\ DOMAIN file'.blocks = {}
    BY <1>1, NoBlocks DEF Garbage
  <2>3. Accounted({}, 0)'
    BY <1>6, <2>2 DEF Accounted
  <2> QED
    BY <1>1, <2>1, <2>3, NoBlocks DEF AtRest
<1>8. Placed' /\ Measured'
  BY <1>1, <1>2, <1>7 DEF Placed, Measured
<1> QED
  BY <1>1, <1>4, <1>5, <1>8 DEF IInv

LEMMA OpenKeeps ==
  ASSUME IInv, Open
  PROVE  IInv'
<1>1. /\ file' = file /\ disk' = disk /\ len' = len /\ hdr' = file.hdr /\ op' = op
      /\ sizing' = sizing /\ live' = live /\ crashes' = crashes
      /\ at = "closed" /\ at' = "idle"
  BY DEF Open
<1>2. Typed'
  BY <1>1, Basics DEF IInv, Typed, Places
<1>3. Sound(file', live') /\ Sound(disk', live') /\ Measured'
  BY <1>1 DEF IInv, Measured
<1>4. AtEnd
  BY <1>1 DEF IInv, Placed
<1>5. Spare(file, live, file.hdr.garbage)
  BY DEF IInv, Sound
<1>6. AtRest'
  BY <1>1, <1>4, <1>5 DEF AtEnd, AtRest, Accounted, Garbage
<1>7. Placed'
  BY <1>1, <1>6 DEF Placed
<1> QED
  BY <1>2, <1>3, <1>7 DEF IInv

LEMMA CrashKeeps ==
  ASSUME IInv, Crash
  PROVE  IInv'
<1>1. /\ file' = disk /\ disk' = disk /\ len' = Unknown /\ hdr' = hdr /\ op' = NoOp
      /\ sizing' = NotSizing /\ live' = live /\ crashes' = crashes + 1
      /\ at' = "closed" /\ crashes < MaxCrashes
  BY DEF Crash
<1>2. NotSizing \in Sizings
  BY BlobAssumption DEF NotSizing, Sizings
<1>3. crashes' \in 0 .. MaxCrashes /\ crashes' # 0
  BY <1>1, BlobAssumption DEF IInv, Typed
<1>4. Typed'
  BY <1>1, <1>2, <1>3, BlankLocals DEF IInv, Typed, Places
<1>5. Sound(file', live') /\ Sound(disk', live') /\ Measured'
  BY <1>1 DEF IInv, Measured
<1>6. Placed'
  BY <1>1, <1>3 DEF Placed, AtEnd, Accounted
<1> QED
  BY <1>4, <1>5, <1>6 DEF IInv

LEMMA PlacedFrame ==
  ASSUME Placed, at # "closed",
         file' = file, hdr' = hdr, at' = at, op' = op, live' = live, crashes' = crashes
  PROVE  Placed'
<1>1. Garbage' = Garbage /\ \A B, n : Accounted(B, n) => Accounted(B, n)'
  BY DEF Accounted, Garbage
<1>2. AtRest => AtRest'
  BY <1>1 DEF AtRest
<1>3. Reading => Reading'
  BY DEF Reading, Passing
<1>4. ToBegin => ToBegin'
  BY <1>2 DEF ToBegin
<1>5. ASSUME NEW B, NEW t, Written(B, t) PROVE Written(B, t)'
  BY <1>1, <1>5 DEF Written
<1>6. Growing => Growing'
  BY <1>1, <1>5 DEF Growing, Extending
<1>7. Filling => Filling'
  BY <1>1, <1>5 DEF Filling, Ending, Extended
<1>8. Complete => Complete'
  BY <1>1 DEF Complete
<1>9. Recycling => Recycling'
  BY <1>1 DEF Recycling, Walking
<1>10. Saving => Saving'
  BY <1>1 DEF Saving
<1> QED
  BY <1>2, <1>3, <1>4, <1>6, <1>7, <1>8, <1>9, <1>10 DEF Placed

LEMMA GetSizeKeeps ==
  ASSUME IInv, NEW id \in Ids, GetSize(id)
  PROVE  IInv'
<1>1. /\ file' = file /\ disk' = disk /\ len' = len /\ hdr' = hdr /\ op' = op
      /\ sizing' = [id |-> id, pos |-> id, sz |-> 0, astray |-> FALSE]
      /\ live' = live /\ crashes' = crashes
      /\ at' = at /\ at # "closed" /\ id \in DOMAIN live
  BY DEF GetSize, NotSizing
<1>2. id \in 0 .. MaxBlocks /\ id \in Nat
  BY BlobAssumption DEF Ids
<1>3. Typed'
  BY <1>1, <1>2 DEF IInv, Typed, Sizings
<1>4. List(file, id) /\ Stored(file, id) = live[id]
  BY <1>1 DEF IInv, Sound, Contained
<1>5. Len(Stored(file, id)) \in Nat
  BY <1>2, <1>4, Basics, ListType, LenProperties
<1>6. Measured'
  BY <1>1, <1>4, <1>5 DEF Measured
<1>7. Placed'
  BY <1>1, PlacedFrame DEF IInv
<1> QED
  BY <1>1, <1>3, <1>6, <1>7 DEF IInv

(* A getsz() that is at a block: the file is open. *)
LEMMA AtABlock ==
  ASSUME IInv, sizing.pos \in DOMAIN file.blocks
  PROVE  sizing # NotSizing /\ at # "closed"
<1>1. sizing.pos # 0
  BY Basics, BlocksOfFile
<1>2. sizing # NotSizing
  BY <1>1 DEF NotSizing
<1> QED
  BY <1>2 DEF IInv, Placed, AtEnd

LEMMA SizeBlockKeeps ==
  ASSUME IInv, SizeBlock
  PROVE  IInv'
<1> DEFINE p == sizing.pos
           n == file.blocks[p].next
           d == file.blocks[p].data
           z == IF sizing.astray THEN 0 ELSE sizing.sz + Len(d)
<1>1. /\ file' = file /\ disk' = file /\ len' = len /\ hdr' = hdr /\ op' = op
      /\ sizing' = [sizing EXCEPT !.pos = n, !.sz = z]
      /\ live' = live /\ crashes' = crashes /\ at' = at /\ p \in DOMAIN file.blocks
  BY DEF SizeBlock, Seek
<1>2. sizing # NotSizing /\ at # "closed"
  BY <1>1, AtABlock
<1>3. /\ file \in File /\ p \in Nat /\ sizing \in Sizings /\ sizing.sz \in Nat
  BY Basics DEF IInv, Typed
<1>4. n \in 0 .. MaxBlocks /\ n \in Nat /\ d \in Seq(Units) /\ p # 0
  BY <1>1, <1>3, BlocksOfFile
<1> HIDE DEF p, n, d
<1>5. Len(d) \in Nat
  BY <1>4, LenProperties
<1>6. z \in Nat
  BY <1>3, <1>5
<1> HIDE DEF z
<1>7. /\ sizing' \in Sizings /\ sizing'.id = sizing.id /\ sizing'.pos = n
      /\ sizing'.sz = z /\ sizing'.astray = sizing.astray
  BY <1>1, <1>3, <1>4, <1>6 DEF Sizings
<1>8. Typed'
  BY <1>1, <1>7 DEF IInv, Typed
<1>9. ASSUME ~sizing.astray
      PROVE  /\ sizing.id \in DOMAIN live /\ List(file, n)
             /\ Blocks(file, n) \subseteq Blocks(file, sizing.id)
             /\ z + Len(Stored(file, n)) = Len(live[sizing.id])
  <2>1. /\ sizing.id \in DOMAIN live /\ List(file, p)
        /\ Blocks(file, p) \subseteq Blocks(file, sizing.id)
        /\ sizing.sz + Len(Stored(file, p)) = Len(live[sizing.id])
    BY <1>2, <1>9 DEF IInv, Measured, p
  <2>2. /\ List(file, n) /\ Blocks(file, p) = Blocks(file, n) \cup {p}
        /\ Stored(file, p) = d \o Stored(file, n)
    BY <1>3, <1>4, <2>1, ListFirst DEF n, d
  <2>3. Stored(file, n) \in Seq(Units)
    BY <1>3, <1>4, <2>2, ListType
  <2>4. /\ Len(d \o Stored(file, n)) = Len(d) + Len(Stored(file, n))
        /\ Len(Stored(file, n)) \in Nat
    BY <1>4, <2>3, Concat
  <2>5. z = sizing.sz + Len(d)
    BY <1>9 DEF z
  <2> QED
    BY <1>3, <1>5, <2>1, <2>2, <2>4, <2>5
<1>10. Measured'
  BY <1>1, <1>7, <1>9 DEF Measured
<1>11. Placed'
  BY <1>1, <1>2, PlacedFrame DEF IInv
<1> QED
  BY <1>1, <1>8, <1>10, <1>11 DEF IInv

(* A getsz() that was led elsewhere is not measured, and harms nothing. *)
LEMMA SizeStrayKeeps ==
  ASSUME IInv, SizeStray
  PROVE  IInv'
<1>1. /\ file' = file /\ disk' = file /\ len' = len /\ hdr' = hdr /\ op' = op
      /\ live' = live /\ crashes' = crashes /\ at' = at
      /\ sizing.pos \in DOMAIN file.blocks
  BY DEF SizeStray, Seek
<1>2. PICK pos \in 0 .. Len(file.blocks) :
        sizing' = [sizing EXCEPT !.pos = pos, !.sz = 0, !.astray = TRUE]
  BY DEF SizeStray
<1>3. pos \in 0 .. MaxBlocks /\ sizing \in Sizings
  BY <1>1, Basics, BlocksOfFile DEF IInv, Typed
<1>4. sizing' \in Sizings /\ sizing'.astray
  BY <1>2, <1>3 DEF Sizings
<1>5. Typed'
  BY <1>1, <1>4 DEF IInv, Typed
<1>6. Measured'
  BY <1>4 DEF Measured
<1>7. Placed'
  BY <1>1, AtABlock, PlacedFrame DEF IInv
<1> QED
  BY <1>1, <1>5, <1>6, <1>7 DEF IInv

LEMMA SizeEndsKeeps ==
  ASSUME IInv, SizeEnds
  PROVE  IInv'
<1>1. /\ file' = file /\ disk' = disk /\ len' = len /\ hdr' = hdr /\ op' = op
      /\ sizing' = NotSizing /\ live' = live /\ crashes' = crashes /\ at' = at
      /\ sizing # NotSizing
  BY DEF SizeEnds
<1>2. NotSizing \in Sizings
  BY BlobAssumption DEF NotSizing, Sizings
<1>3. Typed'
  BY <1>1, <1>2 DEF IInv, Typed
<1>4. at # "closed"
  BY <1>1 DEF IInv, Placed, AtEnd
<1>5. Placed'
  BY <1>1, <1>4, PlacedFrame DEF IInv
<1> QED
  BY <1>1, <1>3, <1>5 DEF IInv, Measured

-------------------------------------------------------------------------------
(* read() *)
LEMMA ReadEndsKeeps ==
  ASSUME IInv, ReadEnds
  PROVE  IInv'
<1>1. /\ file' = file /\ disk' = disk /\ len' = len /\ hdr' = hdr /\ op' = NoOp
      /\ sizing' = sizing /\ live' = live /\ crashes' = crashes
      /\ at = "read" /\ at' = "idle"
  BY DEF ReadEnds
<1>2. Typed'
  BY <1>1, BlankLocals DEF IInv, Typed, Places
<1>3. AtRest'
  BY <1>1 DEF IInv, Placed, AtRest, Accounted, Garbage
<1>4. Placed'
  BY <1>1, <1>3 DEF Placed
<1> QED
  BY <1>1, <1>2, <1>4 DEF IInv, Measured

LEMMA ReadKeeps ==
  ASSUME IInv, NEW id \in Ids, NEW max \in Buffers, Read(id, max)
  PROVE  IInv'
<1>1. /\ file' = file /\ disk' \in {file, disk} /\ hdr' = hdr
      /\ sizing' = sizing /\ live' = live /\ crashes' = crashes
      /\ len' = IF len = Unknown THEN Len(file.blocks) ELSE len
      /\ op' = [NoOp EXCEPT !.pos = IF id > len' + 1 THEN 0 ELSE id, !.first = id, !.max = max]
      /\ at = "idle" /\ at' = "read" /\ (id \in DOMAIN live \/ id > Len(file.blocks))
  BY DEF Read, Seek
<1>2. /\ Len(file.blocks) \in Nat /\ DOMAIN file.blocks = 1 .. Len(file.blocks)
      /\ Len(file.blocks) <= MaxBlocks /\ file \in File
  BY Basics, BlocksOfFile
<1>3. len' = Len(file.blocks)
  BY <1>1 DEF IInv, Typed
<1>4. id \in Nat /\ id \in 0 .. MaxBlocks /\ 0 \in 0 .. MaxBlocks /\ max \in Nat \ {0}
  BY BlobAssumption DEF Ids
<1> DEFINE p == IF id > Len(file.blocks) + 1 THEN 0 ELSE id
<1>5. p \in 0 .. MaxBlocks
  BY <1>4
<1>6. op' = [rest |-> <<>>, pos |-> p, next |-> 0, first |-> id, given |-> <<>>,
             out |-> <<>>, buf |-> <<>>, max |-> max, astray |-> FALSE]
  BY <1>1, <1>3 DEF NoOp
<1>7. id \in DOMAIN live => p = id /\ List(file, id) /\ Stored(file, id) = live[id]
  <2> SUFFICES ASSUME id \in DOMAIN live
               PROVE  p = id /\ List(file, id) /\ Stored(file, id) = live[id]
    OBVIOUS
  <2>1. List(file, id) /\ Stored(file, id) = live[id] /\ id # 0
    BY Basics DEF IInv, Sound, Contained
  <2>2. id \in DOMAIN file.blocks
    BY <1>2, <1>4, <2>1, ListFirst
  <2>3. ~(id > Len(file.blocks) + 1)
    BY <1>2, <2>2
  <2> QED
    BY <2>1, <2>3
<1>8. id \notin DOMAIN live => p \notin DOMAIN file.blocks
  BY <1>1, <1>2, <1>4
<1> HIDE DEF p
<1>9. op' \in Locals
  BY <1>4, <1>5, <1>6, EmptySeq DEF Locals
<1>10. Typed'
  BY <1>1, <1>3, <1>9 DEF IInv, Typed, Places
<1>11. AtRest'
  BY <1>1 DEF IInv, Placed, AtRest, Accounted, Garbage
<1>12. Reading'
  <2>0. op'.astray = FALSE
    BY <1>6
  <2>1. op'.max \in Buffers /\ Len(op'.buf) < op'.max
    BY <1>4, <1>6, EmptySeq
  <2>2. ASSUME id \in DOMAIN live
        PROVE  List(file, p) /\ (<<>> \o <<>>) \o Stored(file, p) = live[id]
    <3>1. List(file, p) /\ Stored(file, p) = live[id] /\ Stored(file, p) \in Seq(Units)
      BY <1>2, <1>4, <1>7, <2>2, ListType
    <3>2. <<>> \o <<>> = <<>>
      BY EmptySeq, Concat
    <3>3. <<>> \o Stored(file, p) = Stored(file, p)
      BY <3>1, Concat
    <3> QED
      BY <3>1, <3>2, <3>3
  <2>3. /\ op'.first = id /\ op'.pos = p /\ op'.out = <<>> /\ op'.buf = <<>>
    BY <1>6
  <2> QED
    BY <1>1, <1>8, <2>0, <2>1, <2>2, <2>3 DEF Reading, Passing
<1>13. Placed'
  BY <1>1, <1>11, <1>12 DEF Placed
<1>14. Sound(file', live') /\ Sound(disk', live') /\ Measured'
  BY <1>1 DEF IInv, Measured
<1> QED
  BY <1>10, <1>13, <1>14 DEF IInv

(* A sequence in two parts. *)
LEMMA Split ==
  ASSUME NEW s \in Seq(Units), NEW k \in 0 .. Len(s)
  PROVE  /\ SubSeq(s, 1, k) \in Seq(Units) /\ SubSeq(s, k + 1, Len(s)) \in Seq(Units)
         /\ Len(SubSeq(s, k + 1, Len(s))) = Len(s) - k
         /\ SubSeq(s, 1, k) \o SubSeq(s, k + 1, Len(s)) = s
<1>1. Len(s) \in Nat /\ k \in Nat /\ k <= Len(s)
  BY LenProperties
<1>2. SubSeq(s, 1, k) \in Seq(Units)
  BY <1>1, Subsequence
<1>3. /\ SubSeq(s, k + 1, Len(s)) \in Seq(Units)
      /\ Len(SubSeq(s, k + 1, Len(s))) = Len(s) - (k + 1) + 1
  <2>1. k + 1 \in Nat /\ 1 <= k + 1 /\ k + 1 <= Len(s) + 1
    BY <1>1
  <2> QED
    BY <1>1, <2>1, Subsequence
<1>4. SubSeq(s, 1, k) \o SubSeq(s, k + 1, Len(s)) = SubSeq(s, 1, Len(s))
  <2>1. 1 \in 1 .. Len(s) + 1 /\ k \in 1 - 1 .. Len(s) /\ Len(s) \in k .. Len(s)
    BY <1>1
  <2> QED
    BY <2>1, ConcatAdjacentSubSeq
<1>5. SubSeq(s, 1, Len(s)) = s
  BY SubSeqFull
<1>6. Len(s) - (k + 1) + 1 = Len(s) - k
  BY <1>1
<1> QED
  BY <1>2, <1>3, <1>4, <1>5, <1>6

LEMMA BufferLeft ==
  ASSUME NEW n \in Nat, NEW m \in Nat \ {0}
  PROVE  n % m \in 0 .. n /\ n % m < m
<1>1. n % m \in 0 .. m - 1 /\ n = m * (n \div m) + (n % m) /\ n \div m \in Int
  OBVIOUS
<1>2. CASE n >= m
  BY <1>1, <1>2
<1>3. CASE n < m
  <2>1. n % m = n
    BY <1>3
  <2> QED
    BY <1>3, <2>1
<1> QED
  BY <1>2, <1>3

(* push_data() loses no unit, keeps their order and leaves room in the buffer. *)
LEMMA PushedIs ==
  ASSUME NEW o \in Locals, NEW units \in Seq(Units), o.max # 0
  PROVE  \E out, buf \in Seq(Units) :
           /\ Pushed(o, units) = [o EXCEPT !.out = out, !.buf = buf]
           /\ Len(buf) < o.max
           /\ out \o buf = (o.out \o o.buf) \o units
<1>1. o.out \in Seq(Units) /\ o.buf \in Seq(Units) /\ o.max \in Nat \ {0}
  BY DEF Locals
<1> DEFINE all == o.buf \o units
           left == Len(all) % o.max
           full == Len(all) - left
           out == o.out \o SubSeq(all, 1, full)
           buf == SubSeq(all, full + 1, Len(all))
<1>2. all \in Seq(Units) /\ Len(all) \in Nat
  BY <1>1, Concat, LenProperties
<1>3. Pushed(o, units) = [o EXCEPT !.out = out, !.buf = buf]
  BY DEF Pushed, PushedInto
<1> HIDE DEF all
<1>4. left \in 0 .. Len(all) /\ left < o.max
  BY <1>1, <1>2, BufferLeft
<1> HIDE DEF left
<1>5. full \in 0 .. Len(all) /\ Len(all) - full = left
  BY <1>2, <1>4
<1> HIDE DEF full
<1>6. /\ SubSeq(all, 1, full) \in Seq(Units) /\ buf \in Seq(Units)
      /\ Len(buf) = Len(all) - full /\ SubSeq(all, 1, full) \o buf = all
  BY <1>2, <1>5, Split
<1> DEFINE whole == SubSeq(all, 1, full)
<1>7. whole \in Seq(Units) /\ whole \o buf = all /\ out = o.out \o whole
  BY <1>6
<1> HIDE DEF whole, buf, out
<1>8. out \in Seq(Units)
  BY <1>1, <1>7, Concat
<1>9. out \o buf = o.out \o (whole \o buf)
  BY <1>1, <1>6, <1>7, Associative
<1>10. (o.out \o o.buf) \o units = o.out \o all
  BY <1>1, Associative DEF all
<1>11. Len(buf) < o.max
  BY <1>4, <1>5, <1>6
<1> QED
  BY <1>3, <1>6, <1>7, <1>8, <1>9, <1>10, <1>11

LEMMA ReadBlockKeeps ==
  ASSUME IInv, ReadBlock
  PROVE  IInv'
<1> DEFINE p == op.pos
           n == file.blocks[p].next
           d == file.blocks[p].data
<1>1. /\ file' = file /\ disk' = file /\ len' = len /\ hdr' = hdr
      /\ sizing' = sizing /\ live' = live /\ crashes' = crashes
      /\ at = "read" /\ at' = "read" /\ p \in DOMAIN file.blocks
      /\ op' = [Pushed(op, d) EXCEPT !.pos = n]
  BY DEF ReadBlock, Seek
<1>2. op.max \in Buffers /\ (op.astray \/ Passing)
  BY <1>1 DEF IInv, Placed, Reading
<1>3. file \in File /\ p \in Nat /\ op \in Locals
  BY Basics
<1>4. /\ n \in 0 .. MaxBlocks /\ n \in Nat /\ d \in Seq(Units) /\ p # 0
  BY <1>1, <1>3, BlocksOfFile
<1>5. op.max # 0 /\ op.out \in Seq(Units) /\ op.buf \in Seq(Units)
  BY <1>2, <1>3, BlobAssumption DEF Locals
<1> HIDE DEF p, n, d
<1>6. PICK out \in Seq(Units), buf \in Seq(Units) :
        /\ Pushed(op, d) = [op EXCEPT !.out = out, !.buf = buf]
        /\ Len(buf) < op.max
        /\ out \o buf = (op.out \o op.buf) \o d
  BY <1>3, <1>4, <1>5, PushedIs
<1>7. op' = [op EXCEPT !.out = out, !.buf = buf, !.pos = n]
  <2>1. op' = [[op EXCEPT !.out = out, !.buf = buf] EXCEPT !.pos = n]
    BY <1>1, <1>6
  <2> QED
    BY <2>1
<1>8. /\ op' \in Locals /\ op'.out = out /\ op'.buf = buf /\ op'.pos = n
      /\ op'.max = op.max /\ op'.first = op.first /\ op'.astray = op.astray
  BY <1>3, <1>4, <1>6, <1>7 DEF Locals
<1>9. Typed'
  BY <1>1, <1>8 DEF IInv, Typed, Places
<1>10. ASSUME Passing
       PROVE  Passing'
  <2>1. /\ op.first \in DOMAIN live /\ List(file, p)
        /\ (op.out \o op.buf) \o Stored(file, p) = live[op.first]
    BY <1>1, <1>10 DEF Passing, p
  <2>2. List(file, n) /\ Stored(file, p) = d \o Stored(file, n)
    BY <1>3, <1>4, <2>1, ListFirst DEF n, d
  <2>3. Stored(file, n) \in Seq(Units)
    BY <1>3, <1>4, <2>2, ListType
  <2>4. op.out \o op.buf \in Seq(Units)
    BY <1>5, Concat
  <2>5. ((op.out \o op.buf) \o d) \o Stored(file, n) = (op.out \o op.buf) \o (d \o Stored(file, n))
    BY <1>4, <2>3, <2>4, Associative
  <2>6. (out \o buf) \o Stored(file, n) = live[op.first]
    BY <1>6, <2>1, <2>2, <2>5
  <2> QED
    BY <1>1, <1>8, <2>1, <2>2, <2>6 DEF Passing
<1>11. Reading'
  BY <1>2, <1>6, <1>8, <1>10 DEF Reading
<1>12. AtRest'
  BY <1>1 DEF IInv, Placed, AtRest, Accounted, Garbage
<1>13. Placed'
  BY <1>1, <1>11, <1>12 DEF Placed
<1> QED
  BY <1>1, <1>9, <1>13 DEF IInv, Measured

(* Led to another block, a read() still leaves room in its buffer. *)
LEMMA StrayReadKeeps ==
  ASSUME IInv, StrayRead
  PROVE  IInv'
<1> DEFINE n == file.blocks[sizing.pos].next
           d == file.blocks[sizing.pos].data
<1>1. /\ file' = file /\ disk' = file /\ len' = len /\ hdr' = hdr
      /\ sizing' = sizing /\ live' = live /\ crashes' = crashes
      /\ at = "read" /\ at' = at /\ sizing.pos \in DOMAIN file.blocks
      /\ op' = [Pushed(op, d) EXCEPT !.pos = n, !.out = <<>>, !.astray = TRUE]
  BY DEF StrayRead, Seek
<1>2. op.max \in Buffers
  BY <1>1 DEF IInv, Placed, Reading
<1>3. op \in Locals /\ n \in 0 .. MaxBlocks /\ d \in Seq(Units)
  BY <1>1, Basics, BlocksOfFile
<1>4. op.max # 0
  BY <1>2, BlobAssumption
<1> HIDE DEF n, d
<1>5. PICK out \in Seq(Units), buf \in Seq(Units) :
        Pushed(op, d) = [op EXCEPT !.out = out, !.buf = buf] /\ Len(buf) < op.max
  BY <1>3, <1>4, PushedIs
<1>6. op' = [op EXCEPT !.out = <<>>, !.buf = buf, !.pos = n, !.astray = TRUE]
  <2>1. op' = [[op EXCEPT !.out = out, !.buf = buf] EXCEPT !.pos = n, !.out = <<>>,
                                                          !.astray = TRUE]
    BY <1>1, <1>5
  <2> QED
    BY <2>1
<1>7. op' \in Locals /\ op'.buf = buf /\ op'.max = op.max /\ op'.astray
  BY <1>3, <1>5, <1>6, EmptySeq DEF Locals
<1>8. Typed'
  BY <1>1, <1>7 DEF IInv, Typed
<1>9. Reading'
  BY <1>2, <1>5, <1>7 DEF Reading
<1>10. AtRest'
  BY <1>1 DEF IInv, Placed, AtRest, Accounted, Garbage
<1>11. Placed'
  BY <1>1, <1>9, <1>10 DEF Placed
<1> QED
  BY <1>1, <1>8, <1>11 DEF IInv, Measured

-------------------------------------------------------------------------------
(* recycle() *)
LEMMA CountedBlocks ==
  ASSUME NEW f \in File, NEW B, B \subseteq DOMAIN f.blocks
  PROVE  IsFiniteSet(B) /\ Cardinality(B) \in Nat
<1>1. Len(f.blocks) \in Nat /\ DOMAIN f.blocks = 1 .. Len(f.blocks)
  BY BlocksOfFile
<1>2. 1 \in Int /\ Len(f.blocks) \in Int
  BY <1>1
<1>3. IsFiniteSet(1 .. Len(f.blocks))
  BY <1>2, FS_Interval
<1>4. IsFiniteSet(B)
  BY <1>1, <1>3, FS_Subset
<1> QED
  BY <1>4, FS_CardinalityType

LEMMA OneMoreBlock ==
  ASSUME NEW f \in File, NEW B, B \subseteq DOMAIN f.blocks, NEW b, b \notin B
  PROVE  /\ Cardinality(B \cup {b}) = Cardinality(B) + 1
         /\ Cardinality(B) \in Nat /\ IsFiniteSet(B)
<1>1. IsFiniteSet(B) /\ Cardinality(B) \in Nat
  BY CountedBlocks
<1>2. Cardinality(B \cup {b}) = Cardinality(B) + 1
  BY <1>1, FS_AddElement
<1> QED
  BY <1>1, <1>2

LEMMA RecycleKeeps ==
  ASSUME IInv, NEW id \in Ids, Recycle(id)
  PROVE  IInv'
<1>1. /\ file' = file /\ disk' = disk /\ len' = len /\ hdr' = hdr
      /\ sizing' = [sizing EXCEPT !.astray = @ \/ sizing.id = id] /\ crashes' = crashes
      /\ at = "idle" /\ at' = "walk" /\ id \in DOMAIN live
      /\ op' = [NoOp EXCEPT !.pos = id, !.first = id]
      /\ live' = [i \in DOMAIN live \ {id} |-> live[i]]
  BY DEF Recycle
<1>2. id \in 0 .. MaxBlocks /\ id \in Nat /\ id # 0 /\ 0 \in 0 .. MaxBlocks
  BY BlobAssumption DEF Ids
<1>3. op' = [rest |-> <<>>, pos |-> id, next |-> 0, first |-> id, given |-> <<>>,
             out |-> <<>>, buf |-> <<>>, max |-> 0, astray |-> FALSE]
  BY <1>1 DEF NoOp
<1>4. op' \in Locals
  BY <1>2, <1>3, EmptySeq DEF Locals
<1>5. DOMAIN live' = DOMAIN live \ {id} /\ \A i \in DOMAIN live' : live'[i] = live[i]
  BY <1>1
<1>6. Typed'
  <2>1. live' = [i \in DOMAIN live' |-> live'[i]]
    BY <1>1
  <2>2. sizing' \in Sizings
    BY <1>1 DEF IInv, Typed, Sizings
  <2> QED
    BY <1>1, <1>4, <1>5, <2>1, <2>2 DEF IInv, Typed, Places
<1>7. Sound(file', live') /\ Sound(disk', live')
  BY <1>1, <1>5 DEF IInv, Sound, Contained, Spare, Apart
<1>8. AtRest /\ List(file, id) /\ Contained(file, live)
  BY <1>1 DEF IInv, Placed, Sound, Contained
<1>9. Walking({}, <<>>)'
  <2>1. Path(file, id, id, {}, <<>>)
    BY <1>2, PathStart
  <2>2. \A i \in DOMAIN live' : Blocks(file, i) \cap ({} \cup Blocks(file, id)) = {}
    BY <1>1, <1>5, <1>8 DEF Contained
  <2>3. ({} \cup Blocks(file, id)) \cap Garbage = {}
    BY <1>1, <1>8 DEF AtRest, Spare, Apart, Garbage
  <2>4. Spare(file, live', hdr.garbage)
    BY <1>5, <1>8 DEF AtRest, Spare, Apart
  <2>5. Cardinality({}) = 0
    BY FS_EmptySet
  <2>6. Accounted({} \cup Blocks(file, id), 0)'
    BY <1>1, <1>5, <1>8 DEF AtRest, Accounted, Garbage
  <2>7. op'.first = id /\ op'.pos = id
    BY <1>3
  <2> QED
    BY <1>1, <1>2, <1>8, <2>1, <2>2, <2>3, <2>4, <2>5, <2>6, <2>7
       DEF Walking, Apart, AtRest, Garbage
<1>10. Recycling'
  BY <1>9, EmptySeq DEF Recycling
<1>11. Placed'
  BY <1>1, <1>10 DEF Placed
<1>12. Measured'
  <2> SUFFICES ASSUME sizing' # NotSizing, ~sizing'.astray
               PROVE  /\ sizing'.id \in DOMAIN live' /\ List(file, sizing'.pos)
                      /\ Blocks(file, sizing'.pos) \subseteq Blocks(file, sizing'.id)
                      /\ sizing'.sz + Len(Stored(file, sizing'.pos)) = Len(live'[sizing'.id])
    BY <1>1 DEF Measured
  <2>1. /\ sizing'.id = sizing.id /\ sizing'.pos = sizing.pos /\ sizing'.sz = sizing.sz
        /\ ~sizing.astray /\ sizing.id # id
    BY <1>1 DEF IInv, Typed, Sizings
  <2>2. sizing # NotSizing
    <3>1. SUFFICES ASSUME sizing = NotSizing PROVE sizing' = NotSizing
      OBVIOUS
    <3> QED
      BY <1>1, <1>2, <3>1 DEF NotSizing
  <2> QED
    BY <1>1, <1>5, <2>1, <2>2 DEF IInv, Measured
<1> QED
  BY <1>6, <1>7, <1>11, <1>12 DEF IInv

LEMMA TwoParts ==
  ASSUME NEW A, NEW B, IsFiniteSet(A), IsFiniteSet(B), A \cap B = {}
  PROVE  /\ Cardinality(A \cup B) = Cardinality(A) + Cardinality(B)
         /\ Cardinality(A) \in Nat /\ Cardinality(B) \in Nat
<1>1. Cardinality(A \cup B) = Cardinality(A) + Cardinality(B) - Cardinality(A \cap B)
  BY FS_Union
<1>2. Cardinality(A \cap B) = 0
  BY FS_EmptySet
<1>3. Cardinality(A) \in Nat /\ Cardinality(B) \in Nat
  BY FS_CardinalityType
<1> QED
  BY <1>1, <1>2, <1>3

(* One field more or less. *)
LEMMA LocalsExcept ==
  ASSUME NEW o \in Locals, NEW n \in 0 .. MaxBlocks
  PROVE  /\ [o EXCEPT !.pos = n] \in Locals /\ [o EXCEPT !.next = n] \in Locals
         /\ [o EXCEPT !.pos = n, !.first = n] \in Locals
         /\ \A s \in Seq(Units) : [o EXCEPT !.rest = s, !.pos = n, !.next = 0] \in Locals
<1>1. 0 \in 0 .. MaxBlocks
  BY BlobAssumption
<1> QED
  BY <1>1 DEF Locals

LEMMA WalkOnKeeps ==
  ASSUME IInv, Walk, file.blocks[op.pos].next # 0
  PROVE  IInv'
<1>1. PICK p, n, d : p = op.pos /\ n = file.blocks[p].next /\ d = file.blocks[p].data
  OBVIOUS
<1>2. PICK B \in SUBSET Nat, t \in Seq(Units) : Walking(B, t)
  BY DEF Walk, IInv, Placed, Recycling
<1>3. /\ file' = file /\ disk' = file /\ len' = len
      /\ hdr' = [hdr EXCEPT !.recycled = @ + 1] /\ op' = [op EXCEPT !.pos = n]
      /\ sizing' = sizing /\ live' = live /\ crashes' = crashes
      /\ at = "walk" /\ at' = "walk" /\ n # 0
  BY <1>1 DEF Walk, Seek
<1>4. file \in File /\ p \in Nat /\ op.first \in Nat /\ op \in Locals /\ hdr \in Header
      /\ hdr.recycled \in Nat
  BY <1>1, Basics
<1>5. /\ p # 0 /\ Path(file, op.first, p, B, t) /\ List(file, p)
      /\ B \cap Blocks(file, p) = {}
  BY <1>1, <1>2 DEF Walking
<1>6. /\ p \in DOMAIN file.blocks /\ List(file, n) /\ p \notin Blocks(file, n)
      /\ Blocks(file, p) = Blocks(file, n) \cup {p}
  BY <1>1, <1>4, <1>5, ListFirst
<1>7. n \in 0 .. MaxBlocks /\ d \in Seq(Units)
  BY <1>1, <1>4, <1>6, BlocksOfFile
<1>8. PICK C : C = B \cup {p}
  OBVIOUS
<1>9. p \notin B /\ B \cup Blocks(file, p) = C \cup Blocks(file, n)
      /\ C \cap Blocks(file, n) = {}
  BY <1>5, <1>6, <1>8
<1>10. Path(file, op.first, n, C, t \o d)
  BY <1>1, <1>4, <1>5, <1>6, <1>8, <1>9, PathStep
<1>11. Cardinality(C) = Cardinality(B) + 1 /\ Cardinality(B) \in Nat
  BY <1>4, <1>5, <1>8, <1>9, PathBlocks, OneMoreBlock
<1>12. hdr' \in Header /\ hdr'.garbage = hdr.garbage /\ hdr'.recycled = hdr.recycled + 1
  BY <1>3, <1>4 DEF Header
<1>13. op' \in Locals /\ op'.pos = n /\ op'.first = op.first
  <2>1. op' \in Locals
    BY <1>3, <1>4, <1>7, LocalsExcept
  <2> QED
    BY <1>3, <1>4, <2>1 DEF Locals
<1>14. Typed'
  BY <1>3, <1>12, <1>13 DEF IInv, Typed, Places
<1>15. Sound(file', live') /\ Sound(disk', live') /\ Measured'
  BY <1>3 DEF IInv, Measured
<1>16. /\ op.first # 0 /\ file.hdr.garbage = hdr.garbage /\ Spare(file, live, hdr.garbage)
       /\ Apart(file, live, C \cup Blocks(file, n))
       /\ (C \cup Blocks(file, n)) \cap Garbage = {}
       /\ Accounted(C \cup Blocks(file, n), Cardinality(B))
  BY <1>1, <1>2, <1>9 DEF Walking
<1>17. Garbage' = Garbage
  BY <1>3, <1>12 DEF Garbage
<1>18. Accounted(C \cup Blocks(file, n), Cardinality(C))'
  <2>1. crashes = 0 => hdr.recycled = Cardinality(Garbage) + Cardinality(B)
    BY <1>16 DEF Accounted
  <2>2. hdr.garbage \in Nat /\ List(file, hdr.garbage)
    BY <1>16, Basics DEF Spare
  <2>3. Garbage \subseteq DOMAIN file.blocks
    BY <1>4, <2>2, ListType DEF Garbage
  <2>4. Cardinality(Garbage) \in Nat
    BY <1>4, <2>3, CountedBlocks
  <2>5. crashes = 0 => hdr'.recycled = Cardinality(Garbage) + Cardinality(C)
    BY <1>4, <1>11, <1>12, <2>1, <2>4
  <2> QED
    BY <1>3, <1>16, <1>17, <2>5 DEF Accounted
<1>19. Walking(C, t \o d)'
  BY <1>3, <1>6, <1>9, <1>10, <1>13, <1>16, <1>17, <1>18 DEF Walking
<1>20. C \in SUBSET Nat /\ t \o d \in Seq(Units)
  BY <1>10, PathType
<1>21. Recycling'
  BY <1>19, <1>20 DEF Recycling
<1>22. Placed'
  BY <1>3, <1>21 DEF Placed
<1> QED
  BY <1>14, <1>15, <1>22 DEF IInv

LEMMA WalkEndsKeeps ==
  ASSUME IInv, Walk, file.blocks[op.pos].next = 0
  PROVE  IInv'
<1>1. PICK p, a, h, e : /\ p = op.pos /\ a = op.first /\ h = hdr.garbage
                        /\ e = [file.blocks[p] EXCEPT !.next = h]
  OBVIOUS
<1>2. PICK B \in SUBSET Nat, t \in Seq(Units) : Walking(B, t)
  BY DEF Walk, IInv, Placed, Recycling
<1>3. /\ file' = [file EXCEPT !.blocks[p] = e] /\ disk' = file /\ len' = len
      /\ hdr' = [garbage |-> a, recycled |-> hdr.recycled + 1] /\ op' = op
      /\ sizing' = sizing /\ live' = live /\ crashes' = crashes
      /\ at = "walk" /\ at' = "save"
  BY <1>1 DEF Walk, PutBlock, Put
<1>4. /\ file \in File /\ p \in Nat /\ a \in Nat /\ a \in 0 .. MaxBlocks /\ h \in Nat
      /\ h \in 0 .. MaxBlocks /\ hdr.recycled \in Nat
  BY <1>1, Basics DEF Locals
<1>5. /\ p # 0 /\ a # 0 /\ Path(file, a, p, B, t) /\ List(file, p)
      /\ B \cap Blocks(file, p) = {} /\ Spare(file, live, h)
      /\ Apart(file, live, B \cup Blocks(file, p))
      /\ (B \cup Blocks(file, p)) \cap Blocks(file, h) = {}
      /\ file.hdr.garbage = h /\ Accounted(B \cup Blocks(file, p), Cardinality(B))
  BY <1>1, <1>2 DEF Walking, Garbage
<1>6. p \in DOMAIN file.blocks /\ Blocks(file, p) = {p}
  <2>1. /\ p \in DOMAIN file.blocks
        /\ Blocks(file, p) = Blocks(file, file.blocks[p].next) \cup {p}
    BY <1>4, <1>5, ListFirst
  <2> QED
    BY <1>1, <1>4, <2>1, ListEnds
<1>7. e \in Block /\ e.next = h
  <2>1. file.blocks[p] \in Block
    BY <1>4, <1>6, BlocksOfFile
  <2> QED
    BY <1>1, <1>4, <2>1 DEF Block
<1>8. /\ file' \in File /\ file'.hdr = file.hdr /\ Len(file'.blocks) = Len(file.blocks)
      /\ DOMAIN file'.blocks = DOMAIN file.blocks /\ file'.blocks[p] = e
      /\ \A C : p \notin C => Same(file, file', C)
  <2>1. BlockPut(file, file', p, e)
    BY <1>3, <1>4, <1>6, <1>7, PutFile
  <2> QED
    BY <2>1 DEF BlockPut
<1>9. p \notin B /\ p \notin Blocks(file, h) /\ \A id \in DOMAIN live : p \notin Blocks(file, id)
  BY <1>5, <1>6 DEF Apart
<1>10. /\ Contained(file', live)
       /\ \A id \in DOMAIN live : Blocks(file', id) = Blocks(file, id)
  BY <1>4, <1>8, <1>9, ContainedFrame DEF IInv, Sound
<1>11. Spare(file', live, h) /\ Blocks(file', h) = Blocks(file, h)
  BY <1>4, <1>5, <1>8, <1>9, <1>10, SpareFrame
<1>12. Sound(file', live') /\ Sound(disk', live')
  BY <1>3, <1>5, <1>8, <1>10, <1>11 DEF IInv, Sound
<1>13. PICK C, u : C = B \cup {p} /\ u = t \o e.data
  OBVIOUS
<1>14. Path(file', a, h, C, u)
  <2>1. Path(file', a, p, B, t)
    BY <1>4, <1>5, <1>8, <1>9, PathFrame
  <2> QED
    BY <1>4, <1>6, <1>7, <1>8, <1>9, <1>13, <2>1, PathStep
<1>15. /\ C \cap Blocks(file, h) = {} /\ Apart(file, live, C)
       /\ Accounted(C, Cardinality(B))
  BY <1>5, <1>6, <1>13
<1>16. List(file', a) /\ Blocks(file', a) = C \cup Blocks(file, h)
  BY <1>4, <1>8, <1>11, <1>14, <1>15, ListJoin DEF Spare
<1>17. Spare(file', live, a)
  BY <1>5, <1>10, <1>15, <1>16 DEF Spare, Apart
<1>18. Garbage' = C \cup Blocks(file, h) /\ Garbage = Blocks(file, h)
  BY <1>1, <1>3, <1>16 DEF Garbage
<1>19. Accounted({}, 0)'
  <2>1. B \subseteq DOMAIN file.blocks /\ Blocks(file, h) \subseteq DOMAIN file.blocks
    BY <1>4, <1>5, PathBlocks, ListType DEF Spare
  <2>2. /\ Cardinality(C) = Cardinality(B) + 1 /\ Cardinality(B) \in Nat
    BY <1>4, <1>9, <1>13, <2>1, OneMoreBlock
  <2>3. C \subseteq DOMAIN file.blocks
    BY <1>6, <1>13, <2>1
  <2>4. IsFiniteSet(C) /\ IsFiniteSet(Blocks(file, h))
    BY <1>4, <2>1, <2>3, CountedBlocks
  <2>5. /\ Cardinality(C \cup Blocks(file, h)) = Cardinality(C) + Cardinality(Blocks(file, h))
        /\ Cardinality(Blocks(file, h)) \in Nat
    BY <1>15, <2>4, TwoParts
  <2>6. crashes = 0 => hdr.recycled = Cardinality(Blocks(file, h)) + Cardinality(B)
    BY <1>15, <1>18 DEF Accounted
  <2>7. crashes = 0 => hdr'.recycled = Cardinality(Garbage') + 0
    BY <1>3, <1>18, <2>2, <2>5, <2>6
  <2>8. crashes = 0 =>
          \A b \in DOMAIN file.blocks :
            b \in Blocks(file, h) \/ b \in C \/ \E id \in DOMAIN live : b \in Blocks(file, id)
    BY <1>15, <1>18 DEF Accounted
  <2>9. crashes = 0 =>
          \A b \in DOMAIN file'.blocks :
            b \in Garbage' \/ \E id \in DOMAIN live : b \in Blocks(file', id)
    BY <1>8, <1>10, <1>18, <2>8
  <2> QED
    BY <1>3, <2>7, <2>9 DEF Accounted
<1>20. Typed'
  <2>1. hdr' \in Header
    BY <1>3, <1>4 DEF Header
  <2> QED
    BY <1>3, <1>8, <2>1 DEF IInv, Typed, Places
<1>21. Saving'
  BY <1>3, <1>17, <1>19 DEF Saving
<1>22. Placed'
  BY <1>3, <1>21 DEF Placed
<1>23. Measured'
  <2>1. \A id \in DOMAIN live : Same(file, file', Blocks(file, id))
    BY <1>8, <1>9
  <2>2. sizing # NotSizing /\ ~sizing.astray => sizing.id \in DOMAIN live' /\ live'[sizing.id] = live[sizing.id]
    BY <1>3 DEF IInv, Measured
  <2> QED
    BY <1>3, <1>8, <2>1, <2>2, MeasuredFrame
<1> QED
  BY <1>12, <1>20, <1>22, <1>23 DEF IInv

-------------------------------------------------------------------------------
(* write() *)
LEMMA FlushKeeps ==
  ASSUME IInv, Flush
  PROVE  IInv' /\ op.first \notin DOMAIN live
<1>1. PICK a : a = op.first
  OBVIOUS
<1>2. /\ file' = file /\ disk' = file /\ len' = len /\ hdr' = hdr
      /\ sizing' = sizing /\ crashes' = crashes /\ op' = NoOp
      /\ live' = [id \in DOMAIN live \cup {a} |-> IF id = a THEN op.given ELSE live[id]]
      /\ at = "flush" /\ at' = "idle"
  BY <1>1 DEF Flush
<1>3. /\ a # 0 /\ List(file, a) /\ Stored(file, a) = op.given
      /\ Apart(file, live, Blocks(file, a)) /\ Blocks(file, a) \cap Garbage = {}
      /\ Spare(file, live, hdr.garbage) /\ Accounted(Blocks(file, a), 0)
      /\ file.hdr = hdr
  BY <1>1, <1>2 DEF IInv, Placed, Complete
<1>4. a \in Nat /\ file \in File /\ op.given \in Seq(Units)
  BY <1>1, Basics
<1>5. a \in DOMAIN file.blocks /\ a \in Blocks(file, a)
  BY <1>3, <1>4, ListHead
<1>6. a \in Ids
  BY <1>4, <1>5, BlocksOfFile
<1>7. a \notin DOMAIN live
  BY <1>3, <1>5 DEF Apart
<1>8. /\ DOMAIN live' = DOMAIN live \cup {a} /\ live'[a] = op.given
      /\ \A id \in DOMAIN live : live'[id] = live[id]
  BY <1>2, <1>7
<1>9. Typed'
  <2>1. live' = [id \in DOMAIN live' |-> live'[id]]
    BY <1>2
  <2> QED
    BY <1>2, <1>4, <1>6, <1>8, <2>1, BlankLocals DEF IInv, Typed, Places
<1>10. Contained(file, live')
  <2>1. Contained(file, live)
    BY DEF IInv, Sound
  <2> QED
    BY <1>3, <1>6, <1>8, <2>1 DEF Contained, Apart
<1>11. Spare(file, live', hdr.garbage)
  BY <1>3, <1>8 DEF Spare, Apart, Garbage
<1>12. Sound(file', live') /\ Sound(disk', live')
  BY <1>2, <1>3, <1>10, <1>11 DEF Sound
<1>13. AtRest'
  <2>1. Accounted({}, 0)'
    BY <1>2, <1>3, <1>8 DEF Accounted, Garbage
  <2> QED
    BY <1>2, <1>3, <1>11, <2>1 DEF AtRest
<1>14. Placed'
  BY <1>2, <1>13 DEF Placed
<1>15. Measured'
  BY <1>2, <1>8 DEF IInv, Measured
<1> QED
  BY <1>1, <1>7, <1>9, <1>12, <1>14, <1>15 DEF IInv

(* get_block() has taken the block n: from the garbage, or at the end of the file. *)
Taken(n) ==
  /\ file' \in File /\ file'.hdr = file.hdr /\ \A B : Same(file, file', B)
  /\ disk' = file /\ len' \in {Unknown, Len(file'.blocks)} /\ hdr' \in Header
  /\ sizing' = sizing /\ live' = live /\ crashes' = crashes
  /\ n \in DOMAIN file'.blocks /\ file'.blocks[n].next = hdr'.garbage
  /\ n \in Garbage \/ n \notin DOMAIN file.blocks
  /\ hdr.garbage \in {0, n}
  /\ Garbage' \subseteq Garbage /\ n \notin Garbage' /\ List(file', hdr'.garbage)
  /\ \A B : Accounted(B, 0) => Accounted(B \cup {n}, 0)'

LEMMA TakenFrame ==
  ASSUME IInv, NEW n, Taken(n), Spare(file, live, hdr.garbage)
  PROVE  /\ n \in Nat /\ n # 0 /\ n \in 0 .. MaxBlocks
         /\ Contained(file', live)
         /\ \A id \in DOMAIN live : Blocks(file', id) = Blocks(file, id)
         /\ Apart(file', live, {n}) /\ Spare(file', live, hdr'.garbage)
         /\ Spare(file', live, hdr.garbage) /\ Blocks(file', hdr.garbage) = Garbage
         /\ Sound(file', live') /\ Sound(disk', live')
<1>1. /\ file' \in File /\ file'.hdr = file.hdr /\ \A B : Same(file, file', B)
      /\ disk' = file /\ live' = live /\ n \in DOMAIN file'.blocks
      /\ n \in Garbage \/ n \notin DOMAIN file.blocks
      /\ Garbage' \subseteq Garbage /\ List(file', hdr'.garbage)
  BY DEF Taken
<1>2. n \in Nat /\ n # 0 /\ n \in 0 .. MaxBlocks
  <2>1. n \in Nat /\ n # 0 /\ n \in Ids
    BY <1>1, BlocksOfFile
  <2> QED
    BY <2>1, BlobAssumption DEF Ids
<1>3. file \in File /\ hdr.garbage \in Nat /\ file.hdr.garbage \in Nat
  BY Basics
<1>4. Contained(file, live) /\ Spare(file, live, file.hdr.garbage)
  BY DEF IInv, Sound
<1>5. /\ Contained(file', live)
      /\ \A id \in DOMAIN live : Blocks(file', id) = Blocks(file, id)
  BY <1>1, <1>3, <1>4, ContainedFrame
<1>6. Spare(file', live, hdr.garbage) /\ Blocks(file', hdr.garbage) = Blocks(file, hdr.garbage)
  BY <1>1, <1>3, <1>5, SpareFrame
<1>7. Spare(file', live, file.hdr.garbage)
  BY <1>1, <1>3, <1>4, <1>5, SpareFrame
<1>8. \A id \in DOMAIN live : Blocks(file, id) \cap Garbage = {}
  BY DEF Spare, Apart, Garbage
<1>9. \A id \in DOMAIN live : Blocks(file, id) \subseteq DOMAIN file.blocks
  <2> SUFFICES ASSUME NEW id \in DOMAIN live PROVE Blocks(file, id) \subseteq DOMAIN file.blocks
    OBVIOUS
  <2>1. id \in Nat /\ List(file, id)
    BY <1>4, Basics DEF Contained
  <2> QED
    BY <1>3, <2>1, ListType
<1>10. Apart(file', live, {n})
  BY <1>1, <1>5, <1>8, <1>9 DEF Apart
<1>11. Spare(file', live, hdr'.garbage)
  BY <1>1, <1>5, <1>8 DEF Spare, Apart, Garbage
<1> QED
  BY <1>1, <1>2, <1>4, <1>5, <1>6, <1>7, <1>10, <1>11 DEF Sound, Garbage

(* ... as the first of the blob. *)
LEMMA BeginKeeps ==
  ASSUME IInv, NEW n, Taken(n), Got(n), at = "get", op.pos = 0
  PROVE  Typed' /\ Placed'
<1>1. /\ op' = [op EXCEPT !.pos = n, !.first = n]
      /\ at' = IF More(op.rest) THEN "get" ELSE "fill"
  BY DEF Got
<1>2. op.first = 0 /\ op.next = 0 /\ op.rest = op.given /\ op.given \in Contents /\ AtRest
  BY DEF IInv, Placed, ToBegin
<1>3. /\ n \in Nat /\ n # 0 /\ n \in 0 .. MaxBlocks
      /\ Apart(file', live, {n}) /\ Spare(file', live, hdr'.garbage)
  BY <1>2, TakenFrame DEF AtRest
<1>4. op \in Locals /\ op.rest \in Seq(Units)
  BY Basics
<1>5. /\ op' \in Locals /\ op'.pos = n /\ op'.first = n /\ op'.next = 0
      /\ op'.rest = op.rest /\ op'.given = op.given
  <2>1. op' \in Locals
    BY <1>1, <1>3, <1>4, LocalsExcept
  <2> QED
    BY <1>1, <1>2, <1>4, <2>1 DEF Locals
<1>6. /\ file' \in File /\ file'.hdr = file.hdr /\ disk' = file /\ hdr' \in Header
      /\ len' \in {Unknown, Len(file'.blocks)}
      /\ sizing' = sizing /\ live' = live /\ crashes' = crashes
      /\ n \in DOMAIN file'.blocks /\ file'.blocks[n].next = hdr'.garbage
      /\ hdr.garbage \in {0, n} /\ n \notin Garbage'
      /\ Accounted({}, 0) => Accounted({n}, 0)'
  BY DEF Taken
<1>7. Typed'
  BY <1>1, <1>5, <1>6 DEF IInv, Typed, Places
<1>8. op.rest # <<>>
  BY <1>2, BlobAssumption
<1>9. Path(file', n, n, {}, <<>>)
  BY <1>3, PathStart
<1>10. <<>> \o op.rest = op.given
  BY <1>2, <1>4, Concat
<1>11. file'.hdr.garbage \in {0, n}
  BY <1>2, <1>6 DEF AtRest
<1>12. Written({}, <<>>)'
  BY <1>2, <1>3, <1>5, <1>6, <1>8, <1>9, <1>10, <1>11 DEF Written, Garbage
<1>13. Accounted({} \cup {n}, 0)'
  BY <1>2, <1>6 DEF AtRest
<1>14. CASE More(op.rest)
  <2>1. More(op.rest)'
    BY <1>5, <1>14 DEF More
  <2>2. Extending({}, <<>>)'
    BY <1>5, <1>6, <1>12, <1>13, <2>1 DEF Extending
  <2>3. Growing'
    BY <2>2, EmptySeq DEF Growing
  <2> QED
    BY <1>1, <1>3, <1>5, <1>7, <1>14, <2>3 DEF Placed
<1>15. CASE ~More(op.rest)
  <2>1. ~More(op.rest)'
    BY <1>5, <1>15 DEF More
  <2>2. Ending({}, <<>>)'
    BY <1>5, <1>12, <1>13, <2>1 DEF Ending
  <2>3. Filling'
    BY <1>5, <2>2, EmptySeq DEF Filling
  <2> QED
    BY <1>1, <1>7, <1>15, <2>3 DEF Placed
<1> QED
  BY <1>14, <1>15

(* ... as the next of the block that is filled. *)
LEMMA ExtendKeeps ==
  ASSUME IInv, NEW n, Taken(n), Got(n), at = "get", op.pos # 0
  PROVE  Typed' /\ Placed'
<1>1. op' = [op EXCEPT !.next = n] /\ at' = "fill"
  BY DEF Got
<1>2. PICK B \in SUBSET Nat, t \in Seq(Units) : Extending(B, t)
  BY DEF IInv, Placed, Growing
<1>3. PICK p, h, C : p = op.pos /\ h = hdr.garbage /\ C = B \cup {p}
  OBVIOUS
<1>4. /\ op.first # 0 /\ p \in DOMAIN file.blocks /\ p \notin B
      /\ Path(file, op.first, p, B, t)
      /\ t \o op.rest = op.given /\ op.given \in Contents /\ op.rest # <<>>
      /\ Apart(file, live, C) /\ C \cap Garbage = {}
      /\ file.hdr.garbage \in {0, op.first}
      /\ Spare(file, live, h) /\ More(op.rest) /\ file.blocks[p].next = h
      /\ Accounted(C, 0)
  BY <1>2, <1>3 DEF Extending, Written
<1>5. /\ n \in Nat /\ n # 0 /\ n \in 0 .. MaxBlocks
      /\ \A id \in DOMAIN live : Blocks(file', id) = Blocks(file, id)
      /\ Apart(file', live, {n}) /\ Spare(file', live, hdr'.garbage)
      /\ Spare(file', live, h) /\ Blocks(file', h) = Garbage
  BY <1>3, <1>4, TakenFrame
<1>6. op \in Locals /\ op.first \in Nat /\ file \in File
  BY Basics
<1>7. /\ op' \in Locals /\ op'.pos = p /\ op'.first = op.first /\ op'.next = n
      /\ op'.rest = op.rest /\ op'.given = op.given
  <2>1. op' \in Locals
    BY <1>1, <1>5, <1>6, LocalsExcept
  <2> QED
    BY <1>1, <1>3, <1>6, <2>1 DEF Locals
<1>8. /\ file' \in File /\ file'.hdr = file.hdr /\ disk' = file /\ hdr' \in Header
      /\ len' \in {Unknown, Len(file'.blocks)} /\ \A A : Same(file, file', A)
      /\ sizing' = sizing /\ live' = live /\ crashes' = crashes
      /\ n \in DOMAIN file'.blocks /\ file'.blocks[n].next = hdr'.garbage
      /\ n \in Garbage \/ n \notin DOMAIN file.blocks
      /\ Garbage' \subseteq Garbage /\ n \notin Garbage'
      /\ Accounted(C, 0) => Accounted(C \cup {n}, 0)'
  BY DEF Taken
<1>9. Typed'
  BY <1>1, <1>7, <1>8 DEF IInv, Typed, Places
<1>10. p \in DOMAIN file'.blocks /\ file'.blocks[p] = file.blocks[p]
  <2>1. Same(file, file', {p})
    BY <1>8
  <2> QED
    BY <1>4, <2>1 DEF Same
<1>11. Path(file', op.first, p, B, t)
  BY <1>4, <1>6, <1>8, PathFrame
<1>12. Apart(file', live, C)
  BY <1>4, <1>5 DEF Apart
<1>13. C \subseteq DOMAIN file.blocks
  BY <1>3, <1>4, <1>6, PathBlocks
<1>14. Written(B, t)'
  <2>1. C \cap Garbage' = {} /\ C \cap Blocks(file', h) = {}
    BY <1>4, <1>5, <1>8
  <2>2. file'.blocks[p].next = h
    BY <1>4, <1>10
  <2> QED
    BY <1>3, <1>4, <1>5, <1>7, <1>8, <1>10, <1>11, <1>12, <2>1, <2>2 DEF Written
<1>15. n \notin C
  BY <1>4, <1>8, <1>13
<1>16. B \cup {p, n} = C \cup {n}
  BY <1>3
<1>17. Extended(B, t)'
  <2>1. More(op.rest)'
    BY <1>4, <1>7 DEF More
  <2>2. Accounted(B \cup {p, n}, 0)'
    BY <1>4, <1>8, <1>16
  <2> QED
    BY <1>3, <1>5, <1>7, <1>8, <1>14, <1>15, <2>1, <2>2 DEF Extended
<1>18. Filling'
  BY <1>5, <1>7, <1>17 DEF Filling
<1> QED
  BY <1>1, <1>9, <1>18 DEF Placed

LEMMA SpareGarbage ==
  ASSUME IInv, at = "get"
  PROVE  Spare(file, live, hdr.garbage)
<1>1. CASE op.pos = 0
  BY <1>1 DEF IInv, Placed, ToBegin, AtRest
<1>2. CASE op.pos # 0
  <2>1. PICK B \in SUBSET Nat, t \in Seq(Units) : Extending(B, t)
    BY <1>2 DEF IInv, Placed, Growing
  <2> QED
    BY <2>1 DEF Extending, Written
<1> QED
  BY <1>1, <1>2

LEMMA TakenKeeps ==
  ASSUME IInv, NEW n, Taken(n), Got(n), at = "get"
  PROVE  IInv'
<1>1. Typed' /\ Placed'
  BY BeginKeeps, ExtendKeeps
<1>2. Spare(file, live, hdr.garbage)
  BY SpareGarbage
<1>3. Sound(file', live') /\ Sound(disk', live')
  BY <1>2, TakenFrame
<1>4. Measured'
  <2>1. /\ file' \in File /\ \A B : Same(file, file', B)
        /\ sizing' = sizing /\ live' = live
    BY DEF Taken
  <2>2. sizing # NotSizing /\ ~sizing.astray => sizing.id \in DOMAIN live' /\ live'[sizing.id] = live[sizing.id]
    BY <2>1 DEF IInv, Measured
  <2> QED
    BY <2>1, <2>2, MeasuredFrame
<1> QED
  BY <1>1, <1>3, <1>4 DEF IInv

LEMMA ReuseKeeps ==
  ASSUME IInv, Reuse
  PROVE  IInv'
<1>1. PICK h, n : h = hdr.garbage /\ n = file.blocks[h].next
  OBVIOUS
<1>2. /\ file' = file /\ disk' = file /\ len' = len
      /\ hdr' = [garbage |-> n, recycled |-> IF hdr.recycled = 0 THEN 0 ELSE hdr.recycled - 1]
      /\ sizing' = sizing /\ live' = live /\ crashes' = crashes
      /\ at = "get" /\ h # 0 /\ Got(h)
  BY <1>1 DEF Reuse, Seek
<1>3. file \in File /\ h \in Nat /\ hdr.recycled \in Nat
  BY <1>1, Basics
<1>4. List(file, h) /\ Garbage = Blocks(file, h)
  BY <1>1, <1>2, SpareGarbage DEF Spare, Garbage
<1>5. /\ h \in DOMAIN file.blocks /\ List(file, n) /\ h \notin Blocks(file, n)
      /\ Blocks(file, h) = Blocks(file, n) \cup {h}
  BY <1>1, <1>2, <1>3, <1>4, ListFirst
<1>6. n \in 0 .. MaxBlocks /\ n \in Nat
  BY <1>1, <1>3, <1>5, BlocksOfFile
<1>7. hdr' \in Header /\ hdr'.garbage = n
  <2>1. (IF hdr.recycled = 0 THEN 0 ELSE hdr.recycled - 1) \in Nat
    BY <1>3
  <2> QED
    BY <1>2, <1>6, <2>1 DEF Header
<1>8. Garbage' = Blocks(file, n) /\ Garbage = Garbage' \cup {h} /\ h \notin Garbage'
  BY <1>2, <1>4, <1>5, <1>7 DEF Garbage
<1>9. ASSUME NEW B, Accounted(B, 0) PROVE Accounted(B \cup {h}, 0)'
  <2>1. Garbage' \subseteq DOMAIN file.blocks
    BY <1>3, <1>5, <1>6, <1>8, ListType
  <2>2. Cardinality(Garbage) = Cardinality(Garbage') + 1 /\ Cardinality(Garbage') \in Nat
    BY <1>3, <1>8, <2>1, OneMoreBlock
  <2>3. ASSUME crashes = 0 PROVE hdr'.recycled = Cardinality(Garbage') + 0
    <3>1. hdr.recycled = Cardinality(Garbage) + 0
      BY <1>9, <2>3 DEF Accounted
    <3>2. hdr.recycled # 0 /\ hdr.recycled - 1 = Cardinality(Garbage')
      BY <2>2, <3>1
    <3>3. hdr'.recycled = hdr.recycled - 1
      BY <1>2, <3>2
    <3> QED
      BY <2>2, <3>2, <3>3
  <2>4. ASSUME crashes = 0, NEW b \in DOMAIN file.blocks
        PROVE  b \in Garbage' \/ b \in B \cup {h} \/ \E id \in DOMAIN live : b \in Blocks(file, id)
    BY <1>8, <1>9, <2>4 DEF Accounted
  <2> QED
    BY <1>2, <2>3, <2>4 DEF Accounted
<1>10. Taken(h)
  <2>1. \A B : Same(file, file', B)
    BY <1>2 DEF Same
  <2>2. len' \in {Unknown, Len(file'.blocks)}
    BY <1>2 DEF IInv, Typed
  <2> QED
    BY <1>1, <1>2, <1>3, <1>5, <1>7, <1>8, <1>9, <2>1, <2>2 DEF Taken
<1> QED
  BY <1>2, <1>10, TakenKeeps

LEMMA AppendBlockKeeps ==
  ASSUME IInv, AppendBlock
  PROVE  IInv'
<1>1. PICK n : n = Len(file.blocks) + 1
  OBVIOUS
<1>2. /\ file' = [file EXCEPT !.blocks = Append(@, Blank)] /\ disk' = file
      /\ Len(file.blocks) < MaxBlocks
      /\ len' = (IF len = Unknown THEN Unknown ELSE n) /\ hdr' = hdr
      /\ sizing' = sizing /\ live' = live /\ crashes' = crashes
      /\ at = "get" /\ hdr.garbage = 0 /\ Got(n)
  BY <1>1 DEF AppendBlock, Put
<1>3. file \in File /\ hdr \in Header
  BY Basics
<1>4. /\ file' \in File /\ file'.hdr = file.hdr /\ Len(file'.blocks) = n
      /\ DOMAIN file'.blocks = DOMAIN file.blocks \cup {n}
      /\ n \notin DOMAIN file.blocks /\ file'.blocks[n] = Blank
      /\ \A B : Same(file, file', B)
  BY <1>1, <1>2, <1>3, AppendedFile
<1>5. Garbage = {} /\ Garbage' = {} /\ List(file', 0)
  BY <1>2, <1>3, <1>4, ListEnds DEF Garbage
<1>6. Contained(file, live)
  BY DEF IInv, Sound
<1>7. \A id \in DOMAIN live : Blocks(file', id) = Blocks(file, id)
  BY <1>3, <1>4, <1>6, ContainedFrame
<1>8. ASSUME NEW B, Accounted(B, 0) PROVE Accounted(B \cup {n}, 0)'
  BY <1>2, <1>4, <1>5, <1>7, <1>8 DEF Accounted
<1>9. len' \in {Unknown, Len(file'.blocks)}
  BY <1>2, <1>4
<1>10. Taken(n)
  <2>1. /\ hdr'.garbage = 0 /\ hdr' \in Header /\ hdr.garbage \in {0, n} /\ disk' = file
        /\ sizing' = sizing /\ live' = live /\ crashes' = crashes
    BY <1>2, <1>3
  <2>2. n \in DOMAIN file'.blocks /\ file'.blocks[n].next = 0
    BY <1>4 DEF Blank
  <2>3. n \notin DOMAIN file.blocks /\ file' \in File /\ file'.hdr = file.hdr
        /\ \A B : Same(file, file', B)
    BY <1>4
  <2> QED
    BY <1>5, <1>8, <1>9, <2>1, <2>2, <2>3 DEF Taken
<1> QED
  BY <1>2, <1>10, TakenKeeps

LEMMA ChunkIs ==
  ASSUME NEW s \in Seq(Units)
  PROVE  /\ Chunk(s) \in Seq(Units) /\ Remainder(s) \in Seq(Units)
         /\ Chunk(s) \o Remainder(s) = s /\ (Remainder(s) = <<>> <=> ~More(s))
<1>1. Len(s) \in Nat /\ PerBlock \in Nat /\ PerBlock # 0
  BY LenProperties, BlobAssumption
<1>2. CASE More(s)
  <2>1. PerBlock \in 0 .. Len(s) /\ Len(s) - PerBlock # 0
    BY <1>1, <1>2 DEF More
  <2>2. Chunk(s) = SubSeq(s, 1, PerBlock)
    BY <1>2 DEF Chunk
  <2>3. /\ Chunk(s) \in Seq(Units) /\ Remainder(s) \in Seq(Units)
        /\ Len(Remainder(s)) = Len(s) - PerBlock /\ Chunk(s) \o Remainder(s) = s
    BY <2>1, <2>2, Split DEF Remainder
  <2>4. Remainder(s) # <<>>
    BY <2>1, <2>3, EmptySeq
  <2> QED
    BY <1>2, <2>3, <2>4
<1>3. CASE ~More(s)
  <2>1. Chunk(s) = s
    BY <1>3, SubSeqFull DEF Chunk
  <2>2. Remainder(s) = <<>>
    <3>1. PerBlock + 1 \in Nat /\ Len(s) < PerBlock + 1
      BY <1>1, <1>3 DEF More
    <3> QED
      BY <1>1, <3>1 DEF Remainder
  <2> QED
    BY <1>3, <2>1, <2>2, Concat, EmptySeq
<1> QED
  BY <1>2, <1>3

(* A block of the blob is written: the data u are in the blocks C. *)
Filled(C, u, e) ==
  /\ BlockPut(file, file', op.pos, e) /\ Path(file', op.first, op.next, C, u)
  /\ C \subseteq DOMAIN file.blocks
  /\ Contained(file', live)
  /\ \A id \in DOMAIN live : Blocks(file', id) = Blocks(file, id)
  /\ Spare(file', live, hdr.garbage) /\ Blocks(file', hdr.garbage) = Garbage
  /\ Apart(file', live, C) /\ C \cap Garbage = {}

LEMMA FillFrame ==
  ASSUME IInv, Fill, NEW B \in SUBSET Nat, NEW t \in Seq(Units), Written(B, t),
         op.next \in 0 .. MaxBlocks,
         NEW C, C = B \cup {op.pos},
         NEW u, u = t \o Chunk(op.rest),
         NEW e, e = [data |-> Chunk(op.rest), next |-> op.next]
  PROVE  Filled(C, u, e)
<1>1. PICK p, a, h : p = op.pos /\ a = op.first /\ h = hdr.garbage
  OBVIOUS
<1>2. file' = [file EXCEPT !.blocks[p] = e] /\ e.next = op.next /\ e.data = Chunk(op.rest)
  BY <1>1 DEF Fill, PutBlock, Put
<1>3. /\ p \in DOMAIN file.blocks /\ p \notin B /\ Path(file, a, p, B, t)
      /\ Apart(file, live, C) /\ C \cap Garbage = {} /\ Spare(file, live, h)
  BY <1>1 DEF Written
<1>4. file \in File /\ a \in Nat /\ h \in Nat /\ op.rest \in Seq(Units)
  BY <1>1, Basics
<1>5. e \in Block
  BY <1>4, ChunkIs DEF Block
<1>6. BlockPut(file, file', p, e)
  BY <1>2, <1>3, <1>4, <1>5, PutFile
<1>7. /\ file' \in File /\ DOMAIN file'.blocks = DOMAIN file.blocks /\ file'.blocks[p] = e
      /\ \A A : p \notin A => Same(file, file', A)
  BY <1>6 DEF BlockPut
<1>8. p \notin Blocks(file, h) /\ \A id \in DOMAIN live : p \notin Blocks(file, id)
  BY <1>1, <1>3 DEF Apart, Garbage
<1>9. /\ Contained(file', live)
      /\ \A id \in DOMAIN live : Blocks(file', id) = Blocks(file, id)
  BY <1>4, <1>7, <1>8, ContainedFrame DEF IInv, Sound
<1>10. Spare(file', live, h) /\ Blocks(file', h) = Blocks(file, h)
  BY <1>3, <1>4, <1>7, <1>8, <1>9, SpareFrame
<1>11. Path(file', a, op.next, C, u)
  <2>1. Path(file', a, p, B, t)
    BY <1>3, <1>4, <1>7, PathFrame
  <2>2. Path(file', a, file'.blocks[p].next, B \cup {p}, t \o file'.blocks[p].data)
    BY <1>3, <1>4, <1>7, <2>1, PathStep
  <2> QED
    BY <1>1, <1>2, <1>7, <2>2
<1>12. C \subseteq DOMAIN file.blocks
  BY <1>1, <1>3, <1>4, PathBlocks
<1>13. Apart(file', live, C)
  BY <1>3, <1>9 DEF Apart
<1> QED
  BY <1>1, <1>3, <1>6, <1>9, <1>10, <1>11, <1>12, <1>13 DEF Filled, Garbage

LEMMA FillLocals ==
  ASSUME IInv, Fill
  PROVE  /\ op' \in Locals /\ op'.rest = Remainder(op.rest) /\ op'.pos = op.next
         /\ op'.next = 0 /\ op'.first = op.first /\ op'.given = op.given
<1>1. op' = [op EXCEPT !.rest = Remainder(op.rest), !.pos = op.next, !.next = 0]
  BY DEF Fill
<1>2. op \in Locals /\ op.rest \in Seq(Units) /\ op.next \in 0 .. MaxBlocks
  BY Basics DEF Locals
<1>3. Remainder(op.rest) \in Seq(Units)
  BY <1>2, ChunkIs
<1>4. op' \in Locals
  BY <1>1, <1>2, <1>3, LocalsExcept
<1> QED
  BY <1>1, <1>2, <1>4 DEF Locals

LEMMA FillTyped ==
  ASSUME IInv, Fill, NEW e, BlockPut(file, file', op.pos, e),
         \A id \in DOMAIN live : op.pos \notin Blocks(file, id)
  PROVE  Typed' /\ Measured'
<1>1. /\ len' = len /\ hdr' = hdr /\ disk' = file
      /\ sizing' = sizing /\ live' = live /\ crashes' = crashes
      /\ at' \in Places
  BY DEF Fill, PutBlock, Put, Places
<1>2. file' \in File /\ Len(file'.blocks) = Len(file.blocks)
      /\ \A A : op.pos \notin A => Same(file, file', A)
  BY DEF BlockPut
<1>3. Typed'
  BY <1>1, <1>2, FillLocals DEF IInv, Typed
<1>4. sizing # NotSizing /\ ~sizing.astray => sizing.id \in DOMAIN live' /\ live'[sizing.id] = live[sizing.id]
  BY <1>1 DEF IInv, Measured
<1>5. Measured'
  BY <1>1, <1>2, <1>4, MeasuredFrame
<1> QED
  BY <1>3, <1>5

LEMMA FillEndsKeeps ==
  ASSUME IInv, Fill, op.next = 0
  PROVE  IInv'
<1>1. PICK B \in SUBSET Nat, t \in Seq(Units) : Ending(B, t)
  BY DEF Fill, IInv, Placed, Filling
<1>2. PICK C, u, e, a, h : /\ C = B \cup {op.pos} /\ u = t \o Chunk(op.rest)
                           /\ e = [data |-> Chunk(op.rest), next |-> op.next]
                           /\ a = op.first /\ h = hdr.garbage
  OBVIOUS
<1>3. /\ Written(B, t) /\ ~More(op.rest) /\ Accounted(C, 0)
      /\ a # 0 /\ t \o op.rest = op.given /\ op.given \in Contents
      /\ file.hdr.garbage \in {0, a}
  BY <1>1, <1>2 DEF Ending, Written
<1>4. 0 \in 0 .. MaxBlocks
  BY BlobAssumption
<1>5. Filled(C, u, e)
  BY <1>1, <1>2, <1>3, <1>4, FillFrame
<1>6. /\ BlockPut(file, file', op.pos, e) /\ Path(file', a, 0, C, u)
      /\ Contained(file', live)
      /\ \A id \in DOMAIN live : Blocks(file', id) = Blocks(file, id)
      /\ Spare(file', live, h) /\ Blocks(file', h) = Garbage
      /\ Apart(file', live, C) /\ C \cap Garbage = {}
  BY <1>2, <1>5 DEF Filled
<1>7. file' \in File /\ file'.hdr = file.hdr /\ DOMAIN file'.blocks = DOMAIN file.blocks
  BY <1>6 DEF BlockPut
<1>8. a \in Nat /\ op.rest \in Seq(Units)
  BY <1>2, Basics
<1>9. Remainder(op.rest) = <<>> /\ Chunk(op.rest) = op.rest
  BY <1>3, <1>8, ChunkIs, Concat
<1>10. /\ List(file', a) /\ Blocks(file', a) = C /\ Stored(file', a) = op.given
  BY <1>2, <1>3, <1>6, <1>7, <1>8, <1>9, ListIs
<1>11. /\ hdr' = hdr /\ disk' = file /\ at' = "header"
       /\ live' = live /\ crashes' = crashes
       /\ op'.first = a /\ op'.given = op.given
  BY <1>2, <1>9, FillLocals DEF Fill, PutBlock, Put
<1>12. Typed' /\ Measured'
  <2>1. \A id \in DOMAIN live : op.pos \notin Blocks(file, id)
    BY <1>2, <1>6 DEF Apart
  <2> QED
    BY <1>6, <2>1, FillTyped
<1>13. Spare(file', live, file.hdr.garbage)
  <2>1. Spare(file', live, a)
    BY <1>6, <1>10 DEF Spare, Apart
  <2>2. Spare(file', live, 0)
    BY <1>7, ListEnds DEF Spare, Apart
  <2> QED
    BY <1>3, <2>1, <2>2
<1>14. Sound(file', live') /\ Sound(disk', live')
  BY <1>6, <1>7, <1>11, <1>13 DEF IInv, Sound
<1>15. Garbage' = Garbage
  BY <1>2, <1>6, <1>11 DEF Garbage
<1>16. Accounted(C, 0)'
  BY <1>3, <1>6, <1>7, <1>11, <1>15 DEF Accounted
<1>17. Complete'
  BY <1>2, <1>3, <1>6, <1>10, <1>11, <1>15, <1>16 DEF Complete
<1>18. Placed'
  BY <1>11, <1>17 DEF Placed
<1> QED
  BY <1>12, <1>14, <1>18 DEF IInv

LEMMA FillOnKeeps ==
  ASSUME IInv, Fill, op.next # 0
  PROVE  IInv'
<1>1. PICK B \in SUBSET Nat, t \in Seq(Units) : Extended(B, t)
  BY DEF Fill, IInv, Placed, Filling
<1>2. PICK C, u, e, a, h, m, r : /\ C = B \cup {op.pos} /\ u = t \o Chunk(op.rest)
                                 /\ e = [data |-> Chunk(op.rest), next |-> op.next]
                                 /\ a = op.first /\ h = hdr.garbage /\ m = op.next
                                 /\ r = Remainder(op.rest)
  OBVIOUS
<1>3. /\ Written(B, t) /\ More(op.rest)
      /\ a # 0 /\ t \o op.rest = op.given /\ op.given \in Contents
      /\ file.hdr.garbage \in {0, a}
  BY <1>1, <1>2 DEF Extended, Written
<1>4. /\ m \in DOMAIN file.blocks /\ m \notin C /\ m \notin Garbage
      /\ Apart(file, live, {m}) /\ file.blocks[m].next = h
  BY <1>1, <1>2 DEF Extended
<1>5. Accounted(C \cup {m}, 0)
  <2>1. Accounted(B \cup {op.pos, op.next}, 0)
    BY <1>1 DEF Extended
  <2>2. B \cup {op.pos, op.next} = C \cup {m}
    BY <1>2
  <2> QED
    BY <2>1, <2>2
<1>6. /\ a \in Nat /\ op.rest \in Seq(Units) /\ m \in 0 .. MaxBlocks /\ m # 0
      /\ file \in File /\ h \in Nat
  BY <1>2, Basics DEF Locals
<1>7. Filled(C, u, e)
  BY <1>1, <1>2, <1>3, <1>6, FillFrame
<1>8. /\ BlockPut(file, file', op.pos, e) /\ Path(file', a, m, C, u)
      /\ Contained(file', live)
      /\ \A id \in DOMAIN live : Blocks(file', id) = Blocks(file, id)
      /\ Spare(file', live, h) /\ Blocks(file', h) = Garbage
      /\ Apart(file', live, C) /\ C \cap Garbage = {}
  BY <1>2, <1>7 DEF Filled
<1>9. /\ file' \in File /\ file'.hdr = file.hdr /\ DOMAIN file'.blocks = DOMAIN file.blocks
      /\ \A A : op.pos \notin A => Same(file, file', A)
  BY <1>8 DEF BlockPut
<1>10. file'.blocks[m] = file.blocks[m]
  <2>1. Same(file, file', {m})
    BY <1>2, <1>4, <1>9
  <2> QED
    BY <1>4, <2>1 DEF Same
<1>11. /\ hdr' = hdr /\ disk' = file
       /\ at' = (IF r = <<>> THEN "header" ELSE IF More(r) THEN "get" ELSE "fill")
       /\ live' = live /\ crashes' = crashes
  BY <1>2 DEF Fill, PutBlock, Put
<1>12. /\ op'.rest = r /\ op'.pos = m /\ op'.next = 0 /\ op'.first = a
       /\ op'.given = op.given
  BY <1>2, FillLocals
<1>13. Typed' /\ Measured'
  <2>1. \A id \in DOMAIN live : op.pos \notin Blocks(file, id)
    BY <1>2, <1>8 DEF Apart
  <2> QED
    BY <1>8, <2>1, FillTyped
<1>14. /\ Apart(file', live, C \cup {m}) /\ (C \cup {m}) \cap Garbage = {}
  BY <1>4, <1>8 DEF Apart
<1>15. Spare(file', live, file.hdr.garbage)
  <2>1. PICK D, v : D = C \cup {m} /\ v = u \o file.blocks[m].data
    OBVIOUS
  <2>2. Path(file', a, file'.blocks[m].next, C \cup {m}, u \o file'.blocks[m].data)
    BY <1>4, <1>6, <1>8, <1>9, PathStep
  <2>3. Path(file', a, h, D, v)
    BY <1>4, <1>10, <2>1, <2>2
  <2>4. List(file', h) /\ D \cap Blocks(file', h) = {}
    BY <1>8, <1>14, <2>1 DEF Spare
  <2>5. List(file', a) /\ Blocks(file', a) = D \cup Blocks(file', h)
    BY <1>6, <1>9, <2>3, <2>4, ListJoin
  <2>6. Spare(file', live, a)
    BY <1>8, <1>14, <2>1, <2>5 DEF Spare, Apart
  <2>7. Spare(file', live, 0)
    BY <1>9, ListEnds DEF Spare, Apart
  <2> QED
    BY <1>3, <2>6, <2>7
<1>16. Sound(file', live') /\ Sound(disk', live')
  BY <1>8, <1>9, <1>11, <1>15 DEF IInv, Sound
<1>17. Garbage' = Garbage
  BY <1>2, <1>8, <1>11 DEF Garbage
<1>18. Accounted(C \cup {m}, 0)'
  BY <1>5, <1>8, <1>9, <1>11, <1>17 DEF Accounted
<1>19. r # <<>> /\ u \o r = op.given
  <2>1. /\ Chunk(op.rest) \in Seq(Units) /\ r \in Seq(Units)
        /\ Chunk(op.rest) \o r = op.rest /\ r # <<>>
    BY <1>2, <1>3, <1>6, ChunkIs
  <2>2. (t \o Chunk(op.rest)) \o r = t \o (Chunk(op.rest) \o r)
    BY <2>1, Associative
  <2> QED
    BY <1>2, <1>3, <2>1, <2>2
<1>20. Written(C, u)'
  <2>1. file'.blocks[m].next = h
    BY <1>4, <1>10
  <2> QED
    BY <1>2, <1>3, <1>4, <1>8, <1>9, <1>11, <1>12, <1>14, <1>17, <1>19, <2>1 DEF Written
<1>21. C \in SUBSET Nat /\ u \in Seq(Units)
  BY <1>8, PathType
<1>22. CASE More(r)
  <2>1. More(op.rest)'
    BY <1>12, <1>22 DEF More
  <2>2. file'.blocks[m].next = hdr'.garbage
    BY <1>2, <1>4, <1>10, <1>11
  <2>3. Extending(C, u)'
    BY <1>12, <1>18, <1>20, <2>1, <2>2 DEF Extending
  <2>4. Growing'
    BY <1>21, <2>3 DEF Growing
  <2>5. Placed'
    BY <1>6, <1>11, <1>12, <1>19, <1>22, <2>4 DEF Placed
  <2> QED
    BY <1>13, <1>16, <2>5 DEF IInv
<1>23. CASE ~More(r)
  <2>1. ~More(op.rest)'
    BY <1>12, <1>23 DEF More
  <2>2. Ending(C, u)'
    BY <1>12, <1>18, <1>20, <2>1 DEF Ending
  <2>3. Filling'
    BY <1>12, <1>21, <2>2 DEF Filling
  <2>4. Placed'
    BY <1>11, <1>19, <1>23, <2>3 DEF Placed
  <2> QED
    BY <1>13, <1>16, <2>4 DEF IInv
<1> QED
  BY <1>22, <1>23
-------------------------------------------------------------------------------
LEMMA OperationKeeps ==
  ASSUME IInv, Operation
  PROVE  IInv'
<1>1. ASSUME NEW c \in Contents, Write(c) PROVE IInv'
  BY <1>1, WriteKeeps
<1>2. ASSUME NEW id \in Ids, Recycle(id) PROVE IInv'
  BY <1>2, RecycleKeeps
<1>3. ASSUME NEW id \in Ids, GetSize(id) PROVE IInv'
  BY <1>3, GetSizeKeeps
<1>4. ASSUME NEW id \in Ids, NEW max \in Buffers, Read(id, max) PROVE IInv'
  BY <1>4, ReadKeeps
<1> QED
  BY <1>1, <1>2, <1>3, <1>4, CloseKeeps, CreateKeeps, OpenKeeps, CrashKeeps DEF Operation

LEMMA StepKeeps ==
  ASSUME IInv, Step
  PROVE  IInv'
<1>1. Fill => IInv'
  BY FillEndsKeeps, FillOnKeeps
<1>2. Walk => IInv'
  BY WalkEndsKeeps, WalkOnKeeps
<1> QED
  BY <1>1, <1>2, ReuseKeeps, AppendBlockKeeps, WriteHeaderKeeps, FlushKeeps, SaveKeeps,
     ReadBlockKeeps, ReadEndsKeeps DEF Step

(* What is left when the file was misused. *)
Void ==
  /\ at = "spoilt" /\ sizing = NotSizing /\ file \in File /\ disk \in File
  /\ DOMAIN live \subseteq Ids /\ crashes \in 0 .. MaxCrashes

LEMMA HitFile ==
  ASSUME IInv, sizing.pos \in DOMAIN file.blocks, NEW block \in Block, Hit(block)
  PROVE  file' \in File /\ disk' \in File
<1>1. file \in File /\ file.blocks \in Seq(Block) /\ Len(file.blocks) <= MaxBlocks
  BY Basics DEF File
<1>2. CASE PutBlock(sizing.pos, block)
  BY <1>1, <1>2, PutFile DEF PutBlock, Put, BlockPut
<1>3. CASE Put([file EXCEPT !.blocks = [i \in DOMAIN @ |->
                 IF i \in {sizing.pos, sizing.pos + 1} THEN Blank ELSE @[i]]])
  <2> DEFINE s == [i \in DOMAIN file.blocks |->
                     IF i \in {sizing.pos, sizing.pos + 1} THEN Blank ELSE file.blocks[i]]
  <2>1. Len(file.blocks) \in Nat /\ DOMAIN file.blocks = 1 .. Len(file.blocks)
    BY <1>1, BlocksOfFile
  <2>2. Blank \in Block
    BY EmptySeq, BlobAssumption DEF Block, Blank
  <2>3. \A i \in DOMAIN file.blocks : s[i] \in Block
    BY <1>1, <2>2, BlocksOfFile
  <2>4. DOMAIN s = 1 .. Len(file.blocks) /\ s = [i \in 1 .. Len(file.blocks) |-> s[i]]
    BY <2>1
  <2> HIDE DEF s
  <2>5. s \in Seq(Block) /\ Len(s) = Len(file.blocks)
    <3>1. s \in [1 .. Len(file.blocks) -> Block]
      BY <2>1, <2>3, <2>4
    <3> QED
      BY <2>1, <3>1, SeqDef, LenProperties
  <2>6. file' = [file EXCEPT !.blocks = s] /\ disk' = file
    BY <1>3 DEF Put, s
  <2> QED
    BY <1>1, <2>5, <2>6 DEF File
<1> QED
  BY <1>2, <1>3 DEF Hit

LEMMA MisuseSpoils ==
  ASSUME IInv, Misuse
  PROVE  Void'
<1>1. ASSUME Spoilt, file' \in File, disk' \in File
      PROVE  Void'
  BY <1>1 DEF Spoilt, Void, IInv, Typed
<1>2. file \in File /\ disk \in File /\ hdr.garbage \in 0 .. MaxBlocks
  BY Basics
<1>3. ASSUME NEW b \in DOMAIN file.blocks
      PROVE  [file.blocks[b] EXCEPT !.next = hdr.garbage] \in Block
  BY <1>2, <1>3, BlocksOfFile DEF Block
<1>4. ASSUME NEW b \in DOMAIN file.blocks,
             PutBlock(b, [file.blocks[b] EXCEPT !.next = hdr.garbage])
      PROVE  file' \in File /\ disk' \in File
  BY <1>2, <1>3, <1>4, PutFile DEF PutBlock, Put, BlockPut
<1>5. ASSUME StrayWrite PROVE Void'
  <2>1. Spoilt /\ sizing.pos \in DOMAIN file.blocks
    BY <1>5 DEF StrayWrite
  <2>2. Blank \in Block
    BY EmptySeq, BlobAssumption DEF Block, Blank
  <2>3. ASSUME at = "fill"
        PROVE  [data |-> Chunk(op.rest), next |-> op.next] \in Block
    <3>1. op \in Locals /\ op.rest \in Seq(Units)
      BY Basics
    <3>2. op.rest # <<>>
      BY <2>3 DEF IInv, Placed, Filling, Ending, Extended, Written
    <3>3. Chunk(op.rest) \in Seq(Units)
      BY <3>1, <3>2, ChunkIs
    <3> QED
      BY <3>1, <3>3 DEF Locals, Block
  <2>4. \E block \in Block : Hit(block)
    BY <1>3, <1>5, <2>1, <2>2, <2>3 DEF StrayWrite
  <2> QED
    BY <1>1, <2>1, <2>4, HitFile
<1>6. ASSUME StrayReuse \/ StrayLength PROVE Void'
  BY <1>1, <1>2, <1>6 DEF StrayReuse, StrayLength, Seek
<1>7. ASSUME StrayWalk PROVE Void'
  <2>1. Spoilt /\ at = "walk" /\ sizing.pos \in DOMAIN file.blocks
    BY <1>7 DEF StrayWalk
  <2>2. op.pos \in DOMAIN file.blocks
    BY <2>1, Basics, ListFirst DEF IInv, Placed, Recycling, Walking
  <2>3. \E b \in DOMAIN file.blocks : PutBlock(b, [file.blocks[b] EXCEPT !.next = hdr.garbage])
    BY <1>7, <2>2 DEF StrayWalk
  <2> QED
    BY <1>1, <1>4, <2>1, <2>3
<1>8. ASSUME NEW id \in Ids, RecycleAgain(id) PROVE Void'
  <2>1. Spoilt /\ at = "idle"
    BY <1>8 DEF RecycleAgain
  <2>2. List(file, hdr.garbage)
    BY <2>1 DEF IInv, Placed, AtRest, Spare
  <2>3. Garbage \subseteq DOMAIN file.blocks
    BY <2>2, Basics, ListType DEF Garbage
  <2>4. \E b \in DOMAIN file.blocks : PutBlock(b, [file.blocks[b] EXCEPT !.next = hdr.garbage])
    BY <1>8, <2>3 DEF RecycleAgain
  <2> QED
    BY <1>1, <1>4, <2>1, <2>4
<1> QED
  BY <1>5, <1>6, <1>7, <1>8 DEF Misuse

LEMMA NextKeeps ==
  ASSUME IInv, [Next]_vars
  PROVE  IInv' \/ Void'
<1>1. CASE UNCHANGED vars
  <2>1. /\ file' = file /\ disk' = disk /\ len' = len /\ hdr' = hdr /\ at' = at /\ op' = op
        /\ sizing' = sizing /\ live' = live /\ crashes' = crashes
    BY <1>1 DEF vars
  <2>2. Placed'
    <3>1. CASE at = "closed"
      BY <2>1, <3>1 DEF IInv, Placed, AtEnd, Accounted, Garbage
    <3>2. CASE at # "closed"
      BY <2>1, <3>2, PlacedFrame DEF IInv
    <3> QED
      BY <3>1, <3>2
  <2> QED
    BY <2>1, <2>2 DEF IInv, Typed, Measured
<1>2. CASE Next
  BY <1>2, OperationKeeps, StepKeeps, SizeBlockKeeps, SizeEndsKeeps, SizeStrayKeeps,
     StrayReadKeeps, MisuseSpoils DEF Next, Size, Stray
<1> QED
  BY <1>1, <1>2

LEMMA VoidStays ==
  ASSUME Void, [Next]_vars
  PROVE  UNCHANGED vars
<1>1. at = "spoilt" /\ sizing = NotSizing
  BY DEF Void
<1>2. sizing.pos \notin DOMAIN file.blocks
  BY <1>1, BlocksOfFile DEF Void, NotSizing
<1>3. ~Operation
  BY <1>1 DEF Operation, Write, Recycle, GetSize, Read, Close, Create, Open, Crash
<1>4. ~Step
  BY <1>1 DEF Step, Reuse, AppendBlock, Fill, WriteHeader, Flush, Walk, Save, ReadBlock, ReadEnds
<1>5. ~Size /\ ~Stray
  BY <1>1, <1>2 DEF Size, SizeBlock, SizeEnds, Stray, SizeStray, StrayRead
<1>6. ~Misuse
  BY <1>1, <1>2 DEF Misuse, StrayWrite, StrayReuse, StrayWalk, StrayLength, RecycleAgain
<1> QED
  BY <1>3, <1>4, <1>5, <1>6 DEF Next

(* The chains of the file and of the disk are sound after every step, crashes and
   getsz() at any time included, and the operation under way is where its place
   says, until the file is misused. *)
THEOREM Invariance == Spec => [](IInv \/ Void)
<1>1. Init => IInv
  BY InitIInv
<1>2. (IInv \/ Void) /\ [Next]_vars => (IInv \/ Void)'
  <2>1. Void /\ UNCHANGED vars => Void'
    BY DEF vars, Void
  <2> QED
    BY <2>1, NextKeeps, VoidStays
<1> QED
  BY <1>1, <1>2, PTL DEF Spec

(* The headers and pointers stay within the file, and no operation leaves its places. *)
THEOREM BlobTypeCorrect == Spec => []TypeOK
<1>1. IInv \/ Void => TypeOK
  <2> SUFFICES ASSUME IInv \/ Void PROVE TypeOK
    OBVIOUS
  <2>1. ASSUME NEW f \in File
        PROVE  /\ f.hdr.garbage \in 0 .. MaxBlocks /\ f.hdr.recycled \in Nat
               /\ Len(f.blocks) <= MaxBlocks
               /\ \A i \in DOMAIN f.blocks : f.blocks[i].next \in 0 .. MaxBlocks
    <3>1. f.hdr.garbage \in 0 .. MaxBlocks /\ f.hdr.recycled \in Nat
      BY DEF File, Header
    <3> QED
      BY <3>1, BlocksOfFile
  <2> QED
    BY <2>1 DEF IInv, Typed, Places, Void, TypeOK
<1> QED
  BY <1>1, Invariance, PTL

(* No block has two owners, and until a crash each has one and recycle_sz is right. *)
THEOREM BlobOwnBlocks == Spec => []OwnBlocks
<1>0. Void => OwnBlocks
  BY DEF Void, OwnBlocks
<1>1. IInv => OwnBlocks
  <2> SUFFICES ASSUME IInv, at = "idle"
               PROVE  /\ \A id \in DOMAIN live :
                           /\ Blocks(file, id) \cap Garbage = {}
                           /\ \A j \in DOMAIN live \ {id} :
                                Blocks(file, id) \cap Blocks(file, j) = {}
                      /\ crashes = 0 =>
                           /\ Garbage \cup UNION {Blocks(file, id) : id \in DOMAIN live}
                                = DOMAIN file.blocks
                           /\ hdr.recycled = Cardinality(Garbage)
    BY DEF OwnBlocks
  <2>1. AtRest /\ Contained(file, live)
    BY DEF IInv, Placed, Sound
  <2>2. ASSUME NEW id \in DOMAIN live
        PROVE  /\ Blocks(file, id) \cap Garbage = {}
               /\ \A j \in DOMAIN live \ {id} : Blocks(file, id) \cap Blocks(file, j) = {}
               /\ Blocks(file, id) \subseteq DOMAIN file.blocks
    <3>1. Blocks(file, id) \cap Garbage = {}
      BY <2>1 DEF AtRest, Spare, Apart, Garbage
    <3>2. List(file, id) /\ id \in Nat /\ file \in File
      BY <2>1, Basics DEF Contained
    <3>3. Blocks(file, id) \subseteq DOMAIN file.blocks
      BY <3>2, ListType
    <3> QED
      BY <2>1, <3>1, <3>3 DEF Contained
  <2>3. Garbage \subseteq DOMAIN file.blocks
    <3>1. List(file, hdr.garbage) /\ hdr.garbage \in Nat /\ file \in File
      BY <2>1, Basics DEF AtRest, Spare
    <3> QED
      BY <3>1, ListType DEF Garbage
  <2>4. ASSUME crashes = 0
        PROVE  /\ \A b \in DOMAIN file.blocks :
                    b \in Garbage \/ \E id \in DOMAIN live : b \in Blocks(file, id)
               /\ hdr.recycled = Cardinality(Garbage)
    <3>1. Cardinality(Garbage) \in Nat
      BY <2>3, Basics, CountedBlocks
    <3> QED
      BY <2>1, <2>4, <3>1 DEF AtRest, Accounted
  <2>5. ASSUME crashes = 0
        PROVE  Garbage \cup UNION {Blocks(file, id) : id \in DOMAIN live} = DOMAIN file.blocks
    BY <2>2, <2>3, <2>4, <2>5
  <2> QED
    BY <2>2, <2>4, <2>5
<1> QED
  BY <1>0, <1>1, Invariance, PTL

(* Unless another came between its own seek and read, read() hands on the blob and
   nothing else, and getsz() is its length; and a read()'s buffer is never overrun. *)
THEOREM BlobReadsWhole == Spec => []ReadsWhole
<1>0. Void => ReadsWhole
  <2> SUFFICES ASSUME Void PROVE ReadsWhole
    OBVIOUS
  <2>1. sizing.id \notin DOMAIN live
    BY BlobAssumption DEF Void, NotSizing, Ids
  <2> QED
    BY <2>1 DEF Void, ReadsWhole
<1>1. IInv => ReadsWhole
  <2> SUFFICES ASSUME IInv PROVE ReadsWhole
    OBVIOUS
  <2>0. \A pos \in Nat : List(file, pos) /\ pos \notin DOMAIN file.blocks => pos = 0
    BY Basics, ListFirst
  <2>1. Stored(file, 0) = <<>> /\ <<>> \in Seq(Units)
    BY Basics, ListEnds, EmptySeq
  <2>2. at = "read" => Reading
    BY DEF IInv, Placed
  <2>3. ASSUME at = "read", op.pos \notin DOMAIN file.blocks, ~op.astray
        PROVE  op.out \o op.buf = IF op.first \in DOMAIN live THEN live[op.first] ELSE <<>>
    <3>1. op.out \in Seq(Units) /\ op.buf \in Seq(Units) /\ op.pos \in Nat
      BY Basics DEF Locals
    <3>2. op.out \o op.buf \in Seq(Units)
      BY <3>1, Concat
    <3>3. (op.out \o op.buf) \o <<>> = op.out \o op.buf /\ <<>> \o <<>> = <<>>
      BY <2>1, <3>2, Concat
    <3>4. Passing
      BY <2>2, <2>3 DEF Reading
    <3>5. CASE op.first \in DOMAIN live
      <4>1. List(file, op.pos) /\ (op.out \o op.buf) \o Stored(file, op.pos) = live[op.first]
        BY <3>4, <3>5 DEF Passing
      <4>2. op.pos = 0
        BY <2>0, <2>3, <3>1, <4>1
      <4> QED
        BY <2>1, <3>3, <3>5, <4>1, <4>2
    <3>6. CASE op.first \notin DOMAIN live
      BY <3>3, <3>4, <3>6 DEF Passing
    <3> QED
      BY <3>5, <3>6
  <2>4. ASSUME sizing.id \in DOMAIN live, sizing.pos \notin DOMAIN file.blocks, ~sizing.astray
        PROVE  sizing.sz = Len(live[sizing.id])
    <3>1. sizing # NotSizing
      BY <2>4, Basics DEF NotSizing
    <3>2. /\ List(file, sizing.pos) /\ sizing.pos \in Nat
          /\ sizing.sz + Len(Stored(file, sizing.pos)) = Len(live[sizing.id])
      BY <2>4, <3>1, Basics DEF IInv, Measured
    <3>3. sizing.pos = 0 /\ Len(Stored(file, 0)) = 0
      BY <2>0, <2>1, <2>4, <3>2
    <3> QED
      BY <3>2, <3>3, Basics
  <2> QED
    BY <2>2, <2>3, <2>4 DEF Reading, ReadsWhole
<1> QED
  BY <1>0, <1>1, Invariance, PTL

-------------------------------------------------------------------------------
(* The abstract store: what is on the disk, and what is to be written. *)
Kept == [id \in DOMAIN live |-> Stored(disk, id)]
Pending == IF at \in {"get", "fill", "header", "flush"} THEN op.given ELSE <<>>
Misused == at = "spoilt"

LEMMA KeptIs ==
  ASSUME IInv
  PROVE  Kept = live
<1>1. \A id \in DOMAIN live : Stored(disk, id) = live[id]
  BY DEF IInv, Sound, Contained
<1>2. live = [id \in DOMAIN live |-> live[id]]
  BY DEF IInv, Typed
<1> QED
  BY <1>1, <1>2 DEF Kept

LEMMA OperationImplements ==
  ASSUME IInv, Operation, Kept = live, Kept' = live'
  PROVE  Promise!Use \/ (Kept' = Kept /\ Pending' = Pending)
<1>1. ASSUME NEW c \in Contents, Write(c) PROVE Promise!BeginWrite(c)
  <2>1. Pending = <<>> /\ Kept' = Kept /\ at' = "get" /\ op'.given = c
    BY <1>1 DEF Write, Pending, NoOp
  <2> QED
    BY <2>1 DEF Promise!BeginWrite, Pending, Kept
<1>2. ASSUME NEW id \in Ids, Recycle(id) PROVE Promise!Recycle(id)
  <2>1. /\ Pending = <<>> /\ Pending' = <<>> /\ id \in DOMAIN Kept
        /\ Kept' = [i \in DOMAIN Kept \ {id} |-> Kept[i]]
    BY <1>2 DEF Recycle, Pending
  <2> QED
    BY <2>1 DEF Promise!Recycle, Pending, Kept
<1>3. ASSUME NEW id \in Ids, GetSize(id) PROVE Kept' = Kept /\ Pending' = Pending
  BY <1>3 DEF GetSize, Pending
<1>4. ASSUME NEW id \in Ids, NEW max \in Buffers, Read(id, max)
      PROVE  Kept' = Kept /\ Pending' = Pending
  BY <1>4 DEF Read, Pending
<1>5. Close \/ Open => Kept' = Kept /\ Pending' = Pending
  BY DEF Close, Open, Pending
<1>6. Create => Promise!Create
  <2> SUFFICES ASSUME Create PROVE Promise!Create
    OBVIOUS
  <2>1. Kept' = NoBlobs /\ Pending' = <<>>
    BY DEF Create, Pending
  <2> QED
    BY <2>1 DEF Promise!Create, Promise!NoBlobs, NoBlobs, Pending, Kept
<1>7. Crash => Promise!Lost
  <2> SUFFICES ASSUME Crash PROVE Promise!Lost
    OBVIOUS
  <2>1. Kept' = Kept /\ Pending' = <<>>
    BY DEF Crash, Pending
  <2> QED
    BY <2>1 DEF Promise!Lost, Pending, Kept
<1> QED
  BY <1>1, <1>2, <1>3, <1>4, <1>5, <1>6, <1>7 DEF Operation, Promise!Use

LEMMA StepImplements ==
  ASSUME IInv, Step, Kept = live, Kept' = live'
  PROVE  Promise!Use \/ (Kept' = Kept /\ Pending' = Pending)
<1>1. ASSUME Reuse \/ AppendBlock PROVE Kept' = Kept /\ Pending' = Pending
  <2>1. PICK n : Got(n)
    BY <1>1 DEF Reuse, AppendBlock
  <2>2. at = "get" /\ live' = live
    BY <1>1 DEF Reuse, AppendBlock
  <2>3. op'.given = op.given /\ at' \in {"get", "fill"}
    <3>1. op \in Locals
      BY Basics
    <3> QED
      BY <2>1, <2>2, <3>1 DEF Got, Locals
  <2> QED
    BY <2>2, <2>3 DEF Pending
<1>2. ASSUME Fill PROVE Kept' = Kept /\ Pending' = Pending
  <2>1. op'.given = op.given
    BY <1>2, FillLocals
  <2> QED
    BY <1>2, <2>1 DEF Fill, Pending
<1>3. ASSUME WriteHeader PROVE Kept' = Kept /\ Pending' = Pending
  BY <1>3 DEF WriteHeader, Pending
<1>4. ASSUME Flush PROVE \E id \in Ids : Promise!Commit(id)
  <2>1. PICK a : a = op.first
    OBVIOUS
  <2>2. /\ at = "flush" /\ at' = "idle"
        /\ live' = [id \in DOMAIN live \cup {a} |-> IF id = a THEN op.given ELSE live[id]]
    BY <1>4, <2>1 DEF Flush
  <2>3. a # 0 /\ List(file, a) /\ op.given \in Contents
    BY <2>1, <2>2 DEF IInv, Placed, Complete
  <2>4. a \in Ids
    <3>1. a \in DOMAIN file.blocks /\ file \in File
      BY <2>1, <2>3, Basics, ListHead
    <3> QED
      BY <3>1, BlocksOfFile
  <2>5. a \notin DOMAIN live
    BY <1>4, <2>1, FlushKeeps
  <2>6. Pending = op.given /\ Pending # <<>> /\ Pending' = <<>>
    BY <2>2, <2>3, BlobAssumption DEF Pending
  <2>7. /\ a \notin DOMAIN Kept
        /\ Kept' = [i \in DOMAIN Kept \cup {a} |-> IF i = a THEN Pending ELSE Kept[i]]
    BY <2>2, <2>5, <2>6
  <2>8. Promise!Commit(a)
    BY <2>6, <2>7 DEF Promise!Commit, Pending, Kept
  <2> QED
    BY <2>4, <2>8
<1>5. ASSUME Walk \/ Save \/ ReadBlock \/ ReadEnds
      PROVE  Kept' = Kept /\ Pending' = Pending
  <2>1. live' = live /\ at \in {"walk", "save", "read"} /\ at' \in {"walk", "save", "read", "idle"}
    BY <1>5 DEF Walk, Save, ReadBlock, ReadEnds
  <2> QED
    BY <2>1 DEF Pending
<1> QED
  BY <1>1, <1>2, <1>3, <1>4, <1>5 DEF Step, Promise!Use

(* A step that keeps the invariant is a use of the store, or none. *)
LEMMA UseImplements ==
  ASSUME IInv, IInv', Operation \/ Step \/ Size \/ Stray \/ UNCHANGED vars
  PROVE  Promise!Use \/ (Kept' = Kept /\ Pending' = Pending)
<1>1. Kept = live
  BY KeptIs
<1>2. Kept' = live'
  <2>1. \A id \in DOMAIN live' : Stored(disk', id) = live'[id]
    BY DEF IInv, Sound, Contained
  <2>2. live' = [id \in DOMAIN live' |-> live'[id]]
    BY DEF IInv, Typed
  <2> QED
    BY <2>1, <2>2 DEF Kept
<1>3. CASE Operation
  BY <1>1, <1>2, <1>3, OperationImplements
<1>4. CASE Step
  BY <1>1, <1>2, <1>4, StepImplements
<1>5. CASE Size
  BY <1>1, <1>2, <1>5 DEF Size, SizeBlock, SizeEnds, Pending
<1>6. CASE Stray
  BY <1>1, <1>2, <1>6 DEF Stray, SizeStray, StrayRead, Pending
<1>7. CASE UNCHANGED vars
  BY <1>1, <1>2, <1>7 DEF vars, Pending
<1> QED
  BY <1>3, <1>4, <1>5, <1>6, <1>7

LEMMA NextImplements ==
  ASSUME IInv \/ Void, (IInv \/ Void)', [Next]_vars
  PROVE  Promise!Next \/ (Kept' = Kept /\ Pending' = Pending /\ Misused' = Misused)
<1>1. CASE Void
  BY <1>1, VoidStays DEF vars, Kept, Pending, Misused
<1>2. CASE IInv /\ Void'
  <2>1. Promise!Misuse
    BY <1>2 DEF Void, Promise!Misuse
  <2> QED
    BY <2>1 DEF Promise!Next
<1>3. CASE IInv /\ IInv'
  <2>1. at # "spoilt" /\ at' # "spoilt"
    BY <1>3 DEF IInv, Typed, Places
  <2>2. ~Misuse
    BY <2>1 DEF Misuse, StrayWrite, StrayReuse, StrayWalk, StrayLength, RecycleAgain, Spoilt
  <2>3. Promise!Use \/ (Kept' = Kept /\ Pending' = Pending)
    BY <1>3, <2>2, UseImplements DEF Next
  <2>4. Promise!Use => Promise!Next
    BY <2>1 DEF Promise!Next
  <2> QED
    BY <2>1, <2>3, <2>4 DEF Misused
<1> QED
  BY <1>1, <1>2, <1>3

(* A blob that write() has returned stays what it is on the disk, whatever the users
   do and wherever the process ends, until it is recycled or the file is misused: by
   a getsz() between the seek and the write of another operation, or by recycling
   garbage. *)
THEOREM BlobKeepsPromise == Spec => KeepsPromise
<1>1. Init => Promise!Init
  <2> SUFFICES ASSUME Init PROVE Promise!Init
    OBVIOUS
  <2>1. DOMAIN live = {} /\ at = "idle"
    BY DEF Init, NoBlobs
  <2> QED
    BY <2>1 DEF Promise!Init, Promise!NoBlobs
<1>2. (IInv \/ Void) /\ (IInv \/ Void)' /\ [Next]_vars => [Promise!Next]_<<Kept, Pending, Misused>>
  BY NextImplements
<1>3. Init /\ [][Next]_vars => [](IInv \/ Void)
  BY Invariance DEF Spec
<1> QED
  BY <1>1, <1>2, <1>3, PTL DEF Spec, KeepsPromise, Promise!Spec, Kept, Pending, Misused
================================================================================
