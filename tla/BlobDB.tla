---------------------------------- MODULE BlobDB ----------------------------------
(***************************************************************************)
(* BlobDB (db_blob.cpp) on its file (DAR, dar.cpp): blobs as chains of blocks *)
(* of one size; the blocks of recycled blobs are a chain too, whose first is  *)
(* in the header.                                                           *)
(*                                                                         *)
(* The gate lets one operation at a time in, so one variable says where it is. *)
(* A step is a write to the file, with the seek before it: between two of     *)
(* them the process may end.  stdio keeps the last write back until the next  *)
(* seek, flush or close.  getsz() takes no gate, but moves the same file: it  *)
(* may come between a seek and its read or write, and does harm there.  The   *)
(* file's positions are numbers of blocks, 0 is FNULL, and PerBlock units of  *)
(* data fill a block.                                                      *)
(***************************************************************************)
EXTENDS Naturals, Sequences, SequencesExt, FiniteSets

CONSTANTS
  Units,       \* of data
  Contents,    \* what is written: sequences of units
  PerBlock,    \* max_data()
  Buffers,     \* maxsz, the sizes of the buffers that are read into
  MaxBlocks,   \* bound: the blocks of the file
  MaxCrashes   \* bound

ASSUME BlobAssumption ==
  /\ PerBlock \in Nat \ {0} /\ MaxBlocks \in Nat /\ MaxCrashes \in Nat
  /\ Buffers \subseteq Nat \ {0}
  /\ Contents \subseteq Seq(Units) \ {<<>>}

VARIABLES
  file,      \* header and blocks as the process sees them
  disk,      \* ... and as they are if it ends
  len,       \* DAR::_len, the length of the file once it was asked for
  hdr,       \* _hdr: garbage and recycle_sz, in blocks
  at,        \* where the operation that has the gate is
  op,        \* its local variables
  sizing,    \* those of a getsz()
  live,      \* observer: the blobs that the users know of
  crashes

vars == <<file, disk, len, hdr, at, op, sizing, live, crashes>>

Ids == 1 .. MaxBlocks
Unknown == MaxBlocks + 1

NewHeader == [garbage |-> 0, recycled |-> 0]
NoBlobs == [id \in {} |-> <<>>]
Blank == [data |-> <<>>, next |-> 0]
EmptyFile == [made |-> FALSE, hdr |-> NewHeader, blocks |-> <<>>]
NewFile == [made |-> TRUE, hdr |-> NewHeader, blocks |-> <<>>]
NoOp == [rest |-> <<>>, pos |-> 0, next |-> 0, first |-> 0, given |-> <<>>,
         out |-> <<>>, buf |-> <<>>, max |-> 0, astray |-> FALSE]
NotSizing == [id |-> 0, pos |-> 0, sz |-> 0, astray |-> FALSE]

TypeOK ==
  /\ \A f \in {file, disk} :
       /\ f.hdr.garbage \in 0 .. MaxBlocks /\ f.hdr.recycled \in Nat
       /\ Len(f.blocks) <= MaxBlocks
       /\ \A i \in DOMAIN f.blocks : f.blocks[i].next \in 0 .. MaxBlocks
  /\ at \in {"idle", "get", "fill", "header", "flush", "walk", "save", "read", "closed",
            "spoilt"}
  /\ DOMAIN live \subseteq Ids
  /\ crashes \in 0 .. MaxCrashes

Init ==
  /\ file = NewFile /\ disk = EmptyFile /\ len = Unknown /\ hdr = NewHeader
  /\ at = "idle" /\ op = NoOp /\ sizing = NotSizing
  /\ live = NoBlobs /\ crashes = 0

-------------------------------------------------------------------------------
(* DAR: seek() writes out what the last write() left in the buffer. *)
Put(changed) == file' = changed /\ disk' = file

(* ... and so does the one before a read. *)
Seek == disk' = file /\ UNCHANGED file

PutBlock(pos, block) == Put([file EXCEPT !.blocks[pos] = block])
PutHeader == Put([file EXCEPT !.hdr = hdr])

More(units) == Len(units) > PerBlock
Chunk(units) == SubSeq(units, 1, IF More(units) THEN PerBlock ELSE Len(units))
Remainder(units) == SubSeq(units, PerBlock + 1, Len(units))

Needed(c) == (Len(c) + PerBlock - 1) \div PerBlock

-------------------------------------------------------------------------------
(* The blocks from one on, and then zeros. *)
Chain(f, first) ==
  LET next == [b \in 0 .. Len(f.blocks) |-> IF b = 0 THEN 0 ELSE f.blocks[b].next]
      nth[n \in 1 .. MaxBlocks] == IF n = 1 THEN first ELSE next[nth[n - 1]]
  IN [n \in 1 .. MaxBlocks |-> nth[n]]

Blocks(f, first) == ToSet(Chain(f, first)) \ {0}
Garbage == Blocks(file, hdr.garbage)

(* write().  Bound: there is room for all blocks. *)
Write(c) ==
  /\ at = "idle" /\ Len(file.blocks) + Needed(c) <= MaxBlocks + Cardinality(Garbage)
  /\ at' = "get"
  /\ op' = [NoOp EXCEPT !.rest = c, !.given = c]
  /\ UNCHANGED <<file, disk, len, hdr, sizing, live, crashes>>

(* get_block(): the first of the garbage, or a new one at the end of the file:
   the first of the blob, or the next of the one that is filled. *)
Got(block) ==
  IF op.pos = 0
  THEN /\ op' = [op EXCEPT !.pos = block, !.first = block]
       /\ at' = IF More(op.rest) THEN "get" ELSE "fill"
  ELSE op' = [op EXCEPT !.next = block] /\ at' = "fill"

(* Mistake: the garbage still begins with the block that is taken. *)
ReuseStays ==
  /\ at = "get" /\ hdr.garbage # 0
  /\ Seek /\ Got(hdr.garbage)
  /\ UNCHANGED <<hdr, len, sizing, live, crashes>>

Reuse ==
  /\ at = "get" /\ hdr.garbage # 0
  /\ hdr' = [garbage |-> file.blocks[hdr.garbage].next,
             recycled |-> IF hdr.recycled = 0 THEN 0 ELSE hdr.recycled - 1]
  /\ Seek
  /\ Got(hdr.garbage)
  /\ UNCHANGED <<len, sizing, live, crashes>>

AppendBlock ==
  /\ at = "get" /\ hdr.garbage = 0
  /\ Len(file.blocks) < MaxBlocks
  /\ Put([file EXCEPT !.blocks = Append(@, Blank)])
  /\ len' = IF len = Unknown THEN Unknown ELSE Len(file.blocks) + 1
  /\ Got(Len(file.blocks) + 1)
  /\ UNCHANGED <<hdr, sizing, live, crashes>>

Fill ==
  /\ at = "fill"
  /\ PutBlock(op.pos, [data |-> Chunk(op.rest), next |-> op.next])
  /\ LET rest == Remainder(op.rest)
     IN /\ op' = [op EXCEPT !.rest = rest, !.pos = op.next, !.next = 0]
        /\ at' = IF rest = <<>> THEN "header" ELSE IF More(rest) THEN "get" ELSE "fill"
  /\ UNCHANGED <<len, hdr, sizing, live, crashes>>

WriteHeader ==
  /\ at = "header"
  /\ PutHeader
  /\ at' = "flush"
  /\ UNCHANGED <<len, hdr, op, sizing, live, crashes>>

(* Mistake: what the last write left in the buffer stays there. *)
NoFlush ==
  /\ at = "flush"
  /\ live' = [id \in DOMAIN live \cup {op.first} |-> IF id = op.first THEN op.given ELSE live[id]]
  /\ at' = "idle" /\ op' = NoOp
  /\ UNCHANGED <<file, disk, len, hdr, sizing, crashes>>

Flush ==
  /\ at = "flush"
  /\ disk' = file
  /\ live' = [id \in DOMAIN live \cup {op.first} |-> IF id = op.first THEN op.given ELSE live[id]]
  /\ at' = "idle" /\ op' = NoOp
  /\ UNCHANGED <<file, len, hdr, sizing, crashes>>

(* recycle(): to the last block, which is to point to the garbage there was.  A
   getsz() of the blob goes astray. *)
Recycle(id) ==
  /\ at = "idle" /\ id \in DOMAIN live
  /\ at' = "walk"
  /\ op' = [NoOp EXCEPT !.pos = id, !.first = id]
  /\ live' = [i \in DOMAIN live \ {id} |-> live[i]]
  /\ sizing' = [sizing EXCEPT !.astray = @ \/ sizing.id = id]
  /\ UNCHANGED <<file, disk, len, hdr, crashes>>

(* Mistake: the walk never moves from the first block. *)
WalkStays ==
  /\ at = "walk"
  /\ LET block == file.blocks[op.first]
     IN IF block.next # 0
        THEN /\ hdr' = [hdr EXCEPT !.recycled = (@ + 1) % Unknown]
             /\ Seek /\ UNCHANGED <<op, at>>
        ELSE /\ PutBlock(op.pos, [block EXCEPT !.next = hdr.garbage])
             /\ hdr' = [garbage |-> op.first, recycled |-> hdr.recycled + 1]
             /\ at' = "save" /\ UNCHANGED op
  /\ UNCHANGED <<len, sizing, live, crashes>>

Walk ==
  /\ at = "walk"
  /\ LET block == file.blocks[op.pos]
     IN IF block.next # 0
        THEN /\ op' = [op EXCEPT !.pos = block.next]
             /\ hdr' = [hdr EXCEPT !.recycled = @ + 1]
             /\ Seek /\ UNCHANGED at
        ELSE /\ PutBlock(op.pos, [block EXCEPT !.next = hdr.garbage])
             /\ hdr' = [garbage |-> op.first, recycled |-> hdr.recycled + 1]
             /\ at' = "save" /\ UNCHANGED op
  /\ UNCHANGED <<len, sizing, live, crashes>>

(* recycle() does not flush. *)
Save ==
  /\ at = "save"
  /\ PutHeader
  /\ at' = "idle" /\ op' = NoOp
  /\ UNCHANGED <<len, hdr, sizing, live, crashes>>

(* read(): into a buffer that the callback empties when it is full.  An id that
   is not in the file gives nothing; the length of the file is kept. *)
Read(id, max) ==
  /\ at = "idle" /\ (id \in DOMAIN live \/ id > Len(file.blocks))
  /\ len' = IF len = Unknown THEN Len(file.blocks) ELSE len
  /\ at' = "read"
  /\ op' = [NoOp EXCEPT !.pos = IF id > len' + 1 THEN 0 ELSE id, !.first = id, !.max = max]
  /\ IF len = Unknown THEN Seek ELSE UNCHANGED <<file, disk>>
  /\ UNCHANGED <<hdr, sizing, live, crashes>>

(* push_data(): the callback gets each buffer that is full; what is left stays. *)
PushedInto(o, units, size) ==
  LET all  == o.buf \o units
      full == Len(all) - (Len(all) % size)
  IN [o EXCEPT !.out = @ \o SubSeq(all, 1, full), !.buf = SubSeq(all, full + 1, Len(all))]

(* Mistake: a buffer is full one unit too late. *)
PushedOver(o, units) == PushedInto(o, units, o.max + 1)

Pushed(o, units) == PushedInto(o, units, o.max)

ReadBlock ==
  /\ at = "read" /\ op.pos \in DOMAIN file.blocks
  /\ op' = [Pushed(op, file.blocks[op.pos].data) EXCEPT !.pos = file.blocks[op.pos].next]
  /\ Seek
  /\ UNCHANGED <<len, hdr, at, sizing, live, crashes>>

(* ... and again at the end, with what is left; a read that fails ends it, too. *)
ReadEnds ==
  /\ at = "read" /\ op.pos \notin DOMAIN file.blocks
  /\ at' = "idle" /\ op' = NoOp
  /\ UNCHANGED <<file, disk, len, hdr, sizing, live, crashes>>

(* getsz(), one block after the other; its calls may fall between those of the
   operation that has the gate.  Bound: one at a time. *)
GetSize(id) ==
  /\ sizing = NotSizing /\ at \notin {"closed", "spoilt"} /\ id \in DOMAIN live
  /\ sizing' = [NotSizing EXCEPT !.id = id, !.pos = id]
  /\ UNCHANGED <<file, disk, len, hdr, at, op, live, crashes>>

(* Mistake: every block counts as a full one. *)
SizeFullBlock ==
  /\ sizing.pos \in DOMAIN file.blocks
  /\ sizing' = [sizing EXCEPT !.pos = file.blocks[sizing.pos].next, !.sz = @ + PerBlock]
  /\ Seek
  /\ UNCHANGED <<len, hdr, at, op, live, crashes>>

SizeBlock ==
  /\ sizing.pos \in DOMAIN file.blocks
  /\ sizing' = [sizing EXCEPT !.pos = file.blocks[sizing.pos].next,
                              !.sz = IF sizing.astray THEN 0
                                     ELSE @ + Len(file.blocks[sizing.pos].data)]
  /\ Seek
  /\ UNCHANGED <<len, hdr, at, op, live, crashes>>

SizeEnds ==
  /\ sizing # NotSizing /\ sizing.pos \notin DOMAIN file.blocks
  /\ sizing' = NotSizing
  /\ UNCHANGED <<file, disk, len, hdr, at, op, live, crashes>>

-------------------------------------------------------------------------------
(* What a getsz() and an operation do to each other between a seek and its read
   or write.  getsz() reads where the operation has left the file, and goes on
   from there, anywhere; what it adds is left out, as nothing compares it. *)
SizeStray ==
  /\ sizing.pos \in DOMAIN file.blocks /\ at # "idle"
  /\ \E pos \in 0 .. Len(file.blocks) :
       sizing' = [sizing EXCEPT !.pos = pos, !.sz = 0, !.astray = TRUE]
  /\ Seek
  /\ UNCHANGED <<len, hdr, at, op, live, crashes>>

(* read() reads the block that getsz() has sought, and goes on from there; what it
   has handed on is left out, too.  Bound: once in a read(). *)
StrayRead ==
  /\ sizing.pos \in DOMAIN file.blocks
  /\ at = "read" /\ ~op.astray /\ op.pos \in DOMAIN file.blocks
  /\ LET block == file.blocks[sizing.pos]
     IN op' = [Pushed(op, block.data) EXCEPT !.pos = block.next, !.out = <<>>,
                                             !.astray = TRUE]
  /\ Seek
  /\ UNCHANGED <<len, hdr, at, sizing, live, crashes>>

(* Bound: what comes after the others is not followed: a file that is spoilt, or
   a header or a length in memory. *)
Spoilt ==
  /\ at' = "spoilt" /\ op' = NoOp /\ sizing' = NotSizing
  /\ UNCHANGED <<live, crashes>>

(* A write hits the block that getsz() has sought; or, when that has read its
   header, the rest of the block and the next.  Blank is for any rubbish. *)
Hit(block) ==
  \/ PutBlock(sizing.pos, block)
  \/ Put([file EXCEPT !.blocks = [i \in DOMAIN @ |->
            IF i \in {sizing.pos, sizing.pos + 1} THEN Blank ELSE @[i]]])

StrayWrite ==
  /\ sizing.pos \in DOMAIN file.blocks
  /\ \/ at = "get" /\ hdr.garbage = 0 /\ Hit(Blank)
     \/ at = "fill" /\ Hit([data |-> Chunk(op.rest), next |-> op.next])
     \/ at = "walk" /\ Hit([file.blocks[sizing.pos] EXCEPT !.next = hdr.garbage])
     \/ at \in {"header", "save"} /\ Hit(Blank)
  /\ Spoilt /\ UNCHANGED <<len, hdr>>

(* get_block() takes the header of getsz()'s block for that of the garbage: what
   comes after it will be overwritten. *)
StrayReuse ==
  /\ sizing.pos \in DOMAIN file.blocks /\ at = "get" /\ hdr.garbage # 0
  /\ hdr' = [hdr EXCEPT !.garbage = file.blocks[sizing.pos].next]
  /\ Seek /\ Spoilt /\ UNCHANGED len

(* recycle() takes it for its own: it walks on along that blob, whose last block
   then points to the garbage. *)
StrayWalk ==
  /\ sizing.pos \in DOMAIN file.blocks /\ at = "walk"
  /\ \E last \in IF file.blocks[sizing.pos].next = 0 THEN {op.pos}
                  ELSE Blocks(file, file.blocks[sizing.pos].next) \cap DOMAIN file.blocks :
       /\ file.blocks[last].next = 0 \/ last = op.pos
       /\ PutBlock(last, [file.blocks[last] EXCEPT !.next = hdr.garbage])
  /\ hdr' = [hdr EXCEPT !.garbage = op.first]
  /\ Spoilt /\ UNCHANGED len

(* The first size() after open() takes getsz()'s place for the end of the file,
   and DAR remembers it. *)
StrayLength ==
  /\ sizing.pos \in DOMAIN file.blocks /\ at = "idle" /\ len = Unknown
  /\ len' = sizing.pos - 1
  /\ Seek /\ Spoilt /\ UNCHANGED hdr

(* A blob that leads to garbage is recycled again, by mistake or because a crash cut
   it short: the garbage becomes a circle. *)
RecycleAgain(id) ==
  /\ at = "idle" /\ id \in DOMAIN file.blocks /\ Blocks(file, id) \cap Garbage # {}
  /\ \E last \in Garbage :
       /\ file.blocks[last].next = 0
       /\ PutBlock(last, [file.blocks[last] EXCEPT !.next = hdr.garbage])
  /\ hdr' = [garbage |-> id, recycled |-> hdr.recycled + Cardinality(Blocks(file, id))]
  /\ Spoilt /\ UNCHANGED len

Misuse ==
  \/ StrayWrite \/ StrayReuse \/ StrayWalk \/ StrayLength
  \/ \E id \in Ids : RecycleAgain(id)

-------------------------------------------------------------------------------
(* close(), create(), which leaves the header with stdio, and open(), which reads
   one; and the process ends anywhere. *)
Close ==
  /\ at = "idle" /\ sizing = NotSizing
  /\ disk' = file /\ len' = Unknown
  /\ at' = "closed"
  /\ UNCHANGED <<file, hdr, op, sizing, live, crashes>>

Create ==
  /\ at = "closed"
  /\ file' = NewFile /\ disk' = EmptyFile /\ hdr' = NewHeader
  /\ live' = NoBlobs
  /\ at' = "idle"
  /\ UNCHANGED <<len, op, sizing, crashes>>

Open ==
  /\ at = "closed" /\ file.made
  /\ hdr' = file.hdr
  /\ at' = "idle"
  /\ UNCHANGED <<file, disk, len, op, sizing, live, crashes>>

Crash ==
  /\ crashes < MaxCrashes /\ at # "spoilt"
  /\ file' = disk /\ len' = Unknown
  /\ at' = "closed" /\ op' = NoOp /\ sizing' = NotSizing
  /\ crashes' = crashes + 1
  /\ UNCHANGED <<disk, hdr, live>>

Operation ==
  \/ \E c \in Contents : Write(c)
  \/ \E id \in Ids : Recycle(id) \/ GetSize(id) \/ \E max \in Buffers : Read(id, max)
  \/ Close \/ Create \/ Open \/ Crash

Step ==
  \/ Reuse \/ AppendBlock \/ Fill \/ WriteHeader \/ Flush \/ Walk \/ Save
  \/ ReadBlock \/ ReadEnds

Size == SizeBlock \/ SizeEnds

Stray == SizeStray \/ StrayRead

Next == Operation \/ Step \/ Size \/ Stray \/ Misuse

Spec == Init /\ [][Next]_vars

(* An operation that has begun goes on, and so does a getsz(). *)
FairSpec == Spec /\ WF_vars(Step) /\ WF_vars(Size)

-------------------------------------------------------------------------------
(* The data of the blocks from one on. *)
Stored(f, id) ==
  LET chain == Chain(f, id)
      upTo[n \in 0 .. MaxBlocks] ==
        IF n = 0 THEN <<>>
        ELSE IF chain[n] = 0 THEN upTo[n - 1]
        ELSE upTo[n - 1] \o f.blocks[chain[n]].data
  IN upTo[MaxBlocks]

(***************************************************************************)
(* The file implements BlobStore, what is on the disk counts: a blob that     *)
(* write() returned is there after a crash, and no other operation changes    *)
(* it, getsz() at any time included, unless a getsz() falls between the seek  *)
(* and the write of another operation, or garbage is recycled (Misuse).       *)
(***************************************************************************)
Promise ==
  INSTANCE BlobStore WITH
    blobs <- [id \in DOMAIN live |-> Stored(disk, id)],
    writing <- IF at \in {"get", "fill", "header", "flush"} THEN op.given ELSE <<>>,
    misused <- at = "spoilt"

KeepsPromise == Promise!Spec

(***************************************************************************)
(* No block is in two blobs, or in one and in the garbage, or twice there;    *)
(* and without crashes each is in one of them, and recycle_sz counts the      *)
(* garbage.                                                                *)
(***************************************************************************)
OwnBlocks ==
  at = "idle" =>
    /\ \A id \in DOMAIN live :
         /\ Blocks(file, id) \cap Garbage = {}
         /\ \A j \in DOMAIN live \ {id} : Blocks(file, id) \cap Blocks(file, j) = {}
    /\ crashes = 0 =>
         /\ Garbage \cup UNION {Blocks(file, id) : id \in DOMAIN live} = DOMAIN file.blocks
         /\ hdr.recycled = Cardinality(Garbage)

(***************************************************************************)
(* What read() has handed to its callback, in as many buffers as it takes, is *)
(* the blob, also when the file has grown since its length was asked for; and  *)
(* getsz() is the length of the blob.  Only a read() or getsz() between whose  *)
(* own seek and read another came is wrong: none before it, none after it and  *)
(* not the other; and the buffer is never overrun even then.                  *)
(***************************************************************************)
ReadsWhole ==
  /\ at = "read" => Len(op.buf) < op.max
  /\ at = "read" /\ op.pos \notin DOMAIN file.blocks /\ ~op.astray =>
       op.out \o op.buf = IF op.first \in DOMAIN live THEN live[op.first] ELSE <<>>
  /\ sizing.id \in DOMAIN live /\ sizing.pos \notin DOMAIN file.blocks /\ ~sizing.astray =>
       sizing.sz = Len(live[sizing.id])

(***************************************************************************)
(* Operations end: no chain is a circle, whatever was written when the        *)
(* process ended and whatever a read() was led to by a getsz().               *)
(***************************************************************************)
OperationsEnd == at # "idle" ~> at \in {"idle", "closed", "spoilt"}
===============================================================================
