----------------------------- MODULE ContentsProofs -----------------------------
(***************************************************************************)
(* What byte buffers, files on disk, strings, lists of arguments and ini files  *)
(* keep true, for any sizes, bytes, characters, texts, numbers, names, values    *)
(* and threads.                                                             *)
(***************************************************************************)
EXTENDS ByteBuffer, DiskFiles, GOStrings, Arguments, IniFiles,
        SequenceFacts, FiniteSetTheorems, FunctionTheorems, TLAPS

-------------------------------------------------------------------------------
(***************************************************************************)
(* Byte buffers.  Until somebody else uses the buffer one thread at most is in  *)
(* append(), and what it found room for still fits when it is copied.          *)
(***************************************************************************)
BufferInv ==
  /\ used \in Nat /\ size \in Nat /\ (size = InitSize \/ size <= MaxBuffer)
  /\ \A t \in DOMAIN appending : appending[t] \in [n : Nat, fits : BOOLEAN]
  /\ "shared" \notin bufferOdd =>
       /\ used <= size /\ {"beyond", "lost"} \cap bufferOdd = {}
       /\ \A t \in DOMAIN appending : /\ DOMAIN appending = {t}
                                      /\ appending[t].fits => used + appending[t].n < size

LEMMA BufferSizes == InitSize \in Nat /\ IncSize \in Nat /\ IncSize > 0 /\ MaxBuffer \in Nat
BY BufferAssumption

LEMMA RoomIs ==
  ASSUME size \in Nat
  PROVE  /\ Room \in Nat
         /\ \A k \in Nat : k <= Room => k = 0 \/ size + k * IncSize <= MaxBuffer
<1>1. CASE size > MaxBuffer
  <2>1. Room = 0
    BY <1>1 DEF Room
  <2> QED
    BY <2>1
<1>2. CASE ~(size > MaxBuffer)
  <2>1. PICK gap \in Nat : gap = MaxBuffer - size
    BY <1>2, BufferSizes
  <2>2. Room = gap \div IncSize
    BY <1>2, <2>1 DEF Room
  <2>3. gap \div IncSize \in Nat /\ gap % IncSize \in Nat /\ gap = IncSize * (gap \div IncSize) + (gap % IncSize)
    BY BufferSizes
  <2>4. PICK room \in Nat : room = Room
    BY <2>2, <2>3
  <2>5. IncSize * room <= gap
    BY <2>2, <2>3, <2>4, BufferSizes
  <2>6. ASSUME NEW k \in Nat, k <= room
        PROVE  size + k * IncSize <= MaxBuffer
    <3>1. (room - k) * IncSize >= 0
      BY <2>6, BufferSizes
    <3>2. (room - k) * IncSize = IncSize * room - k * IncSize
      BY BufferSizes
    <3>3. k * IncSize \in Int /\ IncSize * room \in Int
      BY BufferSizes
    <3> QED
      BY <2>1, <2>5, <3>1, <3>2, <3>3, BufferSizes
  <2> QED
    BY <2>4, <2>6
<1> QED
  BY <1>1, <1>2, BufferSizes

LEMMA BufferInvInit == BufferInit => BufferInv
BY BufferSizes DEF BufferInit, BufferInv

LEMMA BufferInvGives == BufferInv => BufferFits
BY DEF BufferInv, BufferFits

(* What is known of a thread in append(), and when it is alone. *)
LEMMA AppenderIs ==
  ASSUME BufferInv, NEW t \in DOMAIN appending
  PROVE  /\ appending[t] = [n |-> appending[t].n, fits |-> appending[t].fits]
         /\ appending[t].n \in Nat /\ appending[t].fits \in BOOLEAN
         /\ "shared" \notin bufferOdd =>
              DOMAIN appending = {t} /\ (appending[t].fits => used + appending[t].n < size)
<1>1. appending[t] \in [n : Nat, fits : BOOLEAN]
  BY DEF BufferInv
<1>2. "shared" \notin bufferOdd =>
        DOMAIN appending = {t} /\ (appending[t].fits => used + appending[t].n < size)
  BY DEF BufferInv
<1> QED
  BY <1>1, <1>2

LEMMA BufferAppendKeeps ==
  ASSUME BufferInv, NEW t, NEW n \in Nat, BufferAppend(t, n)
  PROVE  BufferInv'
<1>1. /\ t \notin DOMAIN appending /\ DOMAIN appending' = DOMAIN appending \cup {t}
      /\ appending'[t] = [n |-> n, fits |-> FALSE]
      /\ \A u \in DOMAIN appending : appending'[u] = appending[u]
      /\ used' = used /\ size' = size /\ bufferOdd' = bufferOdd \cup Shared(t)
  BY DEF BufferAppend
<1>2. \A u \in DOMAIN appending' : appending'[u] \in [n : Nat, fits : BOOLEAN]
  <2>1. \A u \in DOMAIN appending : appending[u] \in [n : Nat, fits : BOOLEAN]
    BY DEF BufferInv
  <2>2. [n |-> n, fits |-> FALSE] \in [n : Nat, fits : BOOLEAN]
    OBVIOUS
  <2> QED
    BY <1>1, <2>1, <2>2
<1>3. ASSUME "shared" \notin bufferOdd'
      PROVE  "shared" \notin bufferOdd /\ DOMAIN appending = {} /\ bufferOdd' = bufferOdd
  <2>1. Shared(t) = {}
    BY <1>1, <1>3 DEF Shared
  <2>2. (DOMAIN appending) \ {t} = {}
    BY <1>1, <1>3 DEF Shared
  <2> QED
    BY <1>1, <1>3, <2>1, <2>2
<1>4. "shared" \notin bufferOdd' => DOMAIN appending' = {t} /\ ~appending'[t].fits
  BY <1>1, <1>3
<1> QED
  BY <1>1, <1>2, <1>3, <1>4 DEF BufferInv

(* The buffer grows, or holds less, while whoever is in append() has his room. *)
LEMMA RoomierKeeps ==
  ASSUME BufferInv, appending' = appending, used' \in Nat, used' <= used,
         size' \in Nat, size <= size', size' = InitSize \/ size' <= MaxBuffer,
         NEW odd, bufferOdd' = bufferOdd \cup odd, "shared" \notin bufferOdd \cup odd => {"lost", "beyond"} \cap odd = {}
  PROVE  BufferInv'
BY DEF BufferInv

LEMMA IncreaseKeeps ==
  ASSUME BufferInv, NEW t, Increase(t)
  PROVE  BufferInv'
<1>1. t \in DOMAIN appending /\ ~appending[t].fits /\ used' = used
  BY DEF Increase
<1>2. CASE ~Full(appending[t].n)
  <2>1. /\ DOMAIN appending' = DOMAIN appending /\ size' = size /\ bufferOdd' = bufferOdd
        /\ appending'[t] = [n |-> appending[t].n, fits |-> TRUE]
        /\ \A u \in DOMAIN appending : u # t => appending'[u] = appending[u]
    BY <1>1, <1>2 DEF Increase, BufferInv
  <2>2. used + appending[t].n < size /\ appending[t].n \in Nat
    BY <1>1, <1>2, AppenderIs DEF Full, BufferInv
  <2>3. \A u \in DOMAIN appending' : appending'[u] \in [n : Nat, fits : BOOLEAN]
    <3>1. \A u \in DOMAIN appending : appending[u] \in [n : Nat, fits : BOOLEAN]
      BY DEF BufferInv
    <3>2. [n |-> appending[t].n, fits |-> TRUE] \in [n : Nat, fits : BOOLEAN]
      BY <2>2
    <3> QED
      BY <2>1, <3>1, <3>2
  <2>4. appending'[t].n = appending[t].n
    BY <2>1
  <2>5. ASSUME "shared" \notin bufferOdd'
        PROVE  DOMAIN appending' = {t} /\ used' + appending'[t].n < size'
    BY <1>1, <2>1, <2>2, <2>4, <2>5, AppenderIs
  <2>6. ASSUME "shared" \notin bufferOdd'
        PROVE  used' <= size' /\ {"beyond", "lost"} \cap bufferOdd' = {}
    BY <1>1, <2>1, <2>6 DEF BufferInv
  <2>7. used' \in Nat /\ size' \in Nat /\ (size' = InitSize \/ size' <= MaxBuffer)
    BY <1>1, <2>1 DEF BufferInv
  <2> QED
    BY <2>3, <2>5, <2>6, <2>7 DEF BufferInv
<1>3. CASE Full(appending[t].n) /\ Room = 0
  <2>1. /\ DOMAIN appending' = (DOMAIN appending) \ {t} /\ size' = size /\ bufferOdd' = bufferOdd
        /\ \A u \in DOMAIN appending' : appending'[u] = appending[u]
    BY <1>3 DEF Increase, Leave
  <2> QED
    BY <1>1, <2>1 DEF BufferInv
<1>4. CASE Full(appending[t].n) /\ Room # 0
  <2>1. PICK lost \in MayLose(t) : bufferOdd' = bufferOdd \cup lost
    BY <1>4 DEF Increase
  <2>2. size' = size + IncSize /\ appending' = appending
    BY <1>4 DEF Increase
  <2>3. size + IncSize <= MaxBuffer
    <3>1. size + 1 * IncSize <= MaxBuffer
      <4>1. Room \in Nat /\ \A k \in Nat : k <= Room => k = 0 \/ size + k * IncSize <= MaxBuffer
        BY RoomIs DEF BufferInv
      <4>2. 1 <= Room
        BY <1>4, <4>1
      <4> QED
        BY <4>1, <4>2
    <3> QED
      BY <3>1, BufferSizes
  <2>4. lost \in {{}, {"lost"}} /\ ("shared" \notin bufferOdd => lost = {})
    BY <1>1 DEF MayLose, BufferInv
  <2>5. size \in Nat /\ used \in Nat /\ size' \in Nat /\ size < size'
    BY <2>2, BufferSizes DEF BufferInv
  <2> QED
    <3>1. used' \in Nat /\ used' <= used /\ size <= size' /\ size' <= MaxBuffer
      BY <1>1, <2>2, <2>3, <2>5
    <3>2. "shared" \notin bufferOdd \cup lost => {"lost", "beyond"} \cap lost = {}
      BY <2>4
    <3> QED
      BY <2>1, <2>2, <2>5, <3>1, <3>2, RoomierKeeps
<1> QED
  BY <1>2, <1>3, <1>4

LEMMA CopyKeeps ==
  ASSUME BufferInv, NEW t, Copy(t)
  PROVE  BufferInv'
<1>1. /\ t \in DOMAIN appending /\ appending[t].fits /\ used' = used + appending[t].n /\ size' = size
      /\ bufferOdd' = bufferOdd \cup (IF used' > size THEN {"beyond"} ELSE {})
      /\ DOMAIN appending' = (DOMAIN appending) \ {t}
      /\ \A u \in DOMAIN appending' : appending'[u] = appending[u]
  BY DEF Copy, Leave
<1>2. used' \in Nat
  BY <1>1, AppenderIs DEF BufferInv
<1>3. ASSUME "shared" \notin bufferOdd'
      PROVE  "shared" \notin bufferOdd /\ used' < size /\ DOMAIN appending' = {} /\ bufferOdd' = bufferOdd
  <2>1. "shared" \notin bufferOdd
    BY <1>1, <1>3
  <2>2. used' < size /\ DOMAIN appending = {t}
    BY <1>1, <2>1, AppenderIs
  <2>3. ~(used' > size)
    BY <1>2, <2>2 DEF BufferInv
  <2> QED
    BY <1>1, <2>1, <2>2, <2>3
<1> QED
  BY <1>1, <1>2, <1>3 DEF BufferInv

LEMMA ReserveKeeps ==
  ASSUME BufferInv, NEW n \in Nat, Reserve(n)
  PROVE  BufferInv'
<1>1. PICK lost : lost \in MayLose("") /\ bufferOdd' = bufferOdd \cup Shared("") \cup lost
  BY DEF Reserve, MayLose
<1>2. PICK odd : odd = Shared("") \cup lost
  OBVIOUS
<1>3. "shared" \notin odd => {"lost", "beyond"} \cap odd = {}
  BY <1>1, <1>2 DEF Shared, MayLose
<1>4. /\ Room \in Nat
      /\ \A k \in Nat : k <= Room => k = 0 \/ size + k * IncSize <= MaxBuffer
  BY RoomIs DEF BufferInv
<1>5. PICK k : k = Increases(n)
  OBVIOUS
<1>6. k \in Nat /\ k <= Room
  <2>1. PICK needed : needed = IF Full(n) THEN (used + n - size) \div IncSize + 1 ELSE 0
    OBVIOUS
  <2>2. needed \in Nat
    <3>1. Full(n) => used + n - size \in Nat
      BY DEF Full, BufferInv
    <3>2. \A m \in Nat : m \div IncSize \in Nat
      BY BufferSizes
    <3> QED
      BY <2>1, <3>1, <3>2
  <2>3. k = IF needed < Room THEN needed ELSE Room
    BY <1>5, <2>1 DEF Increases
  <2> QED
    BY <1>4, <2>2, <2>3
<1>7. size' = size + k * IncSize /\ used' = used /\ appending' = appending
  BY <1>5 DEF Reserve
<1>8. size \in Nat /\ k * IncSize \in Nat
  BY <1>6, BufferSizes DEF BufferInv
<1>9. k = 0 => size' = size
  BY <1>7, <1>8, BufferSizes
<1>10. size' \in Nat /\ size <= size' /\ (size' = InitSize \/ size' <= MaxBuffer)
  BY <1>4, <1>6, <1>7, <1>8, <1>9 DEF BufferInv
<1>11. used' \in Nat /\ used' <= used
  BY <1>7 DEF BufferInv
<1>12. bufferOdd' = bufferOdd \cup odd
  BY <1>1, <1>2
<1> QED
  BY <1>3, <1>7, <1>10, <1>11, <1>12, RoomierKeeps

LEMMA BufferShiftKeeps ==
  ASSUME BufferInv, NEW n \in Nat, BufferShift(n)
  PROVE  BufferInv'
<1>1. PICK m : m = IF n < used THEN n ELSE used
  OBVIOUS
<1>2. m \in Nat /\ m <= used /\ used \in Nat
  BY <1>1 DEF BufferInv
<1>3. used' = used - m /\ size' = size /\ appending' = appending
  BY <1>1 DEF BufferShift
<1>0. \E lost \in MayLose(""), smeared \in {{}} \cup (IF used - m > m THEN {{"smeared"}} ELSE {}) :
        bufferOdd' = bufferOdd \cup Shared("") \cup lost \cup smeared
  BY <1>1 DEF BufferShift
<1>4. PICK lost : lost \in MayLose("") /\
        \E smeared \in {{}} \cup (IF used - m > m THEN {{"smeared"}} ELSE {}) :
          bufferOdd' = bufferOdd \cup Shared("") \cup lost \cup smeared
  BY <1>0
<1>5. PICK smeared : smeared \in {{}, {"smeared"}} /\ bufferOdd' = bufferOdd \cup Shared("") \cup lost \cup smeared
  BY <1>4
<1>6. PICK odd : odd = Shared("") \cup lost \cup smeared
  OBVIOUS
<1>7. "shared" \notin odd => {"lost", "beyond"} \cap odd = {}
  BY <1>4, <1>5, <1>6 DEF Shared, MayLose
<1>8. bufferOdd' = bufferOdd \cup odd
  BY <1>5, <1>6
<1>9. used' \in Nat /\ used' <= used
  BY <1>2, <1>3
<1>10. size' \in Nat /\ size <= size' /\ (size' = InitSize \/ size' <= MaxBuffer)
  BY <1>3 DEF BufferInv
<1> QED
  BY <1>3, <1>7, <1>8, <1>9, <1>10, RoomierKeeps

LEMMA BufferInvStep == BufferInv /\ [BufferNext]_bufferVars => BufferInv'
<1> SUFFICES ASSUME BufferInv, [BufferNext]_bufferVars PROVE BufferInv'
  OBVIOUS
<1>1. \A n \in Lengths : n \in Nat
  BY BufferAssumption
<1>2. ASSUME NEW t \in Appenders,
             (\E n \in Lengths : BufferAppend(t, n)) \/ Increase(t) \/ Copy(t)
      PROVE  BufferInv'
  BY <1>1, <1>2, BufferAppendKeeps, IncreaseKeeps, CopyKeeps
<1>3. ASSUME NEW n \in Lengths, Reserve(n) \/ BufferShift(n)
      PROVE  BufferInv'
  BY <1>1, <1>3, ReserveKeeps, BufferShiftKeeps
<1>4. CASE UNCHANGED bufferVars
  BY <1>4 DEF bufferVars, BufferInv
<1> QED
  BY <1>2, <1>3, <1>4 DEF BufferNext

-------------------------------------------------------------------------------
(***************************************************************************)
(* Files on disk.  As long as readWhile() has put no byte back the file is what *)
(* was written, and what is known of its length is right while it is open.      *)
(***************************************************************************)
DiskBytes == FileBytes \cup {Zero, EofByte, "none"}

FileInv ==
  /\ disk \in Seq(DiskBytes)
  /\ stream # NoStream => /\ stream = [mode |-> stream.mode, pos |-> stream.pos, ended |-> stream.ended]
                          /\ stream.pos \in Nat
  /\ ~fileOdd =>
       /\ disk = meant
       /\ stream # NoStream /\ len # -1 => len = Len(disk)
       /\ answer.ok => answer.bytes = SubSeq(meant, answer.at + 1, answer.at + Len(answer.bytes))

(* The first element of a kind. *)
LEMMA LeastIndex ==
  ASSUME NEW T, T \subseteq Nat
  PROVE  (IF T # {} THEN Min(T) ELSE 0) \in T \cup {0}
<1>1. CASE T # {}
  BY <1>1, LeastNumber DEF Min
<1> QED
  BY <1>1

(* What is read from a position is what is there. *)
LEMMA ReadFrom ==
  ASSUME NEW S, NEW s \in Seq(S), NEW p \in Nat,
         NEW rest, rest = SubSeq(s, p + 1, Len(s)),
         NEW k \in 0 .. Len(rest)
  PROVE  /\ rest \in Seq(S) /\ Len(rest) \in Nat
         /\ Len(SubSeq(rest, 1, k)) = k
         /\ SubSeq(rest, 1, k) = SubSeq(s, p + 1, p + k)
<1>1. Len(s) \in Nat
  BY LenProperties
<1>2. rest \in Seq(S) /\ Len(rest) = IF p + 1 <= Len(s) THEN Len(s) - p ELSE 0
  <2>1. CASE p + 1 <= Len(s)
    <3>1. rest \in Seq(S) /\ Len(rest) = Len(s) - (p + 1) + 1
      BY <1>1, <2>1, Subsequence
    <3> QED
      BY <1>1, <2>1, <3>1
  <2>2. CASE ~(p + 1 <= Len(s))
    <3>1. rest = <<>>
      BY <1>1, <2>2, SubSeqEmpty
    <3> QED
      BY <2>2, <3>1, EmptySeq
  <2> QED
    BY <2>1, <2>2
<1>3. k \in Nat /\ Len(rest) \in Nat /\ k <= Len(rest)
  BY <1>1, <1>2
<1>4. CASE k = 0
  <2>1. SubSeq(rest, 1, k) = <<>> /\ SubSeq(s, p + 1, p + k) = <<>>
    BY <1>4, SubSeqEmpty
  <2> QED
    BY <1>2, <1>3, <1>4, <2>1, EmptySeq
<1>5. CASE k # 0
  <2>1. p + 1 <= Len(s) /\ Len(rest) = Len(s) - p
    BY <1>2, <1>3, <1>5
  <2>2. SubSeq(SubSeq(s, p + 1, Len(s)), 1, k) = SubSeq(s, p + 1 + 1 - 1, p + 1 + k - 1)
    <3>1. p + 1 \in 1 .. Len(s) /\ Len(s) \in 1 .. Len(s)
      BY <1>1, <2>1
    <3>2. 1 \in 1 .. Len(s) - (p + 1) + 1 /\ k \in 1 .. Len(s) - (p + 1) + 1
      BY <1>1, <1>3, <1>5, <2>1
    <3> QED
      BY <3>1, <3>2, SubSeqOfSubSeq
  <2>3. p + 1 + 1 - 1 = p + 1 /\ p + 1 + k - 1 = p + k
    BY <1>3
  <2>4. Len(SubSeq(rest, 1, k)) = k - 1 + 1
    BY <1>2, <1>3, Subsequence
  <2> QED
    BY <1>2, <1>3, <2>2, <2>3, <2>4
<1> QED
  BY <1>4, <1>5

LEMMA OverwrittenIs ==
  ASSUME NEW s \in Seq(DiskBytes), NEW p \in Nat, NEW b \in Seq(DiskBytes)
  PROVE  /\ Overwritten(s, p, b) \in Seq(DiskBytes)
         /\ Len(Overwritten(s, p, b)) = Higher(Len(s), p + Len(b))
<1>1. Len(s) \in Nat /\ Len(b) \in Nat
  BY LenProperties
<1>2. PICK n \in Nat : n = Higher(Len(s), p + Len(b))
  BY <1>1 DEF Higher
<1>3. PICK f : f = Overwritten(s, p, b)
  OBVIOUS
<1>4. /\ DOMAIN f = 1 .. n
      /\ \A i \in 1 .. n : f[i] = IF i \in p + 1 .. p + Len(b) THEN b[i - p]
                                  ELSE IF i <= Len(s) THEN s[i] ELSE Zero
  BY <1>2, <1>3 DEF Overwritten
<1>5. ASSUME NEW i \in 1 .. n PROVE f[i] \in DiskBytes
  <2>1. CASE i \in p + 1 .. p + Len(b)
    <3>1. i - p \in 1 .. Len(b)
      BY <1>1, <2>1
    <3> QED
      BY <1>4, <2>1, <3>1, ElementOfSeq
  <2>2. CASE i \notin p + 1 .. p + Len(b) /\ i <= Len(s)
    <3>1. i \in 1 .. Len(s)
      BY <1>1, <2>2
    <3> QED
      BY <1>4, <2>2, <3>1, ElementOfSeq
  <2>3. CASE i \notin p + 1 .. p + Len(b) /\ ~(i <= Len(s))
    BY <1>4, <2>3 DEF DiskBytes
  <2> QED
    BY <2>1, <2>2, <2>3
<1>6. f \in [1 .. n -> DiskBytes]
  <2>1. f = [i \in 1 .. n |-> f[i]]
    BY <1>2, <1>3 DEF Overwritten
  <2> QED
    BY <1>5, <2>1
<1>7. f \in Seq(DiskBytes) /\ Len(f) = n
  BY <1>6
<1> QED
  BY <1>2, <1>3, <1>7

LEMMA FileInvInit == FileInit => FileInv
<1> SUFFICES ASSUME FileInit PROVE FileInv
  OBVIOUS
<1>1. disk \in Seq(DiskBytes)
  <2>1. "none" \in DiskBytes
    BY DEF DiskBytes
  <2> QED
    BY <2>1 DEF FileInit, NoFile
<1> QED
  BY <1>1 DEF FileInit, FileInv, NoAnswer

LEMMA FileInvGives == FileInv => FileRight
BY DEF FileInv, FileRight

LEMMA FileInvStep == FileInv /\ [FileNext]_fileVars => FileInv'
<1> SUFFICES ASSUME FileInv, [FileNext]_fileVars PROVE FileInv'
  OBVIOUS
<1>0. /\ <<>> \in Seq(DiskBytes) /\ NoFile \in Seq(DiskBytes)
  <2>1. "none" \in DiskBytes
    BY DEF DiskBytes
  <2> QED
    BY <2>1, EmptySeq DEF NoFile
<1>1. ASSUME NEW mode, Open(mode) PROVE FileInv'
  <2>1. /\ len' = -1 /\ ~answer'.ok
        /\ stream' = NoStream \/ stream' = [mode |-> mode, pos |-> 0, ended |-> FALSE]
        /\ \/ disk' = disk /\ meant' = meant /\ fileOdd' = fileOdd
           \/ disk' = <<>> /\ meant' = <<>>
    BY <1>1 DEF Open, NoAnswer
  <2>2. disk' \in Seq(DiskBytes)
    BY <1>0, <2>1 DEF FileInv
  <2>3. ~fileOdd' => disk' = meant'
    BY <2>1 DEF FileInv
  <2>4. stream' # NoStream =>
          /\ stream' = [mode |-> stream'.mode, pos |-> stream'.pos, ended |-> stream'.ended]
          /\ stream'.pos \in Nat
    BY <2>1
  <2> QED
    BY <2>1, <2>2, <2>3, <2>4 DEF FileInv
<1>2. CASE CloseFile
  BY <1>2 DEF CloseFile, FileInv, NoAnswer
<1>3. CASE RemoveFile
  BY <1>0, <1>3 DEF RemoveFile, FileInv, NoAnswer
<1>4. CASE stream # NoStream /\ LengthOfFile
  <2>1. /\ stream'.pos = stream.pos /\ len' = IF len # -1 THEN len ELSE Len(disk)
        /\ stream' = [mode |-> stream'.mode, pos |-> stream'.pos, ended |-> stream'.ended]
        /\ ~answer'.ok /\ disk' = disk /\ meant' = meant /\ fileOdd' = fileOdd
    BY <1>4 DEF LengthOfFile, NoAnswer, FileInv
  <2> QED
    BY <1>4, <2>1 DEF FileInv
<1>5. ASSUME NEW n \in 1 .. Chunk + 1, stream # NoStream, ReadFile(n)
      PROVE  FileInv'
  <2>1. PICK rest : rest = Rest
    OBVIOUS
  <2>2. PICK taken : taken = IF stream.ended THEN 0 ELSE Lower(n, Len(rest))
    OBVIOUS
  <2>3. PICK s \in Seq(DiskBytes) : s = disk
    BY DEF FileInv
  <2>4. PICK p \in Nat : p = stream.pos
    BY <1>5 DEF FileInv
  <2>5. n \in Nat /\ n > 0
    BY FileAssumption
  <2>6. rest = SubSeq(s, p + 1, Len(s))
    BY <2>1, <2>3, <2>4 DEF Rest
  <2>7. Len(rest) \in Nat
    <3>1. 0 \in 0 .. Len(SubSeq(s, p + 1, Len(s)))
      BY LenProperties
    <3> QED
      BY <2>6, LenProperties
  <2>8. taken \in 0 .. Len(rest) /\ taken \in Nat
    BY <2>2, <2>5, <2>7 DEF Lower
  <2>9. Len(SubSeq(rest, 1, taken)) = taken /\ SubSeq(rest, 1, taken) = SubSeq(s, p + 1, p + taken)
    BY <2>6, <2>8, ReadFrom
  <2>10. /\ stream' = [mode |-> stream'.mode, pos |-> p + taken, ended |-> stream'.ended]
         /\ answer'.at = p /\ answer'.bytes = SubSeq(rest, 1, taken)
         /\ disk' = disk /\ len' = len /\ meant' = meant /\ fileOdd' = fileOdd
    BY <1>5, <2>1, <2>2, <2>4 DEF ReadFile, FileInv
  <2>11. stream'.pos \in Nat
    BY <2>8, <2>10
  <2>12. ~fileOdd => answer'.bytes = SubSeq(meant, answer'.at + 1, answer'.at + Len(answer'.bytes))
    BY <2>3, <2>9, <2>10 DEF FileInv
  <2> QED
    BY <1>5, <2>10, <2>11, <2>12 DEF FileInv
<1>6. ASSUME NEW n \in 1 .. Chunk + 1, stream # NoStream, ReadUntil(n - 1)
      PROVE  FileInv'
  <2>1. PICK rest : rest = Rest
    OBVIOUS
  <2>3. PICK s \in Seq(DiskBytes) : s = disk
    BY DEF FileInv
  <2>4. PICK p \in Nat : p = stream.pos
    BY <1>6 DEF FileInv
  <2>5. n - 1 \in Nat
    BY FileAssumption
  <2>6. rest = SubSeq(s, p + 1, Len(s))
    BY <2>1, <2>3, <2>4 DEF Rest
  <2>7. rest \in Seq(DiskBytes) /\ Len(rest) \in Nat
    <3>1. Len(SubSeq(s, p + 1, Len(s))) \in Nat
      BY <2>6, LenProperties
    <3>2. 0 \in 0 .. Len(rest)
      BY <2>6, <3>1
    <3> QED
      BY <2>6, <3>2, ReadFrom
  <2>8. PICK stop \in 0 .. Len(rest) : stop = SelectInSeq(rest, Stops)
    <3>1. PICK I : I = {i \in 1 .. Len(rest) : Stops(rest[i])}
      OBVIOUS
    <3>2. I \subseteq 1 .. Len(rest) /\ I \subseteq Nat
      BY <2>7, <3>1
    <3>3. (IF I # {} THEN Min(I) ELSE 0) \in I \cup {0}
      BY <3>2, LeastIndex
    <3>4. SelectInSeq(rest, Stops) = IF I # {} THEN Min(I) ELSE 0
      BY <3>1 DEF SelectInSeq
    <3>5. PICK first : first = IF I # {} THEN Min(I) ELSE 0
      OBVIOUS
    <3>6. first \in 0 .. Len(rest)
      <4>1. first \in I \/ first = 0
        BY <3>3, <3>5
      <4>2. first \in I => first \in 1 .. Len(rest)
        BY <3>2
      <4>3. Len(rest) \in Nat
        BY <2>7
      <4> QED
        BY <4>1, <4>2, <4>3
    <3>7. first = SelectInSeq(rest, Stops)
      BY <3>4, <3>5
    <3> QED
      BY <3>6, <3>7
  <2>9. /\ stream'.pos \in Nat /\ stream' = [mode |-> stream'.mode, pos |-> stream'.pos, ended |-> stream'.ended]
        /\ disk' = disk /\ len' = len /\ meant' = meant /\ fileOdd' = fileOdd
    <3>1. stream' = IF stream.ended THEN stream
                    ELSE [stream EXCEPT !.pos = @ + IF stop = 0 THEN Len(rest) ELSE stop,
                                           !.ended = stop = 0]
      BY <1>6, <2>1, <2>8 DEF ReadUntil
    <3>4. disk' = disk /\ len' = len /\ meant' = meant /\ fileOdd' = fileOdd
      BY <1>6 DEF ReadUntil
    <3>2. CASE stream.ended
      BY <1>6, <3>1, <3>2, <3>4 DEF FileInv
    <3>3. CASE ~stream.ended
      <4>1. PICK k \in Nat : k = IF stop = 0 THEN Len(rest) ELSE stop
        BY <2>7
      <4>2. stream' = [mode |-> stream.mode, pos |-> p + k, ended |-> stop = 0]
        BY <1>6, <2>4, <3>1, <3>3, <4>1 DEF FileInv
      <4>3. p + k \in Nat
        OBVIOUS
      <4>4. stream'.pos \in Nat /\ stream' = [mode |-> stream'.mode, pos |-> stream'.pos, ended |-> stream'.ended]
        <5>1. PICK mode, ended : mode = stream.mode /\ ended = (stop = 0)
          OBVIOUS
        <5>2. PICK q \in Nat : q = p + k
          BY <4>3
        <5>3. stream' = [mode |-> mode, pos |-> q, ended |-> ended]
          BY <4>2, <5>1, <5>2
        <5> QED
          BY <5>3
      <4> QED
        BY <3>4, <4>4
    <3> QED
      BY <3>2, <3>3
  <2>10. ASSUME answer'.ok
         PROVE  answer'.bytes = SubSeq(s, answer'.at + 1, answer'.at + Len(answer'.bytes))
    <3>1. ~stream.ended /\ stop # 0
      BY <1>6, <2>1, <2>8, <2>10 DEF ReadUntil
    <3>2. PICK read : read = SubSeq(rest, 1, stop - 1)
      OBVIOUS
    <3>3. answer'.at = p /\ answer'.bytes = SubSeq(read, 1, Lower(n - 1, Len(read)))
      BY <1>6, <2>1, <2>4, <2>8, <3>1, <3>2 DEF ReadUntil
    <3>4. stop - 1 \in 0 .. Len(rest) /\ stop - 1 \in Nat
      BY <2>7, <3>1
    <3>5. read \in Seq(DiskBytes) /\ Len(read) = stop - 1
      <4>1. SubSeq(rest, 1, stop - 1) \in Seq(DiskBytes) /\ Len(SubSeq(rest, 1, stop - 1)) = stop - 1 - 1 + 1
        BY <2>7, <3>4, Subsequence
      <4> QED
        BY <3>2, <3>4, <4>1
    <3>6. PICK k \in 0 .. Len(read) : k = Lower(n - 1, Len(read))
      BY <2>5, <3>4, <3>5 DEF Lower
    <3>7. k \in 0 .. Len(rest) /\ k \in Nat /\ k <= stop - 1
      BY <2>7, <3>4, <3>5
    <3>8. SubSeq(read, 1, k) = SubSeq(rest, 1, k)
      <4>1. read = SubSeq(rest, 0 + 1, stop - 1)
        BY <3>2
      <4>2. CASE k = 0
        BY <4>2, SubSeqEmpty
      <4>3. CASE k # 0
        <5>1. 1 \in 1 .. Len(rest) /\ stop - 1 \in 1 .. Len(rest)
          BY <2>7, <3>4, <3>7, <4>3
        <5>2. 1 \in 1 .. (stop - 1) - 1 + 1 /\ k \in 1 .. (stop - 1) - 1 + 1
          BY <3>4, <3>7, <4>3
        <5>3. SubSeq(SubSeq(rest, 1, stop - 1), 1, k) = SubSeq(rest, 1 + 1 - 1, 1 + k - 1)
          BY <2>7, <5>1, <5>2, SubSeqOfSubSeq
        <5>4. 1 + 1 - 1 = 1 /\ 1 + k - 1 = k
          BY <3>7
        <5> QED
          BY <3>2, <5>3, <5>4
      <4> QED
        BY <4>2, <4>3
    <3>9. Len(SubSeq(rest, 1, k)) = k /\ SubSeq(rest, 1, k) = SubSeq(s, p + 1, p + k)
      BY <2>6, <3>7, ReadFrom
    <3> QED
      BY <3>3, <3>6, <3>8, <3>9
  <2>11. ~fileOdd' /\ answer'.ok =>
           answer'.bytes = SubSeq(meant', answer'.at + 1, answer'.at + Len(answer'.bytes))
    BY <2>3, <2>9, <2>10 DEF FileInv
  <2> QED
    BY <1>6, <2>9, <2>11 DEF FileInv
<1>7. CASE stream # NoStream /\ ReadWhile
  <2>1. PICK other : other = SelectInSeq(Rest, LAMBDA byte : ~Stops(byte))
    OBVIOUS
  <2>2. PICK at : at = stream.pos + IF other = 0 THEN Len(Rest) ELSE other
    OBVIOUS
  <2>3. PICK byte : byte = IF other = 0 THEN EofByte ELSE Rest[other]
    OBVIOUS
  <2>4. /\ IF stream.ended
           THEN UNCHANGED <<stream, disk, fileOdd>>
           ELSE IF ~Writable
           THEN stream' = [stream EXCEPT !.pos = at, !.ended = other = 0] /\ UNCHANGED <<disk, fileOdd>>
           ELSE /\ disk' = Overwritten(disk, at, <<byte>>)
                /\ stream' = [stream EXCEPT !.pos = at + 1, !.ended = other = 0]
                /\ fileOdd' = TRUE
        /\ meant' = disk' /\ answer' = NoAnswer /\ len' = len
    BY <1>7, <2>1, <2>2, <2>3 DEF ReadWhile
  <2>5. PICK s \in Seq(DiskBytes) : s = disk
    BY DEF FileInv
  <2>6. PICK p \in Nat : p = stream.pos
    BY <1>7 DEF FileInv
  <2>7. PICK rest : rest = Rest
    OBVIOUS
  <2>8. rest \in Seq(DiskBytes) /\ Len(rest) \in Nat
    <3>1. rest = SubSeq(s, p + 1, Len(s))
      BY <2>5, <2>6, <2>7 DEF Rest
    <3>2. Len(SubSeq(s, p + 1, Len(s))) \in Nat
      BY LenProperties
    <3>3. 0 \in 0 .. Len(rest)
      BY <3>1, <3>2
    <3> QED
      BY <3>1, <3>3, ReadFrom
  <2>9. other \in 0 .. Len(rest)
    <3>1. PICK I : I = {i \in 1 .. Len(rest) : ~Stops(rest[i])}
      OBVIOUS
    <3>2. (IF I # {} THEN Min(I) ELSE 0) \in I \cup {0}
      BY <2>8, <3>1, LeastIndex
    <3>3. other = IF I # {} THEN Min(I) ELSE 0
      BY <2>1, <2>7, <3>1 DEF SelectInSeq
    <3> QED
      BY <2>8, <3>1, <3>2, <3>3
  <2>10. at \in Nat
    BY <2>2, <2>6, <2>7, <2>8, <2>9
  <2>11. byte \in DiskBytes
    <3>1. CASE other = 0
      BY <2>3, <3>1 DEF DiskBytes
    <3>2. CASE other # 0
      <4>1. other \in 1 .. Len(rest)
        BY <2>8, <2>9, <3>2
      <4> QED
        BY <2>3, <2>7, <2>8, <3>2, <4>1, ElementOfSeq
    <3> QED
      BY <3>1, <3>2
  <2>12. disk' \in Seq(DiskBytes)
    <3>1. <<byte>> \in Seq(DiskBytes)
      BY <2>11
    <3>2. Overwritten(s, at, <<byte>>) \in Seq(DiskBytes)
      BY <2>10, <3>1, OverwrittenIs
    <3> QED
      BY <2>4, <2>5, <3>2
  <2>13. stream' = [mode |-> stream'.mode, pos |-> stream'.pos, ended |-> stream'.ended] /\ stream'.pos \in Nat
    <3>1. CASE stream.ended
      BY <1>7, <2>4, <3>1 DEF FileInv
    <3>2. CASE ~stream.ended
      <4>1. PICK q \in Nat : q = IF Writable THEN at + 1 ELSE at
        BY <2>10
      <4>2. stream' = [stream EXCEPT !.pos = q, !.ended = other = 0]
        BY <2>4, <3>2, <4>1
      <4> QED
        BY <1>7, <4>1, <4>2 DEF FileInv
    <3> QED
      BY <3>1, <3>2
  <2>14. ~fileOdd' => ~fileOdd /\ disk' = disk
    BY <2>4
  <2>15. ~answer'.ok
    BY <2>4 DEF NoAnswer
  <2>16. ~fileOdd' => (stream' # NoStream /\ len' # -1 => len' = Len(disk'))
    BY <1>7, <2>4, <2>14 DEF FileInv
  <2> QED
    BY <2>4, <2>12, <2>13, <2>15, <2>16 DEF FileInv
<1>8. ASSUME NEW b \in Seq(DiskBytes), stream # NoStream, WriteFile(b)
      PROVE  FileInv'
  <2>1. /\ ~answer'.ok /\ fileOdd' = fileOdd
    BY <1>8 DEF WriteFile, NoAnswer
  <2>2. CASE ~Writable
    <3>1. disk' = disk /\ meant' = meant /\ stream' = stream /\ len' = len
      BY <1>8, <2>2 DEF WriteFile
    <3> QED
      BY <2>1, <3>1 DEF FileInv
  <2>3. CASE Writable
    <3>1. /\ disk' = Overwritten(disk, stream.pos, b) /\ meant' = Overwritten(meant, stream.pos, b)
          /\ stream' = [stream EXCEPT !.pos = @ + Len(b)]
          /\ len' = IF len = -1 THEN -1 ELSE Higher(len, stream.pos + Len(b))
      BY <1>8, <2>3 DEF WriteFile
    <3>2. stream.pos \in Nat /\ Len(b) \in Nat
      BY <1>8, LenProperties DEF FileInv
    <3>3. stream' = [mode |-> stream'.mode, pos |-> stream'.pos, ended |-> stream'.ended] /\ stream'.pos \in Nat
      <4>1. PICK q \in Nat : q = stream.pos + Len(b)
        BY <3>2
      <4>2. stream' = [stream EXCEPT !.pos = q]
        BY <3>1, <4>1
      <4> QED
        BY <1>8, <4>1, <4>2 DEF FileInv
    <3>4. /\ Overwritten(disk, stream.pos, b) \in Seq(DiskBytes)
          /\ Len(Overwritten(disk, stream.pos, b)) = Higher(Len(disk), stream.pos + Len(b))
      <4>1. disk \in Seq(DiskBytes)
        BY DEF FileInv
      <4> QED
        BY <3>2, <4>1, OverwrittenIs
    <3>5. ~fileOdd => disk' = meant'
      BY <3>1 DEF FileInv
    <3>6. ~fileOdd /\ len' # -1 => len' = Len(disk')
      BY <1>8, <3>1, <3>4 DEF FileInv
    <3> QED
      BY <2>1, <3>1, <3>3, <3>4, <3>5, <3>6 DEF FileInv
  <2> QED
    BY <2>2, <2>3
<1>9. ASSUME NEW whence, NEW offset \in Int, stream # NoStream, SeekFile(whence, offset)
      PROVE  FileInv'
  <2>1. PICK base : base = IF whence = "SEEK_SET" THEN 0 ELSE IF whence = "SEEK_CUR" THEN stream.pos ELSE Len(disk)
    OBVIOUS
  <2>2. base \in Nat
    BY <1>9, <2>1, LenProperties DEF FileInv
  <2>3. /\ stream' = IF base + offset < 0 THEN stream
                     ELSE [stream EXCEPT !.pos = base + offset, !.ended = FALSE]
        /\ answer' = NoAnswer /\ disk' = disk /\ len' = len /\ meant' = meant /\ fileOdd' = fileOdd
    BY <1>9, <2>1 DEF SeekFile
  <2>4. stream' = [mode |-> stream'.mode, pos |-> stream'.pos, ended |-> stream'.ended] /\ stream'.pos \in Nat
    <3>1. CASE base + offset < 0
      BY <1>9, <2>3, <3>1 DEF FileInv
    <3>2. CASE ~(base + offset < 0)
      <4>1. PICK q \in Nat : q = base + offset
        BY <2>2, <3>2
      <4>2. stream' = [stream EXCEPT !.pos = q, !.ended = FALSE]
        BY <2>3, <3>2, <4>1
      <4> QED
        BY <1>9, <4>1, <4>2 DEF FileInv
    <3> QED
      BY <3>1, <3>2
  <2>5. ~answer'.ok
    BY <2>3 DEF NoAnswer
  <2> QED
    BY <1>9, <2>3, <2>4, <2>5 DEF FileInv
<1>10. CASE UNCHANGED fileVars
  BY <1>10 DEF fileVars, FileInv
<1>11. ASSUME NEW byte \in FileBytes, NEW n \in 1 .. 2
       PROVE  [i \in 1 .. n |-> byte] \in Seq(DiskBytes)
  BY DEF DiskBytes
<1>12. \A offset \in -1 .. 1 : offset \in Int
  OBVIOUS
<1> QED
  BY <1>1, <1>2, <1>3, <1>4, <1>5, <1>6, <1>7, <1>8, <1>9, <1>10, <1>11, <1>12 DEF FileNext

-------------------------------------------------------------------------------
(***************************************************************************)
(* Strings.  Memory holds a text if it begins with its characters and then NUL. *)
(***************************************************************************)
Letters == Chars \cup {NUL}

Holds(mem, t) ==
  /\ mem \in Seq(Letters) /\ Len(mem) > Len(t) /\ mem[Len(t) + 1] = NUL
  /\ \A i \in 1 .. Len(t) : mem[i] = t[i]

StringInv ==
  strOdd = {} =>
    /\ ideal \in Seq(Chars) /\ sz = Len(ideal) /\ strSeen = ideal
    /\ Holds(str, ideal) \/ (str = <<>> /\ ideal = <<>>)

LEMMA UptoIs ==
  ASSUME NEW S, NEW s \in Seq(S), NEW n \in 0 .. Len(s)
  PROVE  /\ Upto(n, s) \in Seq(S) /\ Len(Upto(n, s)) = n
         /\ \A i \in 1 .. n : Upto(n, s)[i] = s[i]
<1>1. n \in Int /\ \A i \in 1 .. n : s[i] \in S
  BY LenProperties, ElementOfSeq
<1>2. /\ SubSeq(s, 1, n) \in Seq(S)
      /\ Len(SubSeq(s, 1, n)) = IF 1 <= n THEN n - 1 + 1 ELSE 0
      /\ \A i \in 1 .. n - 1 + 1 : SubSeq(s, 1, n)[i] = s[1 + i - 1]
  BY <1>1, SubSeqProperties
<1>3. n - 1 + 1 = n /\ (~(1 <= n) => n = 0) /\ \A i \in 1 .. n : 1 + i - 1 = i
  OBVIOUS
<1> QED
  BY <1>2, <1>3 DEF Upto

LEMMA FromIs ==
  ASSUME NEW S, NEW s \in Seq(S), NEW n \in 0 .. Len(s)
  PROVE  /\ From(n, s) \in Seq(S) /\ Len(From(n, s)) = Len(s) - n
         /\ \A i \in 1 .. Len(s) - n : From(n, s)[i] = s[n + i]
<1>1. PICK m \in Nat : m = Len(s)
  BY LenProperties
<1>2. n + 1 \in Int /\ m \in Int /\ \A i \in n + 1 .. m : s[i] \in S
  BY <1>1, ElementOfSeq
<1>3. /\ SubSeq(s, n + 1, m) \in Seq(S)
      /\ Len(SubSeq(s, n + 1, m)) = IF n + 1 <= m THEN m - (n + 1) + 1 ELSE 0
      /\ \A i \in 1 .. m - (n + 1) + 1 : SubSeq(s, n + 1, m)[i] = s[(n + 1) + i - 1]
  BY <1>2, SubSeqProperties
<1>4. /\ m - (n + 1) + 1 = m - n /\ (~(n + 1 <= m) => m - n = 0)
      /\ \A i \in 1 .. m - n : (n + 1) + i - 1 = n + i
  BY <1>1
<1> QED
  BY <1>1, <1>3, <1>4 DEF From

(* r is a, b and c, of lengths x, y and z. *)
Joined(S, r, a, b, c, x, y, z) ==
  /\ r \in Seq(S) /\ Len(r) = x + y + z
  /\ \A i \in 1 .. x + y + z :
       r[i] = IF i <= x THEN a[i] ELSE IF i <= x + y THEN b[i - x] ELSE c[i - (x + y)]

LEMMA Three ==
  ASSUME NEW S, NEW a \in Seq(S), NEW b \in Seq(S), NEW c \in Seq(S),
         NEW x \in Nat, NEW y \in Nat, NEW z \in Nat, Len(a) = x, Len(b) = y, Len(c) = z,
         NEW r, r = a \o b \o c
  PROVE  Joined(S, r, a, b, c, x, y, z)
<1>1. PICK d : d = a \o b
  OBVIOUS
<1>2. /\ d \in Seq(S) /\ Len(d) = x + y
      /\ \A i \in 1 .. x + y : d[i] = IF i <= x THEN a[i] ELSE b[i - x]
  <2>1. /\ d \in Seq(S) /\ Len(d) = Len(a) + Len(b)
        /\ \A i \in 1 .. Len(a) + Len(b) : d[i] = IF i <= Len(a) THEN a[i] ELSE b[i - Len(a)]
    BY <1>1, ConcatProperties
  <2> QED
    BY <2>1
<1>3. PICK n \in Nat : n = x + y
  OBVIOUS
<1>4. r = d \o c
  BY <1>1
<1>5. /\ r \in Seq(S) /\ Len(r) = n + z
      /\ \A i \in 1 .. n + z : r[i] = IF i <= n THEN d[i] ELSE c[i - n]
  <2>1. /\ r \in Seq(S) /\ Len(r) = Len(d) + Len(c)
        /\ \A i \in 1 .. Len(d) + Len(c) : r[i] = IF i <= Len(d) THEN d[i] ELSE c[i - Len(d)]
    <3>1. d \in Seq(S)
      BY <1>2
    <3> QED
      BY <3>1, <1>4, ConcatProperties
  <2>2. Len(d) = n
    BY <1>2, <1>3
  <2> QED
    BY <2>1, <2>2
<1>6. ASSUME NEW i \in 1 .. x + y + z
      PROVE  r[i] = IF i <= x THEN a[i] ELSE IF i <= x + y THEN b[i - x] ELSE c[i - (x + y)]
  <2>1. CASE i <= n
    <3>1. i \in 1 .. x + y /\ i \in 1 .. n + z
      BY <1>3, <2>1
    <3>2. r[i] = d[i]
      BY <1>5, <2>1, <3>1
    <3> QED
      BY <1>2, <1>3, <2>1, <3>1, <3>2
  <2>2. CASE ~(i <= n)
    <3>1. i \in 1 .. n + z /\ ~(i <= x) /\ ~(i <= x + y)
      BY <1>3, <2>2
    <3>2. r[i] = c[i - n]
      BY <1>5, <2>2, <3>1
    <3> QED
      BY <1>3, <3>1, <3>2
  <2> QED
    BY <2>1, <2>2
<1> QED
  BY <1>3, <1>5, <1>6 DEF Joined

LEMMA TextOf ==
  ASSUME NEW mem, NEW t \in Seq(Chars), Holds(mem, t)
  PROVE  Text(mem) = t
<1>1. PICK n \in Nat : n = Len(t)
  BY LenProperties
<1>2. PICK m \in Nat : m = Len(mem)
  BY LenProperties DEF Holds
<1>3. /\ mem \in Seq(Letters) /\ m > n /\ mem[n + 1] = NUL
      /\ \A i \in 1 .. n : mem[i] = t[i] /\ mem[i] # NUL
  BY <1>1, <1>2, StringAssumption DEF Holds
<1>4. PICK I : I = {i \in 1 .. m : mem[i] = NUL}
  OBVIOUS
<1>5. n + 1 \in I /\ \A i \in I : i \in Int /\ i >= n + 1
  BY <1>3, <1>4
<1>6. Min(I) = n + 1
  <2>1. \E x \in I : \A y \in I : x <= y
    BY <1>5
  <2>2. Min(I) \in I /\ \A y \in I : Min(I) <= y
    BY <2>1 DEF Min
  <2> QED
    BY <1>5, <2>2
<1>7. Text(mem) = SubSeq(mem, 1, Min(I) - 1)
  <2>1. SelectInSeq(mem, LAMBDA c : c = NUL) = IF I # {} THEN Min(I) ELSE 0
    BY <1>2, <1>4, Zenon DEF SelectInSeq
  <2>2. I # {} /\ Min(I) # 0
    BY <1>5, <1>6
  <2> QED
    BY <2>1, <2>2, Zenon DEF Text
<1>8. Text(mem) = Upto(n, mem)
  <2>1. (n + 1) - 1 = n
    OBVIOUS
  <2> QED
    BY <1>6, <1>7, <2>1, Zenon DEF Upto
<1>9. PICK r : r = Upto(n, mem)
  OBVIOUS
<1>10. r \in Seq(Letters) /\ Len(r) = n /\ \A i \in 1 .. n : r[i] = t[i]
  <2>1. n \in 0 .. Len(mem)
    BY <1>2, <1>3
  <2> QED
    BY <1>3, <1>9, <2>1, UptoIs
<1>11. t \in Seq(Letters)
  BY DEF Letters
<1>12. r = t
  BY <1>1, <1>10, <1>11, SeqEqual
<1> QED
  BY <1>8, <1>9, <1>12

LEMMA TextOfNothing == Text(<<>>) = <<>>
<1>1. PICK I : I = {i \in 1 .. Len(<<>>) : <<>>[i] = NUL}
  OBVIOUS
<1>2. I = {}
  BY <1>1
<1>3. SelectInSeq(<<>>, LAMBDA c : c = NUL) = IF I # {} THEN Min(I) ELSE 0
  BY <1>1, Zenon DEF SelectInSeq
<1> QED
  BY <1>2, <1>3, Zenon DEF Text

LEMMA BecomesRight ==
  ASSUME NEW mem, NEW t \in Seq(Chars), Holds(mem, t), NEW n, n = Len(t), NEW odd, Becomes(mem, n, t, odd)
  PROVE  StringInv'
<1>1. Text(mem) = t
  BY TextOf
<1>2. str' = mem /\ sz' = Len(t) /\ strSeen' = t /\ ideal' = t
  BY <1>1, Zenon DEF Becomes
<1> QED
  BY <1>2, Zenon DEF StringInv

LEMMA HoldsItself ==
  ASSUME NEW s \in Seq(Chars)
  PROVE  Holds(s \o <<NUL>>, s)
<1>1. s \in Seq(Letters) /\ <<NUL>> \in Seq(Letters) /\ Len(<<NUL>>) = 1 /\ <<NUL>>[1] = NUL
  BY DEF Letters
<1>2. PICK n \in Nat : n = Len(s)
  BY LenProperties
<1>3. PICK r : r = s \o <<NUL>>
  OBVIOUS
<1>4. /\ r \in Seq(Letters) /\ Len(r) = n + 1
      /\ \A i \in 1 .. n + 1 : r[i] = IF i <= n THEN s[i] ELSE <<NUL>>[i - n]
  BY <1>1, <1>2, <1>3, ConcatProperties
<1>5. r[n + 1] = NUL /\ \A i \in 1 .. n : r[i] = s[i]
  <2>1. (n + 1) - n = 1 /\ ~(n + 1 <= n) /\ n + 1 \in 1 .. n + 1
    OBVIOUS
  <2>2. r[n + 1] = NUL
    BY <1>1, <1>4, <2>1
  <2>3. \A i \in 1 .. n : i \in 1 .. n + 1 /\ i <= n
    OBVIOUS
  <2> QED
    BY <1>4, <2>2, <2>3
<1> QED
  BY <1>2, <1>3, <1>4, <1>5 DEF Holds

LEMMA AppendTextKeeps ==
  ASSUME StringInv, strOdd = {}, NEW s \in Seq(Chars), AppendText(s)
  PROVE  StringInv'
<1>1. PICK t \in Seq(Chars) : t = ideal
  BY DEF StringInv
<1>2. PICK n \in Nat : n = Len(t)
  BY LenProperties
<1>3. PICK k \in Nat : k = Len(s)
  BY LenProperties
<1>4. PICK a : a = Upto(n, str)
  OBVIOUS
<1>5. a \in Seq(Letters) /\ Len(a) = n /\ \A i \in 1 .. n : a[i] = t[i]
  <2>1. CASE Holds(str, t)
    <3>1. n \in 0 .. Len(str) /\ str \in Seq(Letters) /\ \A i \in 1 .. n : str[i] = t[i]
      <4>1. Len(str) \in Nat
        BY <2>1, LenProperties DEF Holds
      <4> QED
        BY <1>2, <2>1, <4>1 DEF Holds
    <3> QED
      BY <1>4, <3>1, UptoIs
  <2>2. CASE str = <<>> /\ t = <<>>
    <3>1. n = 0 /\ str \in Seq(Letters) /\ 0 \in 0 .. Len(str)
      BY <1>2, <2>2
    <3> QED
      BY <1>4, <3>1, UptoIs
  <2> QED
    BY <1>1, <2>1, <2>2 DEF StringInv
<1>6. s \in Seq(Letters) /\ <<NUL>> \in Seq(Letters) /\ Len(<<NUL>>) = 1 /\ <<NUL>>[1] = NUL
  BY DEF Letters
<1>7. PICK r : r = a \o s \o <<NUL>>
  OBVIOUS
<1>8. /\ r \in Seq(Letters) /\ Len(r) = n + k + 1
      /\ \A i \in 1 .. n + k + 1 : r[i] = IF i <= n THEN a[i] ELSE IF i <= n + k THEN s[i - n]
                                          ELSE <<NUL>>[i - (n + k)]
  <2>1. Len(s) = k /\ Len(a) = n /\ a \in Seq(Letters) /\ 1 \in Nat
    BY <1>3, <1>5
  <2>2. Joined(Letters, r, a, s, <<NUL>>, n, k, 1)
    BY <1>6, <1>7, <2>1, Three
  <2> QED
    BY <2>2, Zenon DEF Joined
<1>9. PICK u : u = t \o s
  OBVIOUS
<1>10. /\ u \in Seq(Chars) /\ Len(u) = n + k
       /\ \A i \in 1 .. n + k : u[i] = IF i <= n THEN t[i] ELSE s[i - n]
  BY <1>2, <1>3, <1>9, ConcatProperties
<1>11. r[n + k + 1] = NUL
  <2>1. (n + k + 1) - (n + k) = 1 /\ ~(n + k + 1 <= n) /\ ~(n + k + 1 <= n + k) /\ n + k + 1 \in 1 .. n + k + 1
    OBVIOUS
  <2> QED
    BY <1>6, <1>8, <2>1
<1>12. \A i \in 1 .. n + k : r[i] = u[i]
  <2> SUFFICES ASSUME NEW i \in 1 .. n + k PROVE r[i] = u[i]
    OBVIOUS
  <2>1. i \in 1 .. n + k + 1 /\ i <= n + k /\ (i <= n => i \in 1 .. n)
    OBVIOUS
  <2> QED
    BY <1>5, <1>8, <1>10, <2>1
<1>13. Holds(r, u)
  BY <1>8, <1>10, <1>11, <1>12 DEF Holds
<1>14. Becomes(r, n + k, u, {})
  <2>1. sz = n /\ ideal = t /\ Len(s) = k
    BY <1>1, <1>2, <1>3, Zenon DEF StringInv
  <2> QED
    BY <1>4, <1>7, <1>9, <2>1, Zenon DEF AppendText
<1> QED
  BY <1>10, <1>13, <1>14, BecomesRight

(* A string that has memory, and what is in it. *)
LEMMA HasMemory ==
  ASSUME StringInv, strOdd = {}, str # <<>>
  PROVE  /\ ideal \in Seq(Chars) /\ sz = Len(ideal) /\ Holds(str, ideal)
         /\ str \in Seq(Letters) /\ sz \in Nat /\ Len(str) > sz /\ Len(str) \in Nat
         /\ str[sz + 1] = NUL /\ \A i \in 1 .. sz : str[i] = ideal[i] /\ ideal[i] # NUL
<1>1. ideal \in Seq(Chars) /\ sz = Len(ideal) /\ Holds(str, ideal)
  BY Zenon DEF StringInv
<1>2. sz \in Nat /\ \A i \in 1 .. sz : ideal[i] # NUL
  BY <1>1, LenProperties, ElementOfSeq, StringAssumption
<1>3. str \in Seq(Letters) /\ Len(str) > sz /\ str[sz + 1] = NUL /\ \A i \in 1 .. sz : str[i] = ideal[i]
  BY <1>1, Zenon DEF Holds
<1> QED
  BY <1>1, <1>2, <1>3, LenProperties

LEMMA InsertTextKeeps ==
  ASSUME StringInv, strOdd = {}, NEW pos \in Nat, NEW s \in Seq(Chars), InsertText(pos, s)
  PROVE  StringInv'
<1>1. CASE str = <<>>
  <2>1. strOdd' # {}
    BY <1>1 DEF InsertText, Undefines
  <2> QED
    BY <2>1, Zenon DEF StringInv
<1>2. CASE str # <<>>
  <2>1. PICK t \in Seq(Chars) : t = ideal
    BY DEF StringInv
  <2>2. PICK n \in Nat : n = sz
    BY <1>2, HasMemory
  <2>3. PICK m \in Seq(Letters) : m = str
    BY <1>2, HasMemory
  <2>4. /\ n = Len(t) /\ Len(m) > n /\ Len(m) \in Nat /\ m[n + 1] = NUL /\ pos <= n
        /\ \A i \in 1 .. n : m[i] = t[i]
    BY <1>2, <2>1, <2>2, <2>3, HasMemory DEF InsertText
  <2>5. PICK k \in Nat : k = Len(s)
    BY LenProperties
  <2>6. PICK a : a = Upto(pos, m)
    OBVIOUS
  <2>7. a \in Seq(Letters) /\ Len(a) = pos /\ \A i \in 1 .. pos : a[i] = t[i]
    <3>1. pos \in 0 .. Len(m) /\ \A i \in 1 .. pos : m[i] = t[i]
      BY <2>4
    <3> QED
      BY <2>6, <3>1, UptoIs
  <2>8. PICK w : w = Upto(n + 1, m)
    OBVIOUS
  <2>9. w \in Seq(Letters) /\ Len(w) = n + 1 /\ w[n + 1] = NUL /\ \A i \in 1 .. n : w[i] = t[i]
    <3>1. n + 1 \in 0 .. Len(m) /\ n + 1 \in 1 .. n + 1 /\ \A i \in 1 .. n : i \in 1 .. n + 1
      BY <2>4
    <3> QED
      BY <2>4, <2>8, <3>1, UptoIs
  <2>10. PICK c : c = From(pos, w)
    OBVIOUS
  <2>24. PICK d \in Nat : n = pos + d
    <3>1. n - pos \in Nat /\ n = pos + (n - pos)
      BY <2>4
    <3> QED
      BY <3>1
  <2>11. c \in Seq(Letters) /\ Len(c) = d + 1 /\ \A i \in 1 .. d + 1 : c[i] = w[pos + i]
    <3>1. pos \in 0 .. Len(w) /\ w \in Seq(Letters)
      BY <2>4, <2>9
    <3>2. /\ c \in Seq(Letters) /\ Len(c) = Len(w) - pos
          /\ \A i \in 1 .. Len(w) - pos : c[i] = w[pos + i]
      BY <2>10, <3>1, FromIs, Zenon
    <3>3. Len(w) - pos = d + 1
      BY <2>9, <2>24
    <3> QED
      BY <3>2, <3>3, Zenon
  <2>12. PICK r : r = a \o s \o c
    OBVIOUS
  <2>13. /\ r \in Seq(Letters) /\ Len(r) = n + k + 1
         /\ \A i \in 1 .. n + k + 1 : r[i] = IF i <= pos THEN a[i] ELSE IF i <= pos + k THEN s[i - pos]
                                             ELSE c[i - (pos + k)]
    <3>1. s \in Seq(Letters) /\ pos + k + (d + 1) = n + k + 1 /\ d + 1 \in Nat /\ Len(s) = k
      BY <2>5, <2>24 DEF Letters
    <3>2. Joined(Letters, r, a, s, c, pos, k, d + 1)
      BY <2>7, <2>11, <2>12, <3>1, Three
    <3> QED
      BY <3>1, <3>2, Zenon DEF Joined
  <2>14. PICK p : p = Upto(pos, t)
    OBVIOUS
  <2>15. p \in Seq(Chars) /\ Len(p) = pos /\ \A i \in 1 .. pos : p[i] = t[i]
    <3>1. pos \in 0 .. Len(t)
      BY <2>4
    <3> QED
      BY <2>14, <3>1, UptoIs
  <2>16. PICK q : q = From(pos, t)
    OBVIOUS
  <2>17. q \in Seq(Chars) /\ Len(q) = d /\ \A i \in 1 .. d : q[i] = t[pos + i]
    <3>1. pos \in 0 .. Len(t)
      BY <2>4
    <3>2. /\ q \in Seq(Chars) /\ Len(q) = Len(t) - pos
          /\ \A i \in 1 .. Len(t) - pos : q[i] = t[pos + i]
      BY <2>16, <3>1, FromIs, Zenon
    <3>3. Len(t) - pos = d
      BY <2>4, <2>24
    <3> QED
      BY <3>2, <3>3, Zenon
  <2>18. PICK u : u = p \o s \o q
    OBVIOUS
  <2>19. /\ u \in Seq(Chars) /\ Len(u) = n + k
         /\ \A i \in 1 .. n + k : u[i] = IF i <= pos THEN p[i] ELSE IF i <= pos + k THEN s[i - pos]
                                         ELSE q[i - (pos + k)]
    <3>1. pos + k + d = n + k /\ Len(s) = k
      BY <2>5, <2>24
    <3>2. Joined(Chars, u, p, s, q, pos, k, d)
      BY <2>15, <2>17, <2>18, <3>1, Three
    <3> QED
      BY <3>1, <3>2, Zenon DEF Joined
  <2>20. r[n + k + 1] = NUL
    <3>1. /\ (n + k + 1) - (pos + k) = d + 1 /\ ~(n + k + 1 <= pos) /\ ~(n + k + 1 <= pos + k)
          /\ n + k + 1 \in 1 .. n + k + 1 /\ d + 1 \in 1 .. d + 1 /\ pos + (d + 1) = n + 1
      BY <2>24
    <3>2. r[n + k + 1] = c[d + 1]
      BY <2>13, <3>1
    <3>3. c[d + 1] = w[n + 1]
      BY <2>11, <3>1
    <3> QED
      BY <2>9, <3>2, <3>3
  <2>21. \A i \in 1 .. n + k : r[i] = u[i]
    <3> SUFFICES ASSUME NEW i \in 1 .. n + k PROVE r[i] = u[i]
      OBVIOUS
    <3>1. CASE i <= pos
      <4>1. i \in 1 .. pos /\ i \in 1 .. n + k + 1
        BY <3>1
      <4> QED
        BY <2>7, <2>13, <2>15, <2>19, <3>1, <4>1
    <3>2. CASE ~(i <= pos) /\ i <= pos + k
      <4>1. i \in 1 .. n + k + 1
        OBVIOUS
      <4> QED
        BY <2>13, <2>19, <3>2, <4>1
    <3>3. CASE ~(i <= pos + k)
      <4>1. PICK j \in Int : j = i - (pos + k)
        OBVIOUS
      <4>2. j \in 1 .. d /\ j \in 1 .. d + 1 /\ pos + j \in 1 .. n /\ i \in 1 .. n + k + 1 /\ ~(i <= pos)
        BY <2>24, <3>3, <4>1
      <4>3. r[i] = c[j] /\ c[j] = w[pos + j] /\ w[pos + j] = t[pos + j]
        BY <2>9, <2>11, <2>13, <3>3, <4>1, <4>2
      <4>4. u[i] = q[j] /\ q[j] = t[pos + j]
        BY <2>17, <2>19, <3>3, <4>1, <4>2
      <4> QED
        BY <4>3, <4>4
    <3> QED
      BY <3>1, <3>2, <3>3
  <2>22. Holds(r, u)
    BY <2>13, <2>19, <2>20, <2>21 DEF Holds
  <2>23. Becomes(r, n + k, u, {})
    BY <1>2, <2>1, <2>2, <2>3, <2>5, <2>6, <2>8, <2>10, <2>12, <2>14, <2>16, <2>18, Zenon DEF InsertText
  <2> QED
    BY <2>19, <2>22, <2>23, BecomesRight
<1> QED
  BY <1>1, <1>2

LEMMA CutHolds ==
  ASSUME StringInv, strOdd = {}, str # <<>>, NEW p \in 0 .. sz
  PROVE  /\ Holds([str EXCEPT ![p + 1] = NUL], Upto(p, ideal))
         /\ Upto(p, ideal) \in Seq(Chars) /\ Len(Upto(p, ideal)) = p
<1>1. PICK t \in Seq(Chars) : t = ideal
  BY DEF StringInv
<1>2. PICK m \in Seq(Letters) : m = str
  BY HasMemory
<1>3. PICK n \in Nat : n = sz
  BY HasMemory
<1>4. n = Len(t) /\ Len(m) \in Nat /\ Len(m) > n /\ p \in 0 .. n /\ \A i \in 1 .. n : m[i] = t[i]
  BY <1>1, <1>2, <1>3, HasMemory
<1>5. PICK r : r = [m EXCEPT ![p + 1] = NUL]
  OBVIOUS
<1>6. /\ r \in Seq(Letters) /\ Len(r) = Len(m)
      /\ \A i \in 1 .. Len(m) : r[i] = IF i = p + 1 THEN NUL ELSE m[i]
  <2>1. p + 1 \in 1 .. Len(m) /\ NUL \in Letters
    BY <1>4 DEF Letters
  <2> QED
    BY <1>5, <2>1, ExceptSeq
<1>7. PICK u : u = Upto(p, t)
  OBVIOUS
<1>8. u \in Seq(Chars) /\ Len(u) = p /\ \A i \in 1 .. p : u[i] = t[i]
  <2>1. p \in 0 .. Len(t)
    BY <1>4
  <2> QED
    BY <1>7, <2>1, UptoIs
<1>9. r[p + 1] = NUL /\ \A i \in 1 .. p : r[i] = u[i]
  <2>1. p + 1 \in 1 .. Len(m) /\ \A i \in 1 .. p : i \in 1 .. Len(m) /\ i \in 1 .. n /\ i # p + 1
    BY <1>4
  <2> QED
    BY <1>4, <1>6, <1>8, <2>1
<1>10. Len(r) > p
  BY <1>4, <1>6
<1>11. Holds(r, u)
  BY <1>6, <1>8, <1>9, <1>10 DEF Holds
<1> QED
  BY <1>1, <1>2, <1>5, <1>7, <1>8, <1>11, Zenon

LEMMA MovedHolds ==
  ASSUME StringInv, strOdd = {}, str # <<>>, NEW to \in 0 .. sz, NEW from \in to .. sz
  PROVE  LET u == Upto(to, ideal) \o From(from, ideal)
         IN u \in Seq(Chars) /\ Len(u) = sz - (from - to) /\ Holds(Move(to, from, sz - from + 1), u)
<1>1. PICK t \in Seq(Chars) : t = ideal
  BY DEF StringInv
<1>2. PICK m \in Seq(Letters) : m = str
  BY HasMemory
<1>3. PICK n \in Nat : n = sz
  BY HasMemory
<1>4. /\ n = Len(t) /\ Len(m) \in Nat /\ Len(m) > n /\ to \in 0 .. n /\ from \in to .. n
      /\ m[n + 1] = NUL /\ \A i \in 1 .. n : m[i] = t[i]
  BY <1>1, <1>2, <1>3, HasMemory
<1>5. PICK l \in Nat : l = n - from
  <2>1. n - from \in Nat
    BY <1>4
  <2> QED
    BY <2>1
<1>6. to \in Nat /\ from \in Nat /\ n = from + l /\ from >= to
  BY <1>4, <1>5
<1>7. PICK a : a = Upto(to, t)
  OBVIOUS
<1>8. a \in Seq(Chars) /\ Len(a) = to /\ \A i \in 1 .. to : a[i] = t[i]
  <2>1. to \in 0 .. Len(t)
    BY <1>4
  <2> QED
    BY <1>7, <2>1, UptoIs
<1>9. PICK b : b = From(from, t)
  OBVIOUS
<1>10. b \in Seq(Chars) /\ Len(b) = l /\ \A i \in 1 .. l : b[i] = t[from + i]
  <2>1. from \in 0 .. Len(t)
    BY <1>4, <1>6
  <2>2. /\ b \in Seq(Chars) /\ Len(b) = Len(t) - from
        /\ \A i \in 1 .. Len(t) - from : b[i] = t[from + i]
    BY <1>9, <2>1, FromIs
  <2>3. Len(t) - from = l
    BY <1>4, <1>5
  <2> QED
    BY <2>2, <2>3, Zenon
<1>11. PICK u : u = a \o b
  OBVIOUS
<1>12. /\ u \in Seq(Chars) /\ Len(u) = to + l
       /\ \A i \in 1 .. to + l : u[i] = IF i <= to THEN a[i] ELSE b[i - to]
  <2>1. /\ u \in Seq(Chars) /\ Len(u) = Len(a) + Len(b)
        /\ \A i \in 1 .. Len(a) + Len(b) : u[i] = IF i <= Len(a) THEN a[i] ELSE b[i - Len(a)]
    BY <1>8, <1>10, <1>11, ConcatProperties
  <2> QED
    BY <1>8, <1>10, <2>1
<1>13. PICK r : r = Move(to, from, l + 1)
  OBVIOUS
<1>14. DOMAIN m = 1 .. Len(m) /\ \A i \in 1 .. Len(m) : m[i] \in Letters
  BY LenProperties, ElementOfSeq
<1>15. r = [i \in 1 .. Len(m) |-> IF i \in to + 1 .. to + (l + 1) THEN m[i - to + from] ELSE m[i]]
  BY <1>2, <1>13, <1>14 DEF Move
<1>16. r \in Seq(Letters) /\ Len(r) = Len(m)
  <2>1. \A i \in 1 .. Len(m) : (IF i \in to + 1 .. to + (l + 1) THEN m[i - to + from] ELSE m[i]) \in Letters
    <3> SUFFICES ASSUME NEW i \in 1 .. Len(m)
                 PROVE  (IF i \in to + 1 .. to + (l + 1) THEN m[i - to + from] ELSE m[i]) \in Letters
      OBVIOUS
    <3>1. CASE i \in to + 1 .. to + (l + 1)
      <4>1. i - to + from \in 1 .. Len(m)
        BY <1>4, <1>6, <3>1
      <4> QED
        BY <1>14, <3>1, <4>1
    <3>2. CASE i \notin to + 1 .. to + (l + 1)
      BY <1>14, <3>2
    <3> QED
      BY <3>1, <3>2
  <2> QED
    BY <1>4, <1>15, <2>1
<1>17. r[to + l + 1] = NUL
  <2>1. /\ to + l + 1 \in 1 .. Len(m) /\ to + l + 1 \in to + 1 .. to + (l + 1)
        /\ (to + l + 1) - to + from = n + 1
    BY <1>4, <1>6
  <2> QED
    BY <1>4, <1>15, <2>1
<1>18. \A i \in 1 .. to + l : r[i] = u[i]
  <2> SUFFICES ASSUME NEW i \in 1 .. to + l PROVE r[i] = u[i]
    OBVIOUS
  <2>1. CASE i <= to
    <3>1. i \in 1 .. to /\ i \in 1 .. n /\ i \in 1 .. Len(m) /\ i \notin to + 1 .. to + (l + 1)
      BY <1>4, <2>1
    <3> QED
      BY <1>4, <1>8, <1>12, <1>15, <2>1, <3>1
  <2>2. CASE ~(i <= to)
    <3>1. PICK j \in Int : j = i - to
      OBVIOUS
    <3>2. /\ i \in to + 1 .. to + (l + 1) /\ i \in 1 .. Len(m) /\ j \in 1 .. l
          /\ i - to + from = from + j /\ from + j \in 1 .. n
      BY <1>4, <1>6, <2>2, <3>1
    <3>3. r[i] = m[from + j] /\ m[from + j] = t[from + j]
      BY <1>4, <1>15, <3>2
    <3>4. u[i] = b[j] /\ b[j] = t[from + j]
      BY <1>10, <1>12, <2>2, <3>1, <3>2
    <3> QED
      BY <3>3, <3>4
  <2> QED
    BY <2>1, <2>2
<1>19. Len(r) > to + l
  BY <1>4, <1>6, <1>16
<1>20. Holds(r, u)
  BY <1>12, <1>16, <1>17, <1>18, <1>19 DEF Holds
<1>21. n - (from - to) = to + l /\ n - from + 1 = l + 1
  BY <1>6
<1> QED
  BY <1>1, <1>3, <1>7, <1>9, <1>11, <1>12, <1>13, <1>20, <1>21, Zenon

LEMMA MovesKeeps ==
  ASSUME StringInv, strOdd = {}, str # <<>>, NEW to \in 0 .. sz, NEW from \in 0 .. sz,
         NEW wanted, wanted = Upto(to, ideal) \o From(from, ideal),
         Moves(to, from, sz - from + 1, wanted)
  PROVE  StringInv'
<1>1. CASE from < to
  <2>1. strOdd' # {}
    BY <1>1 DEF Moves, Undefines
  <2> QED
    BY <2>1, Zenon DEF StringInv
<1>2. CASE ~(from < to)
  <2>1. from \in to .. sz
    BY <1>2, HasMemory
  <2>2. PICK mem : mem = Move(to, from, sz - from + 1)
    OBVIOUS
  <2>3. wanted \in Seq(Chars) /\ Len(wanted) = sz - (from - to) /\ Holds(mem, wanted)
    BY <2>1, <2>2, MovedHolds, Zenon
  <2>4. \E odd : Becomes(mem, sz - (from - to), wanted, odd)
    BY <1>2, <2>2, Zenon DEF Moves
  <2>5. PICK k : k = sz - (from - to)
    OBVIOUS
  <2>6. PICK odd : Becomes(mem, k, wanted, odd)
    BY <2>4, <2>5, Zenon
  <2> QED
    BY <2>3, <2>5, <2>6, BecomesRight
<1> QED
  BY <1>1, <1>2

LEMMA ChopKeeps ==
  ASSUME StringInv, strOdd = {}, NEW m1 \in Int, NEW m2 \in Int, m1 >= -1, m2 >= -1, Chop(m1, m2)
  PROVE  StringInv'
<1>1. CASE str = <<>>
  <2>1. strOdd' # {}
    BY <1>1 DEF Chop, Undefines
  <2> QED
    BY <2>1, Zenon DEF StringInv
<1>2. CASE str # <<>>
  <2>1. m1 <= sz /\ m2 <= sz /\ sz \in Nat /\ str[1] # NUL
    BY <1>2, HasMemory DEF Chop
  <2>2. sz # 0
    <3> SUFFICES ASSUME sz = 0 PROVE FALSE
      OBVIOUS
    <3>1. sz + 1 = 1
      OBVIOUS
    <3> QED
      BY <1>2, <2>1, <3>1, HasMemory
  <2>3. ASSUME NEW p \in 0 .. sz, Becomes([str EXCEPT ![p + 1] = NUL], p, Upto(p, ideal), {})
        PROVE  StringInv'
    <3>1. PICK r : r = [str EXCEPT ![p + 1] = NUL]
      OBVIOUS
    <3>2. PICK u : u = Upto(p, ideal)
      OBVIOUS
    <3>3. Holds(r, u) /\ u \in Seq(Chars) /\ Len(u) = p /\ Becomes(r, p, u, {})
      BY <1>2, <2>3, <3>1, <3>2, CutHolds, Zenon
    <3> QED
      BY <3>3, BecomesRight
  <2>4. CASE m1 = -1 /\ m2 = -1
    <3>1. Becomes([str EXCEPT ![sz] = NUL], sz - 1, Upto(sz - 1, ideal), {})
      BY <1>2, <2>4 DEF Chop
    <3>2. PICK p : p = sz - 1
      OBVIOUS
    <3>3. p \in 0 .. sz /\ p + 1 = sz
      BY <2>1, <2>2, <3>2
    <3>4. Becomes([str EXCEPT ![p + 1] = NUL], p, Upto(p, ideal), {})
      BY <3>1, <3>2, <3>3, Zenon
    <3> QED
      BY <2>3, <3>3, <3>4
  <2>5. CASE m1 # -1 /\ m2 = -1
    <3>1. Becomes([str EXCEPT ![m1 + 1] = NUL], m1, Upto(m1, ideal), {})
      BY <1>2, <2>5, Zenon DEF Chop
    <3>2. m1 \in 0 .. sz
      BY <2>1, <2>5
    <3> QED
      BY <2>3, <3>1, <3>2
  <2>6. CASE m1 = -1 /\ m2 # -1
    <3>1. Moves(0, m2, sz - m2 + 1, From(m2, ideal))
      BY <1>2, <2>6, Zenon DEF Chop
    <3>2. 0 \in 0 .. sz /\ m2 \in 0 .. sz
      BY <2>1, <2>6
    <3>3. PICK t \in Seq(Chars) : t = ideal
      BY DEF StringInv
    <3>4. 0 \in 0 .. Len(t) /\ m2 \in 0 .. Len(t)
      BY <1>2, <3>2, <3>3, HasMemory
    <3>5. Upto(0, t) = <<>>
      <4>1. Upto(0, t) \in Seq(Chars) /\ Len(Upto(0, t)) = 0
        BY <3>4, UptoIs
      <4> QED
        BY <4>1, EmptySeq
    <3>6. From(m2, t) \in Seq(Chars)
      BY <3>4, FromIs
    <3>7. From(m2, ideal) = Upto(0, ideal) \o From(m2, ideal)
      BY <3>3, <3>5, <3>6, ConcatEmptySeq
    <3> QED
      BY <1>2, <3>1, <3>2, <3>7, MovesKeeps
  <2>7. CASE m1 # -1 /\ m2 # -1
    <3>1. Moves(m1, m2, sz - m2 + 1, Upto(m1, ideal) \o From(m2, ideal))
      BY <1>2, <2>7, Zenon DEF Chop
    <3>2. m1 \in 0 .. sz /\ m2 \in 0 .. sz
      BY <2>1, <2>7
    <3> QED
      BY <1>2, <3>1, <3>2, MovesKeeps
  <2> QED
    BY <2>4, <2>5, <2>6, <2>7
<1> QED
  BY <1>1, <1>2

LEMMA ShiftKeeps ==
  ASSUME StringInv, strOdd = {}, NEW n \in Nat, Shift(n)
  PROVE  StringInv'
<1>1. CASE str = <<>> \/ n > 0
  <2>1. strOdd' # {}
    <3>1. CASE str = <<>>
      BY <3>1 DEF Shift, Undefines
    <3>2. CASE str # <<>> /\ n > sz
      BY <3>2 DEF Shift, Silently
    <3>3. CASE str # <<>> /\ ~(n > sz) /\ n > 0
      BY <3>3 DEF Shift, Becomes
    <3> QED
      BY <1>1, <3>1, <3>2, <3>3
  <2> QED
    BY <2>1, Zenon DEF StringInv
<1>2. CASE str # <<>> /\ n = 0
  <2>1. PICK t \in Seq(Chars) : t = ideal
    BY DEF StringInv
  <2>2. PICK m \in Seq(Letters) : m = str
    BY <1>2, HasMemory
  <2>3. PICK l \in Nat : l = Len(t)
    BY LenProperties
  <2>4. sz = l /\ Holds(m, t) /\ Len(m) \in Nat /\ Len(m) > l
    BY <1>2, <2>1, <2>2, <2>3, HasMemory
  <2>5. /\ \A S : \A s \in Seq(S) : From(0, s) = s
    <3> SUFFICES ASSUME NEW S, NEW s \in Seq(S) PROVE From(0, s) = s
      OBVIOUS
    <3>1. 0 + 1 = 1
      OBVIOUS
    <3> QED
      BY <3>1, SubSeqFull DEF From
  <2>6. From(n, m) = m /\ From(n, t) = t /\ Text(m) = t
    BY <1>2, <2>4, <2>5, TextOf
  <2>7. PICK rest : rest = From(l + 1, m)
    OBVIOUS
  <2>8. rest \in Seq(Letters)
    <3>1. l + 1 \in 0 .. Len(m)
      BY <2>4
    <3> QED
      BY <2>7, <3>1, FromIs
  <2>9. PICK r : r = t \o <<NUL>> \o rest
    OBVIOUS
  <2>10. \E odd : Becomes(r, l, t, odd)
    <3>1. ~(n > sz)
      BY <1>2, <2>4
    <3> QED
      BY <1>2, <2>1, <2>2, <2>3, <2>4, <2>6, <2>7, <2>9, <3>1, Zenon DEF Shift
  <2>11. Holds(r, t)
    <3>1. t \in Seq(Letters) /\ <<NUL>> \in Seq(Letters) /\ Len(<<NUL>>) = 1 /\ <<NUL>>[1] = NUL
      BY DEF Letters
    <3>2. PICK k \in Nat : k = Len(rest)
      BY <2>8, LenProperties
    <3>3. Joined(Letters, r, t, <<NUL>>, rest, l, 1, k)
      BY <2>3, <2>8, <2>9, <3>1, <3>2, Three
    <3>4. /\ r \in Seq(Letters) /\ Len(r) = l + 1 + k
          /\ \A i \in 1 .. l + 1 + k : r[i] = IF i <= l THEN t[i] ELSE IF i <= l + 1 THEN <<NUL>>[i - l]
                                              ELSE rest[i - (l + 1)]
      BY <3>3, Zenon DEF Joined
    <3>5. Len(r) > l
      BY <3>4
    <3>6. r[l + 1] = NUL
      <4>1. l + 1 \in 1 .. l + 1 + k /\ ~(l + 1 <= l) /\ l + 1 <= l + 1 /\ (l + 1) - l = 1
        OBVIOUS
      <4>2. \A i \in 1 .. l + 1 + k : ~(i <= l) /\ i <= l + 1 => r[i] = <<NUL>>[i - l]
        BY <3>4
      <4>3. r[l + 1] = <<NUL>>[(l + 1) - l]
        BY <4>1, <4>2
      <4> QED
        BY <3>1, <4>1, <4>3
    <3>7. ASSUME NEW i \in 1 .. l PROVE r[i] = t[i]
      <4>1. i \in 1 .. l + 1 + k /\ i <= l
        OBVIOUS
      <4> QED
        BY <3>4, <4>1
    <3> QED
      BY <2>3, <3>4, <3>5, <3>6, <3>7 DEF Holds
  <2>12. PICK odd : Becomes(r, l, t, odd)
    BY <2>10
  <2> QED
    BY <2>3, <2>11, <2>12, BecomesRight
<1> QED
  BY <1>1, <1>2

LEMMA StringInvGives == StringInv => StringRight
<1> SUFFICES ASSUME StringInv, strOdd = {} PROVE sz = Len(ideal) /\ Text(str) = ideal /\ strSeen = ideal
  BY DEF StringRight
<1>1. /\ ideal \in Seq(Chars) /\ sz = Len(ideal) /\ strSeen = ideal
      /\ Holds(str, ideal) \/ (str = <<>> /\ ideal = <<>>)
  BY Zenon DEF StringInv
<1>2. CASE Holds(str, ideal)
  BY <1>1, <1>2, TextOf
<1>3. CASE str = <<>> /\ ideal = <<>>
  BY <1>1, <1>3, TextOfNothing
<1> QED
  BY <1>1, <1>2, <1>3

LEMMA StringInvInit == StringInit => StringInv
  BY DEF StringInit, StringInv

LEMMA StringInvStep == StringInv /\ [StringNext]_strVars => StringInv'
<1> SUFFICES ASSUME StringInv, [StringNext]_strVars PROVE StringInv'
  OBVIOUS
<1>1. CASE UNCHANGED strVars
  BY <1>1, Zenon DEF strVars, StringInv
<1>2. Texts \subseteq Seq(Chars) /\ \A n \in 0 .. MaxText : n \in Nat
  BY StringAssumption
<1>3. CASE AssignNull
  <2>1. str' = <<>> /\ sz' = 0 /\ strSeen' = Text(<<>>) /\ ideal' = <<>>
    BY <1>3, Zenon DEF AssignNull, Becomes
  <2> QED
    BY <2>1, TextOfNothing DEF StringInv
<1>4. ASSUME NEW s \in Texts, AssignText(s)
      PROVE  StringInv'
  <2>1. s \in Seq(Chars) /\ Becomes(s \o <<NUL>>, Len(s), s, {})
    BY <1>2, <1>4 DEF AssignText
  <2> QED
    BY <2>1, HoldsItself, BecomesRight
<1>5. ASSUME strOdd = {}, NEW s \in Texts, AppendText(s)
      PROVE  StringInv'
  BY <1>2, <1>5, AppendTextKeeps
<1>6. ASSUME strOdd = {}, NEW s \in Texts, NEW pos \in 0 .. MaxText, InsertText(pos, s)
      PROVE  StringInv'
  BY <1>2, <1>6, InsertTextKeeps
<1>7. ASSUME strOdd = {}, NEW s \in Texts, NEW more, Sprint(s, more)
      PROVE  StringInv'
  <2>1. s \in Seq(Chars)
    BY <1>2
  <2>2. CASE Becomes(s \o <<NUL>>, Len(s), s, {})
    BY <2>1, <2>2, HoldsItself, BecomesRight
  <2>3. CASE strOdd' # {}
    BY <2>3, Zenon DEF StringInv
  <2>4. Becomes(s \o <<NUL>>, Len(s), s, {}) \/ strOdd' = {"reused"} \/ strOdd' = {"cut"}
    BY <1>7, Zenon DEF Sprint, Undefines, Becomes
  <2> QED
    BY <2>2, <2>3, <2>4
<1>8. ASSUME strOdd = {}, NEW m1 \in -1 .. MaxText, NEW m2 \in -1 .. MaxText, Chop(m1, m2)
      PROVE  StringInv'
  <2>1. m1 \in Int /\ m2 \in Int /\ m1 >= -1 /\ m2 >= -1
    BY StringAssumption
  <2> QED
    BY <1>8, <2>1, ChopKeeps
<1>9. ASSUME strOdd = {}, NEW n \in 0 .. MaxText, Shift(n)
      PROVE  StringInv'
  BY <1>2, <1>9, ShiftKeeps
<1>10. ASSUME NEW n \in 0 .. MaxText, Resize(n)
       PROVE  StringInv'
  <2>1. strOdd' # {}
    BY <1>10 DEF Resize, Silently
  <2> QED
    BY <2>1, Zenon DEF StringInv
<1>11. CASE Cleanup
  <2>1. strOdd' # {}
    BY <1>11 DEF Cleanup, Silently
  <2> QED
    BY <2>1, Zenon DEF StringInv
<1> QED
  BY <1>1, <1>3, <1>4, <1>5, <1>6, <1>7, <1>8, <1>9, <1>10, <1>11 DEF StringNext

-------------------------------------------------------------------------------
(***************************************************************************)
(* Arguments.  The types of a list, and what its operations do to the         *)
(* parameters it uses and to the texts in memory.                            *)
(***************************************************************************)
ArgParams == [type : {"UNKNOWN", "CZSTRING"}, at : Nat] \cup [type : {"CZLONG"}, at : ArgNumbers]
ArgAddresses == Nat \ {0}

ArgList(l) ==
  /\ l = [place |-> l.place, array |-> l.array, n |-> l.n, texts |-> l.texts, harm |-> l.harm, odd |-> l.odd]
  /\ l.place \in Seq(ArgParams) /\ Len(l.place) = InPlace
  /\ l.array \in Seq(ArgParams) /\ l.n \in Nat /\ l.n <= Len(Used(l))
  /\ l.texts = [a \in DOMAIN l.texts |-> l.texts[a]]
  /\ IsFiniteSet(DOMAIN l.texts) /\ DOMAIN l.texts \subseteq ArgAddresses
  /\ \A a \in DOMAIN l.texts : l.texts[a] \in ArgTexts
  /\ l.harm \subseteq Harmful

(* All parameters there are, in place and in the array. *)
ArgPointed(l) == {p.at : p \in ToSet(l.place) \cup ToSet(l.array)}

(* What a parameter p answers if the texts are t. *)
Says(p, t) ==
  IF p.type = "CZLONG" THEN p.at
  ELSE IF p.type = "UNKNOWN" THEN "unset"
  ELSE IF p.at = 0 THEN NoText
  ELSE IF p.at \in DOMAIN t THEN t[p.at] ELSE "stale"

(* m is l but for parameter k, which is p, and the texts. *)
OneSet(m, l, k, p) ==
  /\ ArgList(m) /\ Used(m) = [Used(l) EXCEPT ![k] = p] /\ m.n = l.n /\ m.odd = l.odd
  /\ (m.array = <<>>) <=> (l.array = <<>>)
  /\ l.array # <<>> => m.place = l.place

LEMMA ParamIs ==
  ASSUME NEW p \in ArgParams
  PROVE  /\ p.type \in {"UNKNOWN", "CZSTRING", "CZLONG"}
         /\ p.type = "CZLONG" => p.at \in ArgNumbers
         /\ p.type # "CZLONG" => p.at \in Nat
         /\ IsText(p) => p.type = "CZSTRING" /\ p.at \in ArgAddresses
BY DEF ArgParams, IsText, ArgAddresses

LEMMA UsedIs ==
  ASSUME NEW l, ArgList(l)
  PROVE  /\ Used(l) \in Seq(ArgParams) /\ Len(Used(l)) \in Nat \ {0} /\ l.n \in 0 .. Len(Used(l))
         /\ DOMAIN Used(l) = 1 .. Len(Used(l)) /\ \A i \in 1 .. Len(Used(l)) : Used(l)[i] \in ArgParams
<1>1. l.place \in Seq(ArgParams) /\ Len(l.place) = InPlace /\ l.array \in Seq(ArgParams)
  BY Zenon DEF ArgList
<1>2. Used(l) \in Seq(ArgParams)
  BY <1>1, Zenon DEF Used
<1>3. Len(Used(l)) \in Nat /\ Len(Used(l)) # 0
  <2>1. CASE l.array = <<>>
    <3>1. Used(l) = l.place
      BY <2>1, Zenon DEF Used
    <3> QED
      BY <1>1, <3>1, ArgsAssumption
  <2>2. CASE l.array # <<>>
    <3>1. Used(l) = l.array
      BY <2>2, Zenon DEF Used
    <3> QED
      BY <1>1, <2>2, <3>1, EmptySeq
  <2> QED
    BY <2>1, <2>2
<1>4. l.n \in Nat /\ l.n <= Len(Used(l))
  BY Zenon DEF ArgList
<1> QED
  BY <1>2, <1>3, <1>4, LenProperties, ElementOfSeq

LEMMA PointedFinite ==
  ASSUME NEW l, ArgList(l)
  PROVE  IsFiniteSet(ArgPointed(l))
<1>1. ASSUME NEW s \in Seq(ArgParams)
      PROVE  IsFiniteSet({p.at : p \in ToSet(s)})
  <2>1. PICK n \in Nat : n = Len(s) /\ DOMAIN s = 1 .. n
    BY LenProperties
  <2>2. PICK T : T = {p.at : p \in ToSet(s)}
    OBVIOUS
  <2>3. PICK f : f = [i \in 1 .. n |-> s[i].at]
    OBVIOUS
  <2>4. f \in Surjection(1 .. n, T)
    BY <2>1, <2>2, <2>3 DEF Surjection, ToSet
  <2>5. IsFiniteSet(1 .. n)
    BY FS_Interval
  <2>6. IsFiniteSet(T)
    BY <2>4, <2>5, FS_Surjection
  <2> QED
    BY <2>2, <2>6
<1>2. l.place \in Seq(ArgParams) /\ l.array \in Seq(ArgParams)
  BY Zenon DEF ArgList
<1>3. PICK A : A = {p.at : p \in ToSet(l.place)}
  OBVIOUS
<1>4. PICK B : B = {p.at : p \in ToSet(l.array)}
  OBVIOUS
<1>5. IsFiniteSet(A) /\ IsFiniteSet(B)
  BY <1>1, <1>2, <1>3, <1>4
<1>6. ArgPointed(l) = A \cup B
  BY <1>3, <1>4 DEF ArgPointed
<1> QED
  BY <1>5, <1>6, FS_Union

(* A new text is where nothing points to. *)
LEMMA FreshIs ==
  ASSUME NEW l, ArgList(l)
  PROVE  /\ Fresh(l) \in ArgAddresses /\ Fresh(l) \notin DOMAIN l.texts
         /\ \A i \in 1 .. Len(l.place) : l.place[i].at # Fresh(l)
         /\ \A i \in 1 .. Len(l.array) : l.array[i].at # Fresh(l)
<1>1. PICK taken : taken = DOMAIN l.texts \cup ArgPointed(l)
  OBVIOUS
<1>2. IsFiniteSet(taken)
  BY <1>1, PointedFinite, FS_Union DEF ArgList
<1>3. PICK c \in Nat : c = Cardinality(taken)
  BY <1>2, FS_CardinalityType
<1>4. \E address \in 1 .. c + 1 : address \notin taken
  <2> SUFFICES ASSUME 1 .. c + 1 \subseteq taken PROVE FALSE
    OBVIOUS
  <2>1. Cardinality(1 .. c + 1) <= c
    BY <1>2, <1>3, FS_Subset
  <2>2. Cardinality(1 .. c + 1) = c + 1
    <3>1. 1 \in Int /\ c + 1 \in Int /\ ~(1 > c + 1) /\ (c + 1) - 1 + 1 = c + 1
      OBVIOUS
    <3> QED
      BY <3>1, FS_Interval
  <2> QED
    BY <2>1, <2>2
<1>5. Fresh(l) = CHOOSE address \in 1 .. c + 1 : address \notin taken
  BY <1>1, <1>3, Zenon DEF Fresh, ArgPointed
<1>6. Fresh(l) \in 1 .. c + 1 /\ Fresh(l) \notin taken
  BY <1>4, <1>5
<1>7. PICK f : f = Fresh(l)
  OBVIOUS
<1>8. f \in ArgAddresses /\ f \notin taken
  BY <1>6, <1>7 DEF ArgAddresses
<1>9. ASSUME NEW s \in {l.place, l.array}, NEW i \in 1 .. Len(s)
      PROVE  s[i].at # f
  <2>1. s \in Seq(ArgParams)
    BY DEF ArgList
  <2>2. s[i] \in ToSet(s)
    BY <2>1, LenProperties DEF ToSet
  <2>3. s[i].at \in ArgPointed(l)
    BY <2>2 DEF ArgPointed
  <2> QED
    BY <1>1, <1>8, <2>3
<1> QED
  BY <1>1, <1>7, <1>8, <1>9

LEMMA PutAtIs ==
  ASSUME NEW l, ArgList(l), NEW k \in 1 .. Len(Used(l)), NEW p \in ArgParams
  PROVE  OneSet(PutAt(l, k, p), l, k, p) /\ PutAt(l, k, p).texts = l.texts /\ PutAt(l, k, p).harm = l.harm
<1>1. PICK m : m = PutAt(l, k, p)
  OBVIOUS
<1>2. /\ l = [place |-> l.place, array |-> l.array, n |-> l.n, texts |-> l.texts, harm |-> l.harm, odd |-> l.odd]
      /\ l.place \in Seq(ArgParams) /\ Len(l.place) = InPlace /\ l.array \in Seq(ArgParams)
  BY Zenon DEF ArgList
<1>3. CASE l.array = <<>>
  <2>1. PICK s \in Seq(ArgParams) : s = l.place
    BY <1>2
  <2>2. PICK r : r = [s EXCEPT ![k] = p]
    OBVIOUS
  <2>3. Used(l) = s /\ k \in 1 .. Len(s)
    BY <1>3, <2>1 DEF Used
  <2>4. r \in Seq(ArgParams) /\ Len(r) = Len(s)
    BY <2>2, <2>3, ExceptSeq
  <2>5. m = [l EXCEPT !.place = r]
    BY <1>1, <1>3, <2>1, <2>2 DEF PutAt
  <2>6. m = [place |-> r, array |-> l.array, n |-> l.n, texts |-> l.texts, harm |-> l.harm, odd |-> l.odd]
    BY <1>2, <2>5
  <2>7. m.place = r /\ m.array = l.array /\ m.n = l.n /\ m.texts = l.texts /\ m.harm = l.harm /\ m.odd = l.odd
    BY <2>6
  <2>8. Used(m) = r
    BY <1>3, <2>7 DEF Used
  <2>9. ArgList(m)
    BY <2>1, <2>3, <2>4, <2>6, <2>7, <2>8, Zenon DEF ArgList
  <2> QED
    BY <1>1, <1>3, <2>2, <2>3, <2>7, <2>8, <2>9 DEF OneSet
<1>4. CASE l.array # <<>>
  <2>1. PICK s \in Seq(ArgParams) : s = l.array
    BY <1>2
  <2>2. PICK r : r = [s EXCEPT ![k] = p]
    OBVIOUS
  <2>3. Used(l) = s /\ k \in 1 .. Len(s)
    BY <1>4, <2>1 DEF Used
  <2>4. r \in Seq(ArgParams) /\ Len(r) = Len(s)
    BY <2>2, <2>3, ExceptSeq
  <2>5. m = [l EXCEPT !.array = r]
    BY <1>1, <1>4, <2>1, <2>2 DEF PutAt
  <2>6. m = [place |-> l.place, array |-> r, n |-> l.n, texts |-> l.texts, harm |-> l.harm, odd |-> l.odd]
    BY <1>2, <2>5
  <2>7. m.place = l.place /\ m.array = r /\ m.n = l.n /\ m.texts = l.texts /\ m.harm = l.harm /\ m.odd = l.odd
    BY <2>6
  <2>8. r # <<>>
    BY <2>3, <2>4, EmptySeq
  <2>9. Used(m) = r
    BY <2>7, <2>8 DEF Used
  <2>10. ArgList(m)
    BY <2>1, <2>3, <2>4, <2>6, <2>7, <2>9, Zenon DEF ArgList
  <2> QED
    BY <1>1, <1>4, <2>2, <2>3, <2>7, <2>8, <2>9, <2>10 DEF OneSet
<1> QED
  BY <1>3, <1>4

(* m is l but for its texts and for harm. *)
TextsSet(m, l) ==
  /\ ArgList(m) /\ Used(m) = Used(l) /\ m.place = l.place /\ m.array = l.array /\ m.n = l.n /\ m.odd = l.odd

LEMMA DeleteIs ==
  ASSUME NEW l, ArgList(l), NEW p \in ArgParams
  PROVE  /\ TextsSet(Delete(l, p), l)
         /\ DOMAIN Delete(l, p).texts = IF IsText(p) THEN DOMAIN l.texts \ {p.at} ELSE DOMAIN l.texts
         /\ \A a \in DOMAIN Delete(l, p).texts : Delete(l, p).texts[a] = l.texts[a]
         /\ Delete(l, p).harm = IF IsText(p) /\ p.at \notin DOMAIN l.texts THEN l.harm \cup {"twice"} ELSE l.harm
<1>1. PICK m : m = Delete(l, p)
  OBVIOUS
<1>2. /\ l = [place |-> l.place, array |-> l.array, n |-> l.n, texts |-> l.texts, harm |-> l.harm, odd |-> l.odd]
      /\ l.harm \subseteq Harmful
  BY Zenon DEF ArgList
<1>3. CASE ~IsText(p)
  <2>1. m = l
    BY <1>1, <1>3 DEF Delete
  <2> QED
    BY <1>1, <1>3, <2>1, Zenon DEF TextsSet
<1>4. CASE IsText(p) /\ p.at \notin DOMAIN l.texts
  <2>1. m = [l EXCEPT !.harm = @ \cup {"twice"}]
    BY <1>1, <1>4 DEF Delete
  <2>2. m = [place |-> l.place, array |-> l.array, n |-> l.n, texts |-> l.texts, harm |-> l.harm \cup {"twice"},
             odd |-> l.odd]
    BY <1>2, <2>1
  <2>3. /\ m.place = l.place /\ m.array = l.array /\ m.n = l.n /\ m.texts = l.texts /\ m.odd = l.odd
        /\ m.harm = l.harm \cup {"twice"} /\ m.harm \subseteq Harmful
    BY <1>2, <2>2 DEF Harmful
  <2>4. Used(m) = Used(l)
    BY <2>3 DEF Used
  <2>5. ArgList(m)
    BY <2>2, <2>3, <2>4, Zenon DEF ArgList
  <2>6. DOMAIN l.texts \ {p.at} = DOMAIN l.texts
    BY <1>4
  <2> QED
    BY <1>1, <1>4, <2>3, <2>4, <2>5, <2>6 DEF TextsSet
<1>5. CASE IsText(p) /\ p.at \in DOMAIN l.texts
  <2>1. PICK D : D = DOMAIN l.texts \ {p.at}
    OBVIOUS
  <2>2. PICK t : t = [a \in D |-> l.texts[a]]
    OBVIOUS
  <2>3. m = [l EXCEPT !.texts = t]
    BY <1>1, <1>5, <2>1, <2>2 DEF Delete, Restrict
  <2>4. m = [place |-> l.place, array |-> l.array, n |-> l.n, texts |-> t, harm |-> l.harm, odd |-> l.odd]
    BY <1>2, <2>3
  <2>5. /\ m.place = l.place /\ m.array = l.array /\ m.n = l.n /\ m.texts = t /\ m.odd = l.odd
        /\ m.harm = l.harm
    BY <2>4
  <2>6. Used(m) = Used(l)
    BY <2>5 DEF Used
  <2>7. /\ DOMAIN t = D /\ t = [a \in DOMAIN t |-> t[a]] /\ D \subseteq DOMAIN l.texts
        /\ \A a \in D : t[a] = l.texts[a]
    BY <2>1, <2>2
  <2>8. IsFiniteSet(DOMAIN l.texts) /\ DOMAIN l.texts \subseteq ArgAddresses /\ \A a \in DOMAIN l.texts : l.texts[a] \in ArgTexts
    BY Zenon DEF ArgList
  <2>9. IsFiniteSet(D)
    BY <2>7, <2>8, FS_Subset
  <2>10. D \subseteq ArgAddresses /\ \A a \in D : t[a] \in ArgTexts
    BY <2>7, <2>8
  <2>11. ArgList(m)
    BY <2>4, <2>5, <2>6, <2>7, <2>9, <2>10, Zenon DEF ArgList
  <2> QED
    BY <1>1, <1>5, <2>1, <2>5, <2>6, <2>7, <2>11 DEF TextsSet
<1> QED
  BY <1>3, <1>4, <1>5

(* What may be set, and what it does to the texts. *)
ArgValues == ArgNumbers \cup ArgTexts \cup {NoText, "unset"}

TextSet(m, l, p) ==
  /\ IF IsText(p)
     THEN /\ p.at \notin DOMAIN l.texts /\ DOMAIN m.texts = DOMAIN l.texts \cup {p.at}
          /\ \A i \in 1 .. Len(Used(l)) : Used(l)[i].at # p.at
     ELSE DOMAIN m.texts = DOMAIN l.texts
  /\ \A a \in DOMAIN l.texts : m.texts[a] = l.texts[a]

LEMMA SetParamIs ==
  ASSUME NEW l, ArgList(l), NEW k \in 1 .. Len(Used(l)), NEW v \in ArgValues
  PROVE  \E p \in ArgParams :
           /\ OneSet(SetParam(l, k, v), l, k, p) /\ TextSet(SetParam(l, k, v), l, p)
           /\ SetParam(l, k, v).harm = l.harm /\ Says(p, SetParam(l, k, v).texts) = v
<1>1. PICK m : m = SetParam(l, k, v)
  OBVIOUS
<1>2. {"unset", "stale", "none"} \cap (ArgNumbers \cup ArgTexts \cup {NoText}) = {} /\ NoText \notin ArgNumbers \cup ArgTexts
  BY ArgsAssumption
<1>3. ASSUME NEW p \in ArgParams, m = PutAt(l, k, p), ~IsText(p), \A t : Says(p, t) = v
      PROVE  /\ OneSet(m, l, k, p) /\ TextSet(m, l, p)
             /\ m.harm = l.harm /\ Says(p, m.texts) = v
  <2>1. OneSet(m, l, k, p) /\ m.texts = l.texts /\ m.harm = l.harm
    BY <1>3, PutAtIs
  <2> QED
    BY <1>3, <2>1 DEF TextSet
<1>4. CASE v \in ArgNumbers
  <2>1. PICK p : p = [type |-> "CZLONG", at |-> v]
    OBVIOUS
  <2>2. p \in ArgParams /\ ~IsText(p) /\ \A t : Says(p, t) = v
    BY <1>4, <2>1 DEF ArgParams, IsText, Says
  <2>3. m = PutAt(l, k, p)
    BY <1>1, <1>4, <2>1, Zenon DEF SetParam
  <2> QED
    BY <1>1, <1>3, <2>2, <2>3
<1>5. CASE v \notin ArgNumbers /\ v = "unset"
  <2>1. Unset \in ArgParams /\ ~IsText(Unset) /\ \A t : Says(Unset, t) = v
    BY <1>5 DEF ArgParams, IsText, Says, Unset
  <2>2. m = PutAt(l, k, Unset)
    BY <1>1, <1>5, Zenon DEF SetParam
  <2> QED
    BY <1>1, <1>3, <2>1, <2>2
<1>6. CASE v \notin ArgNumbers /\ v = NoText
  <2>1. PICK p : p = [type |-> "CZSTRING", at |-> 0]
    OBVIOUS
  <2>2. p \in ArgParams /\ ~IsText(p) /\ \A t : Says(p, t) = v
    BY <1>6, <2>1 DEF ArgParams, IsText, Says
  <2>3. v # "unset" /\ v # "stale"
    BY <1>2, <1>6
  <2>4. m = PutAt(l, k, p)
    BY <1>1, <1>6, <2>1, <2>3, Zenon DEF SetParam
  <2> QED
    BY <1>1, <1>3, <2>2, <2>4
<1>7. CASE v \in ArgTexts
  <2>1. v \notin ArgNumbers /\ v # "unset" /\ v # "stale" /\ v # NoText
    <3>1. v \notin ArgNumbers
      BY <1>7, ArgsAssumption
    <3> QED
      BY <1>2, <1>7, <3>1
  <2>2. PICK f : f = Fresh(l)
    OBVIOUS
  <2>3. /\ f \in ArgAddresses /\ f \notin DOMAIN l.texts
        /\ \A i \in 1 .. Len(l.place) : l.place[i].at # f
        /\ \A i \in 1 .. Len(l.array) : l.array[i].at # f
    BY <2>2, FreshIs
  <2>4. PICK t : t = [a \in DOMAIN l.texts \cup {f} |-> IF a = f THEN v ELSE l.texts[a]]
    OBVIOUS
  <2>5. PICK n : n = [l EXCEPT !.texts = t]
    OBVIOUS
  <2>6. PICK p : p = [type |-> "CZSTRING", at |-> f]
    OBVIOUS
  <2>8. m = PutAt(n, k, p)
    BY <1>1, <2>1, <2>2, <2>4, <2>5, <2>6, Zenon DEF SetParam
  <2>9. /\ l = [place |-> l.place, array |-> l.array, n |-> l.n, texts |-> l.texts, harm |-> l.harm, odd |-> l.odd]
        /\ IsFiniteSet(DOMAIN l.texts) /\ DOMAIN l.texts \subseteq ArgAddresses
        /\ \A a \in DOMAIN l.texts : l.texts[a] \in ArgTexts
    BY Zenon DEF ArgList
  <2>10. n = [place |-> l.place, array |-> l.array, n |-> l.n, texts |-> t, harm |-> l.harm, odd |-> l.odd]
    BY <2>5, <2>9
  <2>11. n.place = l.place /\ n.array = l.array /\ n.n = l.n /\ n.texts = t /\ n.harm = l.harm /\ n.odd = l.odd
    BY <2>10
  <2>12. Used(n) = Used(l)
    BY <2>11 DEF Used
  <2>13. /\ t = [a \in DOMAIN t |-> t[a]] /\ DOMAIN t = DOMAIN l.texts \cup {f} /\ t[f] = v
         /\ \A a \in DOMAIN l.texts : t[a] = l.texts[a]
    BY <2>3, <2>4
  <2>14. IsFiniteSet(DOMAIN t)
    BY <2>9, <2>13, FS_AddElement
  <2>15. DOMAIN t \subseteq ArgAddresses /\ \A a \in DOMAIN t : t[a] \in ArgTexts
    BY <1>7, <2>3, <2>9, <2>13
  <2>16. ArgList(n)
    BY <2>10, <2>11, <2>12, <2>13, <2>14, <2>15, Zenon DEF ArgList
  <2>17. p \in ArgParams /\ IsText(p) /\ p.at = f
    BY <2>3, <2>6 DEF ArgParams, IsText, ArgAddresses
  <2>18. OneSet(m, n, k, p) /\ m.texts = t /\ m.harm = l.harm
    BY <2>8, <2>11, <2>12, <2>16, <2>17, PutAtIs
  <2>19. OneSet(m, l, k, p)
    BY <2>11, <2>12, <2>18, Zenon DEF OneSet
  <2>20. \A i \in 1 .. Len(Used(l)) : Used(l)[i].at # f
    BY <2>3, Zenon DEF Used
  <2>21. TextSet(m, l, p)
    BY <2>3, <2>13, <2>17, <2>18, <2>20 DEF TextSet
  <2>22. Says(p, t) = v
    BY <2>3, <2>6, <2>13 DEF Says, ArgAddresses
  <2> QED
    BY <1>1, <2>17, <2>18, <2>19, <2>21, <2>22
<1> QED
  BY <1>4, <1>5, <1>6, <1>7 DEF ArgValues

(***************************************************************************)
(* What the list that did not grow with a text in it keeps: a text belongs to *)
(* one parameter.  And what it keeps unless texts were forgotten or           *)
(* overwritten: each belongs to one of the arguments.                        *)
(***************************************************************************)
Sound(l) ==
  /\ \A i \in 1 .. Len(Used(l)) : IsText(Used(l)[i]) => Used(l)[i].at \in DOMAIN l.texts
  /\ \A i, j \in 1 .. Len(Used(l)) :
       IsText(Used(l)[i]) /\ IsText(Used(l)[j]) /\ Used(l)[i].at = Used(l)[j].at => i = j
  /\ l.array # <<>> => \A i \in 1 .. Len(l.place) : ~IsText(l.place[i])

Covers(l, K) == \A a \in DOMAIN l.texts : \E i \in K : IsText(Used(l)[i]) /\ Used(l)[i].at = a

HarmOwed(harm, odd) ==
  /\ "twice" \in harm => "moved" \in odd
  /\ "stale" \in harm => {"moved", "itself"} \cap odd # {}
  /\ "lost" \in harm => {"forgot", "overwritten"} \cap odd # {}

ListInv(l) ==
  /\ ArgList(l) /\ HarmOwed(l.harm, l.odd)
  /\ "moved" \notin l.odd => Sound(l)
  /\ {"forgot", "overwritten"} \cap l.odd = {} => Covers(l, 1 .. l.n)

LEMMA SetKeepsSound ==
  ASSUME NEW l, ArgList(l), Sound(l), NEW k \in 1 .. Len(Used(l)), NEW p \in ArgParams,
         NEW m, OneSet(m, l, k, p), TextSet(m, l, p)
  PROVE  Sound(m)
<1>1. PICK n \in Nat : n = Len(Used(l))
  BY UsedIs
<1>2. PICK u \in Seq(ArgParams) : u = Used(l)
  BY UsedIs
<1>3. PICK w : w = Used(m)
  OBVIOUS
<1>4. k \in 1 .. n /\ Len(w) = n /\ \A i \in 1 .. n : w[i] = IF i = k THEN p ELSE u[i]
  BY <1>1, <1>2, <1>3, ExceptSeq DEF OneSet
<1>5. /\ \A i \in 1 .. n : IsText(u[i]) => u[i].at \in DOMAIN l.texts
      /\ \A i, j \in 1 .. n : IsText(u[i]) /\ IsText(u[j]) /\ u[i].at = u[j].at => i = j
  BY <1>1, <1>2, Zenon DEF Sound
<1>6. /\ DOMAIN m.texts = IF IsText(p) THEN DOMAIN l.texts \cup {p.at} ELSE DOMAIN l.texts
      /\ IsText(p) => \A i \in 1 .. n : u[i].at # p.at
  BY <1>1, <1>2 DEF TextSet
<1>7. \A i \in 1 .. n : IsText(w[i]) => w[i].at \in DOMAIN m.texts
  BY <1>4, <1>5, <1>6
<1>8. \A i, j \in 1 .. n : IsText(w[i]) /\ IsText(w[j]) /\ w[i].at = w[j].at => i = j
  BY <1>4, <1>5, <1>6
<1>9. m.array # <<>> => \A i \in 1 .. Len(m.place) : ~IsText(m.place[i])
  BY Zenon DEF Sound, OneSet
<1> QED
  BY <1>3, <1>4, <1>7, <1>8, <1>9 DEF Sound

LEMMA SetKeepsCovers ==
  ASSUME NEW l, ArgList(l), NEW K, K \subseteq 1 .. Len(Used(l)), Covers(l, K),
         NEW k \in 1 .. Len(Used(l)), k \notin K \/ ~IsText(Used(l)[k]),
         NEW p \in ArgParams, NEW m, OneSet(m, l, k, p), TextSet(m, l, p)
  PROVE  Covers(m, K \cup {k})
<1>1. PICK n \in Nat : n = Len(Used(l))
  BY UsedIs
<1>2. PICK u \in Seq(ArgParams) : u = Used(l)
  BY UsedIs
<1>3. PICK w : w = Used(m)
  OBVIOUS
<1>4. k \in 1 .. n /\ Len(w) = n /\ \A i \in 1 .. n : w[i] = IF i = k THEN p ELSE u[i]
  BY <1>1, <1>2, <1>3, ExceptSeq DEF OneSet
<1>5. SUFFICES ASSUME NEW a \in DOMAIN m.texts
               PROVE  \E i \in K \cup {k} : IsText(w[i]) /\ w[i].at = a
  BY <1>3 DEF Covers
<1>6. a \in DOMAIN l.texts \/ (IsText(p) /\ a = p.at)
  BY DEF TextSet
<1>7. CASE a \in DOMAIN l.texts
  <2>1. PICK i \in K : IsText(u[i]) /\ u[i].at = a
    BY <1>2, <1>7 DEF Covers
  <2>2. i # k /\ i \in 1 .. n
    BY <1>1, <1>2, <2>1
  <2> QED
    BY <1>4, <2>1, <2>2
<1>8. CASE IsText(p) /\ a = p.at
  <2>1. w[k] = p
    BY <1>4
  <2> QED
    BY <1>8, <2>1
<1> QED
  BY <1>6, <1>7, <1>8

(* What the other parameters answer is not touched. *)
LEMMA SetKeepsAnswers ==
  ASSUME NEW l, ArgList(l), NEW k \in 1 .. Len(Used(l)), NEW p \in ArgParams,
         NEW m, OneSet(m, l, k, p), TextSet(m, l, p),
         NEW i \in 1 .. Len(Used(l)), i # k
  PROVE  Says(Used(m)[i], m.texts) = Says(Used(l)[i], l.texts)
<1>1. PICK u \in Seq(ArgParams) : u = Used(l)
  BY UsedIs
<1>2. Used(m)[i] = u[i]
  BY <1>1, ExceptSeq DEF OneSet
<1>3. PICK q : q = u[i]
  OBVIOUS
<1>4. q \in ArgParams
  BY <1>1, <1>3, ElementOfSeq
<1>5. \A a \in DOMAIN l.texts : m.texts[a] = l.texts[a]
  BY Zenon DEF TextSet
<1>6. q.at \in DOMAIN m.texts <=> q.at \in DOMAIN l.texts
  BY <1>1, <1>3 DEF TextSet
<1>7. Says(q, m.texts) = Says(q, l.texts)
  BY <1>5, <1>6, Zenon DEF Says
<1> QED
  BY <1>1, <1>2, <1>3, <1>7

(* Clearing takes a text from memory, that one of the others may have too. *)
Cleared(m, l, k, p) ==
  /\ OneSet(m, l, k, Unset)
  /\ DOMAIN m.texts = IF IsText(p) THEN DOMAIN l.texts \ {p.at} ELSE DOMAIN l.texts
  /\ \A a \in DOMAIN m.texts : m.texts[a] = l.texts[a]
  /\ m.harm = IF IsText(p) /\ p.at \notin DOMAIN l.texts THEN l.harm \cup {"twice"} ELSE l.harm

LEMMA ClearIs ==
  ASSUME NEW l, ArgList(l), NEW k \in 1 .. Len(Used(l)), NEW m, m = ClearParam(l, k),
         NEW p, p = Used(l)[k]
  PROVE  Cleared(m, l, k, p)
<1>1. PICK d : d = Delete(l, p)
  OBVIOUS
<1>2. p \in ArgParams /\ Unset \in ArgParams
  <2>1. Unset \in ArgParams
    BY DEF ArgParams, Unset
  <2> QED
    BY <2>1, UsedIs
<1>3. /\ TextsSet(d, l)
      /\ DOMAIN d.texts = IF IsText(p) THEN DOMAIN l.texts \ {p.at} ELSE DOMAIN l.texts
      /\ \A a \in DOMAIN d.texts : d.texts[a] = l.texts[a]
      /\ d.harm = IF IsText(p) /\ p.at \notin DOMAIN l.texts THEN l.harm \cup {"twice"} ELSE l.harm
  BY <1>1, <1>2, DeleteIs
<1>4. /\ ArgList(d) /\ Used(d) = Used(l) /\ d.place = l.place /\ d.array = l.array /\ d.n = l.n
      /\ d.odd = l.odd
  BY <1>3, Zenon DEF TextsSet
<1>5. m = PutAt(d, k, Unset)
  BY <1>1, Zenon DEF ClearParam
<1>6. OneSet(m, d, k, Unset) /\ m.texts = d.texts /\ m.harm = d.harm
  BY <1>2, <1>4, <1>5, PutAtIs
<1>7. OneSet(m, l, k, Unset)
  BY <1>4, <1>6, Zenon DEF OneSet
<1> QED
  BY <1>3, <1>6, <1>7 DEF Cleared

LEMMA ClearKeeps ==
  ASSUME NEW l, ArgList(l), NEW k \in 1 .. Len(Used(l)), NEW m, m = ClearParam(l, k)
  PROVE  /\ Sound(l) => /\ Sound(m) /\ m.harm = l.harm
                        /\ \A i \in 1 .. Len(Used(l)) : i # k =>
                             Says(Used(m)[i], m.texts) = Says(Used(l)[i], l.texts)
         /\ \A K \in SUBSET (1 .. Len(Used(l))) : Covers(l, K) => Covers(m, K \ {k})
<1>1. PICK p : p = Used(l)[k]
  OBVIOUS
<1>2. /\ OneSet(m, l, k, Unset)
      /\ DOMAIN m.texts = IF IsText(p) THEN DOMAIN l.texts \ {p.at} ELSE DOMAIN l.texts
      /\ \A a \in DOMAIN m.texts : m.texts[a] = l.texts[a]
      /\ m.harm = IF IsText(p) /\ p.at \notin DOMAIN l.texts THEN l.harm \cup {"twice"} ELSE l.harm
  <2>1. Cleared(m, l, k, p)
    BY <1>1, ClearIs
  <2> QED
    BY <2>1, Zenon DEF Cleared
<1>3. PICK n \in Nat : n = Len(Used(l))
  BY UsedIs
<1>4. PICK u \in Seq(ArgParams) : u = Used(l)
  BY UsedIs
<1>5. PICK w : w = Used(m)
  OBVIOUS
<1>6. k \in 1 .. n /\ Len(w) = n /\ \A i \in 1 .. n : w[i] = IF i = k THEN Unset ELSE u[i]
  BY <1>2, <1>3, <1>4, <1>5, ExceptSeq DEF OneSet
<1>7. ~IsText(Unset)
  BY DEF IsText, Unset
<1>8. ASSUME Sound(l)
      PROVE  /\ Sound(m) /\ m.harm = l.harm
             /\ \A i \in 1 .. n : i # k => Says(w[i], m.texts) = Says(u[i], l.texts)
  <2>1. /\ \A i \in 1 .. n : IsText(u[i]) => u[i].at \in DOMAIN l.texts
        /\ \A i, j \in 1 .. n : IsText(u[i]) /\ IsText(u[j]) /\ u[i].at = u[j].at => i = j
    BY <1>3, <1>4, <1>8, Zenon DEF Sound
  <2>2. p = u[k]
    BY <1>1, <1>4
  <2>3. m.harm = l.harm
    BY <1>2, <1>6, <2>1, <2>2
  <2>4. ASSUME NEW i \in 1 .. n, i # k, IsText(u[i])
        PROVE  u[i].at \in DOMAIN m.texts
    BY <1>2, <1>6, <2>1, <2>2, <2>4
  <2>5. \A i \in 1 .. n : IsText(w[i]) => w[i].at \in DOMAIN m.texts
    BY <1>6, <1>7, <2>4
  <2>6. \A i, j \in 1 .. n : IsText(w[i]) /\ IsText(w[j]) /\ w[i].at = w[j].at => i = j
    BY <1>6, <1>7, <2>1
  <2>7. m.array # <<>> => \A i \in 1 .. Len(m.place) : ~IsText(m.place[i])
    BY <1>2, <1>8, Zenon DEF Sound, OneSet
  <2>8. Sound(m)
    BY <1>5, <1>6, <2>5, <2>6, <2>7 DEF Sound
  <2>9. ASSUME NEW i \in 1 .. n, i # k
        PROVE  Says(w[i], m.texts) = Says(u[i], l.texts)
    <3>1. PICK q : q = u[i]
      OBVIOUS
    <3>2. q \in ArgParams /\ w[i] = q
      BY <1>3, <1>4, <1>6, <2>9, <3>1, ElementOfSeq
    <3>3. CASE IsText(q)
      <4>1. q.at \in DOMAIN m.texts /\ q.at \in DOMAIN l.texts /\ m.texts[q.at] = l.texts[q.at]
        BY <1>2, <2>1, <2>4, <2>9, <3>1, <3>3
      <4> QED
        BY <3>1, <3>2, <4>1, Zenon DEF Says
    <3>4. CASE ~IsText(q)
      <4>1. q.type = "CZLONG" \/ q.type = "UNKNOWN" \/ q.at = 0
        BY <3>2, <3>4, ParamIs DEF IsText
      <4> QED
        BY <3>1, <3>2, <4>1, Zenon DEF Says
    <3> QED
      BY <3>3, <3>4
  <2> QED
    BY <2>3, <2>8, <2>9
<1>9. ASSUME NEW K \in SUBSET (1 .. n), Covers(l, K)
      PROVE  Covers(m, K \ {k})
  <2>1. SUFFICES ASSUME NEW a \in DOMAIN m.texts
                 PROVE  \E i \in K \ {k} : IsText(w[i]) /\ w[i].at = a
    BY <1>5 DEF Covers
  <2>2. a \in DOMAIN l.texts /\ ~(IsText(p) /\ p.at = a)
    BY <1>2
  <2>3. PICK i \in K : IsText(u[i]) /\ u[i].at = a
    BY <1>4, <1>9, <2>2 DEF Covers
  <2>4. i # k /\ i \in 1 .. n
    BY <1>1, <1>4, <2>2, <2>3
  <2> QED
    BY <1>6, <2>3, <2>4
<1> QED
  BY <1>3, <1>4, <1>5, <1>8, <1>9

(* m is l but for parameter k, that answers v; nothing else happened if l is sound. *)
ListChanged(m, l, k, v) ==
  /\ ArgList(m) /\ m.n = l.n /\ m.odd = l.odd /\ Len(Used(m)) = Len(Used(l))
  /\ m.harm \subseteq l.harm \cup {"twice"}
  /\ Sound(l) => /\ Sound(m) /\ m.harm = l.harm
                 /\ \A i \in 1 .. Len(Used(l)) :
                      Says(Used(m)[i], m.texts) = IF i = k THEN v ELSE Says(Used(l)[i], l.texts)

LEMMA SetChanges ==
  ASSUME NEW l, ArgList(l), NEW k \in 1 .. Len(Used(l)), NEW v \in ArgValues, NEW m, m = SetParam(l, k, v)
  PROVE  /\ ListChanged(m, l, k, v)
         /\ \A K \in SUBSET (1 .. Len(Used(l))) :
              Covers(l, K) /\ (k \notin K \/ ~IsText(Used(l)[k])) => Covers(m, K \cup {k})
<1>1. PICK p \in ArgParams : OneSet(m, l, k, p) /\ TextSet(m, l, p) /\ m.harm = l.harm /\ Says(p, m.texts) = v
  BY SetParamIs
<1>2. PICK u \in Seq(ArgParams) : u = Used(l)
  BY UsedIs
<1>3. ArgList(m) /\ m.n = l.n /\ m.odd = l.odd /\ Used(m) = [u EXCEPT ![k] = p]
  BY <1>1, <1>2, Zenon DEF OneSet
<1>4. Len(Used(m)) = Len(u) /\ Used(m)[k] = p
  BY <1>2, <1>3, ExceptSeq
<1>5. Sound(l) => Sound(m)
  BY <1>1, SetKeepsSound
<1>6. \A i \in 1 .. Len(Used(l)) :
        Says(Used(m)[i], m.texts) = IF i = k THEN v ELSE Says(Used(l)[i], l.texts)
  BY <1>1, <1>4, SetKeepsAnswers
<1>7. ListChanged(m, l, k, v)
  BY <1>1, <1>2, <1>3, <1>4, <1>5, <1>6 DEF ListChanged
<1>8. ASSUME NEW K \in SUBSET (1 .. Len(Used(l))), Covers(l, K), k \notin K \/ ~IsText(Used(l)[k])
      PROVE  Covers(m, K \cup {k})
  BY <1>1, <1>8, SetKeepsCovers
<1> QED
  BY <1>7, <1>8

LEMMA AssignChanges ==
  ASSUME NEW l, ArgList(l), NEW k \in 1 .. Len(Used(l)), NEW v \in ArgValues, NEW m, m = AssignParam(l, k, v)
  PROVE  /\ ListChanged(m, l, k, v)
         /\ \A K \in SUBSET (1 .. Len(Used(l))) : Covers(l, K) => Covers(m, K \cup {k})
<1>1. PICK d : d = ClearParam(l, k)
  OBVIOUS
<1>2. PICK p : p = Used(l)[k]
  OBVIOUS
<1>3. OneSet(d, l, k, Unset) /\ d.harm \subseteq l.harm \cup {"twice"}
  <2>1. Cleared(d, l, k, p)
    BY <1>1, <1>2, ClearIs
  <2> QED
    BY <2>1 DEF Cleared
<1>4. /\ Sound(l) => /\ Sound(d) /\ d.harm = l.harm
                     /\ \A i \in 1 .. Len(Used(l)) : i # k =>
                          Says(Used(d)[i], d.texts) = Says(Used(l)[i], l.texts)
      /\ \A K \in SUBSET (1 .. Len(Used(l))) : Covers(l, K) => Covers(d, K \ {k})
  BY <1>1, ClearKeeps
<1>5. PICK u \in Seq(ArgParams) : u = Used(l)
  BY UsedIs
<1>6. ArgList(d) /\ d.n = l.n /\ d.odd = l.odd /\ Used(d) = [u EXCEPT ![k] = Unset]
  BY <1>3, <1>5, Zenon DEF OneSet
<1>7. Len(Used(d)) = Len(u)
  BY <1>5, <1>6, ExceptSeq
<1>8. m = SetParam(d, k, v)
  BY <1>1, Zenon DEF AssignParam
<1>9. k \in 1 .. Len(Used(d))
  BY <1>5, <1>7
<1>10. /\ ListChanged(m, d, k, v)
       /\ \A K \in SUBSET (1 .. Len(Used(d))) :
            Covers(d, K) /\ (k \notin K \/ ~IsText(Used(d)[k])) => Covers(m, K \cup {k})
  BY <1>6, <1>8, <1>9, SetChanges
<1>11. ListChanged(m, l, k, v)
  <2>1. /\ ArgList(m) /\ m.n = l.n /\ m.odd = l.odd /\ Len(Used(m)) = Len(Used(l))
        /\ m.harm \subseteq l.harm \cup {"twice"}
    BY <1>3, <1>5, <1>6, <1>7, <1>10 DEF ListChanged
  <2>2. ASSUME Sound(l)
        PROVE  /\ Sound(m) /\ m.harm = l.harm
               /\ \A i \in 1 .. Len(Used(l)) :
                    Says(Used(m)[i], m.texts) = IF i = k THEN v ELSE Says(Used(l)[i], l.texts)
    <3>1. Sound(d) /\ d.harm = l.harm
      BY <1>4, <2>2
    <3>2. /\ Sound(m) /\ m.harm = d.harm
          /\ \A i \in 1 .. Len(Used(l)) :
               Says(Used(m)[i], m.texts) = IF i = k THEN v ELSE Says(Used(d)[i], d.texts)
      BY <1>5, <1>7, <1>10, <3>1, Zenon DEF ListChanged
    <3> QED
      BY <1>4, <2>2, <3>1, <3>2
  <2> QED
    BY <2>1, <2>2 DEF ListChanged
<1>12. ASSUME NEW K \in SUBSET (1 .. Len(Used(l))), Covers(l, K)
       PROVE  Covers(m, K \cup {k})
  <2>1. PICK J : J = K \ {k}
    OBVIOUS
  <2>2. J \in SUBSET (1 .. Len(Used(d))) /\ k \notin J /\ J \cup {k} = K \cup {k}
    BY <1>5, <1>7, <2>1
  <2>3. Covers(d, J)
    BY <1>4, <1>12, <2>1
  <2> QED
    BY <1>10, <2>2, <2>3
<1> QED
  BY <1>11, <1>12

(* When the list grows, the arguments stay in their order; if that took a text along, no
   more is said of the texts than that each still belongs to an argument. *)
Grown(m, l) ==
  /\ ArgList(m) /\ m.n = l.n /\ l.odd \subseteq m.odd /\ m.odd \subseteq l.odd \cup {"moved"}
  /\ Len(Used(l)) <= Len(Used(m)) /\ \A i \in 1 .. l.n : Used(m)[i] = Used(l)[i]
  /\ Covers(l, 1 .. l.n) => Covers(m, 1 .. l.n)
  /\ m.harm \subseteq l.harm \cup {"twice"}
  /\ "moved" \in m.odd \/ (m.harm = l.harm /\ m.texts = l.texts /\ (Sound(l) => Sound(m)))

LEMMA IncreaseIs ==
  ASSUME NEW l, ArgList(l), l.n = Len(Used(l)), NEW m, m = IncreaseArgs(l)
  PROVE  Grown(m, l) /\ l.n < Len(Used(m))
<1>1. PICK n \in Nat \ {0} : n = Len(Used(l))
  BY UsedIs
<1>2. PICK u \in Seq(ArgParams) : u = Used(l)
  BY UsedIs
<1>3. n = Len(u) /\ l.n = n /\ \A i \in 1 .. n : u[i] \in ArgParams
  BY <1>1, <1>2, ElementOfSeq
<1>4. PICK d : d = IF l.array = <<>> THEN l ELSE Delete(l, u[1])
  OBVIOUS
<1>5. /\ TextsSet(d, l)
      /\ \A a \in DOMAIN d.texts : a \in DOMAIN l.texts
      /\ d.harm = l.harm \/ (l.array # <<>> /\ IsText(u[1]) /\ d.harm = l.harm \cup {"twice"})
      /\ (l.array # <<>> /\ IsText(u[1])) \/ d.texts = l.texts
  <2>1. CASE l.array = <<>>
    <3>1. d = l
      BY <1>4, <2>1
    <3>2. TextsSet(l, l)
      BY Zenon DEF TextsSet
    <3> QED
      BY <3>1, <3>2
  <2>2. CASE l.array # <<>>
    <3>1. d = Delete(l, u[1]) /\ u[1] \in ArgParams
      BY <1>1, <1>3, <1>4, <2>2
    <3>2. /\ TextsSet(d, l)
          /\ DOMAIN d.texts = IF IsText(u[1]) THEN DOMAIN l.texts \ {u[1].at} ELSE DOMAIN l.texts
          /\ d.harm = IF IsText(u[1]) /\ u[1].at \notin DOMAIN l.texts THEN l.harm \cup {"twice"} ELSE l.harm
      BY <3>1, DeleteIs
    <3>3. IsText(u[1]) \/ d.texts = l.texts
      BY <3>1, Zenon DEF Delete
    <3> QED
      BY <2>2, <3>2, <3>3
  <2> QED
    BY <2>1, <2>2
<1>6. PICK moved : moved = \E p \in IF l.array = <<>> THEN ToSet(u) ELSE {u[1]} : IsText(p)
  OBVIOUS
<1>7. PICK odd : odd = l.odd \cup IF moved THEN {"moved"} ELSE {}
  OBVIOUS
<1>8. PICK s : s = [i \in 1 .. n + Increment |-> IF i <= n THEN u[i] ELSE Unset]
  OBVIOUS
<1>9. /\ d = [place |-> d.place, array |-> d.array, n |-> d.n, texts |-> d.texts, harm |-> d.harm, odd |-> d.odd]
      /\ d.place = l.place /\ d.array = l.array /\ d.n = n /\ d.odd = l.odd
  BY <1>3, <1>5, Zenon DEF TextsSet, ArgList
<1>10. m = [d EXCEPT !.array = s, !.odd = @ \cup IF moved THEN {"moved"} ELSE {}]
  BY <1>1, <1>2, <1>3, <1>4, <1>6, <1>8, Zenon DEF IncreaseArgs
<1>11. m = [place |-> d.place, array |-> s, n |-> d.n, texts |-> d.texts, harm |-> d.harm, odd |-> odd]
  BY <1>7, <1>9, <1>10
<1>12. m.place = l.place /\ m.array = s /\ m.n = n /\ m.texts = d.texts /\ m.harm = d.harm /\ m.odd = odd
  BY <1>9, <1>11
<1>13. PICK z \in Nat : z = n + Increment /\ n < z
  BY ArgsAssumption
<1>14. Unset \in ArgParams
  BY DEF ArgParams, Unset
<1>15. s \in Seq(ArgParams) /\ Len(s) = z /\ \A i \in 1 .. n : s[i] = u[i]
  <2>1. \A i \in 1 .. z : (IF i <= n THEN u[i] ELSE Unset) \in ArgParams
    BY <1>3, <1>14
  <2> QED
    BY <1>8, <1>13, <2>1
<1>16. \A i \in 1 .. z : i \notin 1 .. n => s[i] = Unset
  BY <1>8, <1>13
<1>17. s # <<>>
  BY <1>13, <1>15
<1>18. Used(m) = s
  BY <1>12, <1>17 DEF Used
<1>19. ArgList(m)
  <2>1. ArgList(d) /\ ArgList(l)
    BY <1>5, Zenon DEF TextsSet
  <2>2. n <= z
    BY <1>13
  <2> QED
    BY <1>9, <1>11, <1>12, <1>15, <1>18, <2>1, <2>2, Zenon DEF ArgList
<1>20. ASSUME Covers(l, 1 .. l.n) PROVE Covers(m, 1 .. l.n)
  <2>1. \A a \in DOMAIN l.texts : \E i \in 1 .. n : IsText(u[i]) /\ u[i].at = a
    BY <1>2, <1>3, <1>20, Zenon DEF Covers
  <2>2. \A a \in DOMAIN m.texts : \E i \in 1 .. n : IsText(s[i]) /\ s[i].at = a
    BY <1>5, <1>12, <1>15, <2>1
  <2> QED
    BY <1>3, <1>18, <2>2, Zenon DEF Covers
<1>21. "moved" \in m.odd \/ ~moved
  BY <1>7, <1>12
<1>22. ASSUME ~moved
       PROVE  m.harm = l.harm /\ m.texts = l.texts /\ (Sound(l) => Sound(m))
  <2>1. l.array = <<>> \/ ~IsText(u[1])
    BY <1>6, <1>22
  <2>2. m.harm = l.harm /\ m.texts = l.texts
    BY <1>5, <1>12, <2>1
  <2>3. ASSUME Sound(l) PROVE Sound(m)
    <3>1. /\ \A i \in 1 .. n : IsText(u[i]) => u[i].at \in DOMAIN l.texts
          /\ \A i, j \in 1 .. n : IsText(u[i]) /\ IsText(u[j]) /\ u[i].at = u[j].at => i = j
      BY <1>1, <1>2, <2>3, Zenon DEF Sound
    <3>2. ~IsText(Unset)
      BY DEF IsText, Unset
    <3>3. \A i \in 1 .. z : IsText(s[i]) => s[i].at \in DOMAIN m.texts
      BY <1>15, <1>16, <2>2, <3>1, <3>2
    <3>4. \A i, j \in 1 .. z : IsText(s[i]) /\ IsText(s[j]) /\ s[i].at = s[j].at => i = j
      BY <1>15, <1>16, <3>1, <3>2
    <3>5. \A i \in 1 .. Len(m.place) : ~IsText(m.place[i])
      <4>1. CASE l.array = <<>>
        <5>1. l.place = u
          BY <1>2, <4>1 DEF Used
        <5>2. \A i \in 1 .. n : u[i] \in ToSet(u)
          BY <1>3, LenProperties DEF ToSet
        <5>3. \A i \in 1 .. n : ~IsText(u[i])
          BY <1>6, <1>22, <4>1, <5>2
        <5> QED
          BY <1>3, <1>12, <5>1, <5>3
      <4>2. CASE l.array # <<>>
        BY <1>12, <2>3, <4>2, Zenon DEF Sound
      <4> QED
        BY <4>1, <4>2
    <3> QED
      BY <1>15, <1>18, <3>3, <3>4, <3>5 DEF Sound
  <2> QED
    BY <2>2, <2>3
<1>23. m.harm \subseteq l.harm \cup {"twice"}
  BY <1>5, <1>12
<1>24. l.odd \subseteq m.odd /\ m.odd \subseteq l.odd \cup {"moved"}
  BY <1>7, <1>12
<1>25. Len(Used(l)) <= Len(Used(m)) /\ l.n < Len(Used(m))
  BY <1>1, <1>3, <1>13, <1>15, <1>18
<1> QED
  BY <1>2, <1>3, <1>12, <1>15, <1>18, <1>19, <1>20, <1>21, <1>22, <1>23, <1>24, <1>25 DEF Grown

LEMMA ArgRoomIs ==
  ASSUME NEW l, ArgList(l), NEW m, m = WithRoom(l)
  PROVE  Grown(m, l) /\ l.n < Len(Used(m))
<1>1. CASE l.n < Len(Used(l))
  <2>1. m = l
    BY <1>1 DEF WithRoom
  <2> QED
    BY <1>1, <2>1, UsedIs DEF Grown
<1>2. CASE ~(l.n < Len(Used(l)))
  <2>1. l.n = Len(Used(l))
    BY <1>2, UsedIs
  <2>2. m = IncreaseArgs(l)
    BY <1>2 DEF WithRoom
  <2> QED
    BY <2>1, <2>2, IncreaseIs
<1> QED
  BY <1>1, <1>2

(* m is l and one argument more, that answers v if no text was moved. *)
Added(m, l, v) ==
  /\ ListInv(m) /\ m.n = l.n + 1 /\ l.odd \subseteq m.odd /\ m.odd \subseteq l.odd \cup {"moved"}
  /\ "moved" \in m.odd \/ (m.harm = l.harm /\ Answers(m) = Append(Answers(l), v))

LEMMA AnswersAre ==
  ASSUME NEW l, ArgList(l)
  PROVE  Answers(l) = [i \in 1 .. l.n |-> Says(Used(l)[i], l.texts)]
<1>1. \A i \in 1 .. l.n : Answer(l, i) = Says(Used(l)[i], l.texts)
  BY Zenon DEF Answer, Says
<1> QED
  BY <1>1, Zenon DEF Answers

(* A parameter that is changed becomes an argument. *)
LEMMA LongerIs ==
  ASSUME NEW l, ListInv(l), NEW r, Grown(r, l), l.n < Len(Used(r)),
         NEW c, ArgList(c), c.n = r.n, c.odd = r.odd, Len(Used(c)) = Len(Used(r)),
         c.harm \subseteq r.harm \cup {"twice", "stale"},
         Covers(r, 1 .. l.n) => Covers(c, 1 .. l.n + 1),
         NEW v, "moved" \in r.odd \/ ListChanged(c, r, l.n + 1, v),
         NEW m, m = [c EXCEPT !.n = @ + 1]
  PROVE  Added(m, l, v)
<1>1. PICK n \in Nat : n = l.n
  BY UsedIs DEF ListInv
<1>2. PICK z \in Nat : z = Len(Used(r)) /\ n < z
  BY <1>1, UsedIs DEF Grown
<1>3. ArgList(l) /\ ArgList(r) /\ r.n = n /\ l.odd \subseteq r.odd /\ r.odd \subseteq l.odd \cup {"moved"}
  BY <1>1, Zenon DEF ListInv, Grown
<1>4. /\ c = [place |-> c.place, array |-> c.array, n |-> c.n, texts |-> c.texts, harm |-> c.harm, odd |-> c.odd]
      /\ c.n = n
  BY <1>3, Zenon DEF ArgList
<1>5. m = [place |-> c.place, array |-> c.array, n |-> n + 1, texts |-> c.texts, harm |-> c.harm, odd |-> c.odd]
  BY <1>4
<1>6. m.place = c.place /\ m.array = c.array /\ m.n = n + 1 /\ m.texts = c.texts /\ m.harm = c.harm /\ m.odd = r.odd
  BY <1>5
<1>7. Used(m) = Used(c)
  BY <1>6 DEF Used
<1>8. n + 1 \in Nat /\ n + 1 <= Len(Used(m))
  BY <1>2, <1>7
<1>9. ArgList(m)
  BY <1>5, <1>6, <1>7, <1>8, Zenon DEF ArgList
<1>10. ASSUME "moved" \notin m.odd
       PROVE  Sound(m) /\ m.harm = l.harm /\ Answers(m) = Append(Answers(l), v)
  <2>1. "moved" \notin r.odd /\ "moved" \notin l.odd
    BY <1>3, <1>6, <1>10
  <2>2. Sound(l) /\ ListChanged(c, r, n + 1, v)
    BY <1>1, <2>1, Zenon DEF ListInv
  <2>3. Sound(r) /\ r.harm = l.harm /\ r.texts = l.texts
    BY <2>1, <2>2, Zenon DEF Grown
  <2>4. /\ Sound(c) /\ c.harm = r.harm
        /\ \A i \in 1 .. z : Says(Used(c)[i], c.texts) = IF i = n + 1 THEN v ELSE Says(Used(r)[i], r.texts)
    BY <1>2, <2>2, <2>3, Zenon DEF ListChanged
  <2>5. Sound(m)
    BY <1>6, <1>7, <2>4, Zenon DEF Sound
  <2>6. \A i \in 1 .. n : Used(r)[i] = Used(l)[i]
    BY <1>1, Zenon DEF Grown
  <2>7. PICK f : f = [i \in 1 .. n |-> Says(Used(l)[i], l.texts)]
    OBVIOUS
  <2>8. PICK g : g = [i \in 1 .. n + 1 |-> Says(Used(c)[i], c.texts)]
    OBVIOUS
  <2>9. \A i \in 1 .. n : g[i] = f[i]
    BY <1>2, <2>3, <2>4, <2>6, <2>7, <2>8
  <2>10. g[n + 1] = v
    BY <1>2, <2>4, <2>8
  <2>11. Answers(l) = f /\ Answers(m) = g
    <3>1. Answers(l) = [i \in 1 .. l.n |-> Says(Used(l)[i], l.texts)]
      BY <1>3, AnswersAre
    <3>2. Answers(m) = [i \in 1 .. m.n |-> Says(Used(m)[i], m.texts)]
      BY <1>9, AnswersAre
    <3> QED
      BY <1>1, <1>6, <1>7, <2>7, <2>8, <3>1, <3>2, Zenon
  <2>12. PICK S : S = {f[i] : i \in 1 .. n} \cup {v}
    OBVIOUS
  <2>13. f \in Seq(S) /\ Len(f) = n
    BY <2>7, <2>12
  <2>14. g \in Seq(S) /\ Len(g) = n + 1
    <3>1. \A i \in 1 .. n : f[i] \in S
      BY <2>12
    <3>2. v \in S
      BY <2>12
    <3>3. \A i \in 1 .. n + 1 : i \in 1 .. n \/ i = n + 1
      OBVIOUS
    <3>4. \A i \in 1 .. n + 1 : g[i] \in S
      BY <2>9, <2>10, <3>1, <3>2, <3>3
    <3>5. g = [i \in 1 .. n + 1 |-> g[i]]
      BY <2>8
    <3> QED
      BY <3>4, <3>5
  <2>15. g = Append(f, v)
    BY <2>9, <2>10, <2>12, <2>13, <2>14
  <2> QED
    BY <2>3, <2>4, <2>5, <1>6, <2>11, <2>15
<1>11. HarmOwed(m.harm, m.odd)
  <2>1. HarmOwed(l.harm, l.odd)
    BY Zenon DEF ListInv
  <2>2. CASE "moved" \in m.odd
    <3>1. m.harm \subseteq l.harm \cup {"twice", "stale"} /\ l.odd \subseteq m.odd
      BY <1>3, <1>6 DEF Grown
    <3> QED
      BY <2>1, <2>2, <3>1 DEF HarmOwed
  <2>3. CASE "moved" \notin m.odd
    <3>1. m.harm = l.harm /\ m.odd = l.odd
      BY <1>3, <1>6, <1>10, <2>3
    <3> QED
      BY <2>1, <3>1
  <2> QED
    BY <2>2, <2>3
<1>12. ASSUME {"forgot", "overwritten"} \cap m.odd = {}
       PROVE  Covers(m, 1 .. m.n)
  <2>1. {"forgot", "overwritten"} \cap l.odd = {}
    BY <1>3, <1>6, <1>12
  <2>2. Covers(l, 1 .. l.n)
    BY <2>1, Zenon DEF ListInv
  <2>3. Covers(c, 1 .. n + 1)
    BY <1>1, <2>2, Zenon DEF Grown
  <2> QED
    BY <1>6, <1>7, <2>3, Zenon DEF Covers
<1>13. ListInv(m)
  BY <1>9, <1>10, <1>11, <1>12 DEF ListInv
<1> QED
  BY <1>1, <1>3, <1>6, <1>10, <1>13 DEF Added

(* What is copied from another parameter. *)
Copied == ArgValues \cup {"stale"}

LEMMA AnswersIn ==
  ASSUME NEW l, ArgList(l)
  PROVE  l.n \in Nat /\ Answers(l) \in Seq(Copied) /\ Len(Answers(l)) = l.n
<1>1. PICK n \in Nat : n = l.n
  BY UsedIs
<1>2. Answers(l) = [i \in 1 .. n |-> Says(Used(l)[i], l.texts)]
  BY <1>1, AnswersAre
<1>3. ASSUME NEW i \in 1 .. n PROVE Says(Used(l)[i], l.texts) \in Copied
  <2>1. PICK p \in ArgParams : p = Used(l)[i]
    BY <1>1, UsedIs
  <2>2. \A a \in DOMAIN l.texts : l.texts[a] \in ArgTexts
    BY Zenon DEF ArgList
  <2>3. Says(p, l.texts) \in Copied
    BY <2>2, ParamIs DEF Says, Copied, ArgValues
  <2> QED
    BY <2>1, <2>3
<1> QED
  BY <1>1, <1>2, <1>3

Assigned(m, l, k, v) ==
  /\ ArgList(m) /\ m.n = l.n /\ m.odd = l.odd /\ Len(Used(m)) = Len(Used(l))
  /\ m.harm \subseteq l.harm \cup {"twice", "stale"}
  /\ \A K \in SUBSET (1 .. Len(Used(l))) : Covers(l, K) => Covers(m, K \cup {k})
  /\ v \in ArgValues => ListChanged(m, l, k, v)

LEMMA AssignKeeps ==
  ASSUME NEW l, ArgList(l), NEW k \in 1 .. Len(Used(l)), NEW v \in Copied, NEW m, m = AssignParam(l, k, v)
  PROVE  Assigned(m, l, k, v)
<1>1. CASE v \in ArgValues
  <2>1. /\ ListChanged(m, l, k, v)
        /\ \A K \in SUBSET (1 .. Len(Used(l))) : Covers(l, K) => Covers(m, K \cup {k})
    BY <1>1, AssignChanges
  <2>2. /\ ArgList(m) /\ m.n = l.n /\ m.odd = l.odd /\ Len(Used(m)) = Len(Used(l))
        /\ m.harm \subseteq l.harm \cup {"twice"}
    BY <2>1, Zenon DEF ListChanged
  <2>3. m.harm \subseteq l.harm \cup {"twice", "stale"}
    BY <2>2
  <2> QED
    BY <2>1, <2>2, <2>3, Zenon DEF Assigned
<1>2. CASE v \notin ArgValues
  <2>1. v = "stale" /\ v \notin ArgNumbers /\ v # "unset"
    BY <1>2 DEF Copied, ArgValues
  <2>2. PICK d : d = ClearParam(l, k)
    OBVIOUS
  <2>3. m = [d EXCEPT !.harm = @ \cup {"stale"}]
    BY <2>1, <2>2, Zenon DEF AssignParam, SetParam
  <2>4. PICK p : p = Used(l)[k]
    OBVIOUS
  <2>5. Cleared(d, l, k, p)
    BY <2>2, <2>4, ClearIs
  <2>6. OneSet(d, l, k, Unset) /\ d.harm \subseteq l.harm \cup {"twice"}
    BY <2>5 DEF Cleared
  <2>7. PICK u \in Seq(ArgParams) : u = Used(l)
    BY UsedIs
  <2>8. ArgList(d) /\ d.n = l.n /\ d.odd = l.odd /\ Used(d) = [u EXCEPT ![k] = Unset]
    BY <2>6, <2>7, Zenon DEF OneSet
  <2>9. Len(Used(d)) = Len(u)
    BY <2>7, <2>8, ExceptSeq
  <2>10. /\ d = [place |-> d.place, array |-> d.array, n |-> d.n, texts |-> d.texts, harm |-> d.harm, odd |-> d.odd]
         /\ d.harm \subseteq Harmful
    BY <2>8, Zenon DEF ArgList
  <2>11. m = [place |-> d.place, array |-> d.array, n |-> d.n, texts |-> d.texts,
              harm |-> d.harm \cup {"stale"}, odd |-> d.odd]
    BY <2>3, <2>10
  <2>12. /\ m.place = d.place /\ m.array = d.array /\ m.n = d.n /\ m.texts = d.texts /\ m.odd = d.odd
         /\ m.harm = d.harm \cup {"stale"} /\ m.harm \subseteq Harmful
    BY <2>10, <2>11 DEF Harmful
  <2>13. Used(m) = Used(d)
    BY <2>12 DEF Used
  <2>14. ArgList(m)
    BY <2>8, <2>11, <2>12, <2>13, Zenon DEF ArgList
  <2>15. ASSUME NEW K \in SUBSET (1 .. Len(Used(l))), Covers(l, K)
         PROVE  Covers(m, K \cup {k})
    <3>1. Covers(d, K \ {k})
      BY <2>2, <2>15, ClearKeeps
    <3> QED
      BY <2>12, <2>13, <3>1 DEF Covers
  <2>16. m.harm \subseteq l.harm \cup {"twice", "stale"}
    BY <2>6, <2>12
  <2> QED
    BY <1>2, <2>7, <2>8, <2>9, <2>12, <2>13, <2>14, <2>15, <2>16, Zenon DEF Assigned
<1> QED
  BY <1>1, <1>2

LEMMA AddArgIs ==
  ASSUME NEW l, ListInv(l), NEW v \in Copied, v \in ArgValues \/ "moved" \in l.odd
  PROVE  Added(AddArg(l, v), l, v)
<1>1. PICK r : r = WithRoom(l)
  OBVIOUS
<1>2. Grown(r, l) /\ l.n < Len(Used(r))
  BY <1>1, ArgRoomIs DEF ListInv
<1>3. ArgList(r) /\ r.n = l.n /\ l.odd \subseteq r.odd
  BY <1>2, Zenon DEF Grown
<1>4. PICK c : c = AssignParam(r, l.n + 1, v)
  OBVIOUS
<1>5. PICK n \in Nat : n = l.n
  BY UsedIs DEF ListInv
<1>6. n + 1 \in 1 .. Len(Used(r)) /\ 1 .. n \in SUBSET (1 .. Len(Used(r))) /\ (1 .. n) \cup {n + 1} = 1 .. n + 1
  BY <1>2, <1>3, <1>5, UsedIs
<1>7. /\ ArgList(c) /\ c.n = r.n /\ c.odd = r.odd /\ Len(Used(c)) = Len(Used(r))
      /\ c.harm \subseteq r.harm \cup {"twice", "stale"}
      /\ \A K \in SUBSET (1 .. Len(Used(r))) : Covers(r, K) => Covers(c, K \cup {n + 1})
      /\ v \in ArgValues => ListChanged(c, r, n + 1, v)
  <2>1. Assigned(c, r, n + 1, v)
    BY <1>3, <1>4, <1>5, <1>6, AssignKeeps
  <2> QED
    BY <2>1, Zenon DEF Assigned
<1>8. Covers(r, 1 .. n) => Covers(c, 1 .. n + 1)
  BY <1>6, <1>7
<1>9. "moved" \in r.odd \/ ListChanged(c, r, n + 1, v)
  BY <1>3, <1>7
<1>10. AddArg(l, v) = [c EXCEPT !.n = @ + 1]
  BY <1>1, <1>3, <1>4, Zenon DEF AddArg
<1> QED
  BY <1>2, <1>5, <1>7, <1>8, <1>9, <1>10, LongerIs

LEMMA PushIs ==
  ASSUME NEW l, ListInv(l), NEW v \in ArgValues
  PROVE  Added(Push(l, v), l, v)
<1>1. PICK r : r = WithRoom(l)
  OBVIOUS
<1>2. Grown(r, l) /\ l.n < Len(Used(r))
  BY <1>1, ArgRoomIs DEF ListInv
<1>3. ArgList(r) /\ r.n = l.n
  BY <1>2, Zenon DEF Grown
<1>4. PICK c : c = SetParam(r, l.n + 1, v)
  OBVIOUS
<1>5. PICK n \in Nat : n = l.n
  BY UsedIs DEF ListInv
<1>6. /\ n + 1 \in 1 .. Len(Used(r)) /\ 1 .. n \in SUBSET (1 .. Len(Used(r)))
      /\ (1 .. n) \cup {n + 1} = 1 .. n + 1 /\ n + 1 \notin 1 .. n
  BY <1>2, <1>3, <1>5, UsedIs
<1>7. /\ ListChanged(c, r, n + 1, v)
      /\ \A K \in SUBSET (1 .. Len(Used(r))) :
           Covers(r, K) /\ (n + 1 \notin K \/ ~IsText(Used(r)[n + 1])) => Covers(c, K \cup {n + 1})
  BY <1>3, <1>4, <1>5, <1>6, SetChanges
<1>8. Covers(r, 1 .. n) => Covers(c, 1 .. n + 1)
  BY <1>6, <1>7
<1>9. /\ ArgList(c) /\ c.n = r.n /\ c.odd = r.odd /\ Len(Used(c)) = Len(Used(r))
      /\ c.harm \subseteq r.harm \cup {"twice", "stale"}
  BY <1>7 DEF ListChanged
<1>10. Push(l, v) = [c EXCEPT !.n = @ + 1]
  BY <1>1, <1>3, <1>4, Zenon DEF Push
<1> QED
  BY <1>2, <1>5, <1>7, <1>8, <1>9, <1>10, LongerIs

(* The arguments of another list are added one after the other. *)
ArgAdded(p, q, l, v) == AddArg(l, v)
FromList(p, q) == p
AddedSoFar(p, q, k, l) ==
  /\ ListInv(l) /\ l.n = p.n + k /\ p.odd \subseteq l.odd /\ l.odd \subseteq p.odd \cup {"moved"}
  /\ "moved" \in l.odd \/ (l.harm = p.harm /\ Answers(l) = Answers(p) \o SubSeq(q, 1, k))
Adding == INSTANCE SequenceFacts WITH FoldOp <- ArgAdded, FoldBase <- FromList, FoldInv <- AddedSoFar

LEMMA AddArgsIs ==
  ASSUME NEW l, ListInv(l), NEW vs \in Seq(ArgValues)
  PROVE  /\ ListInv(AddArgs(l, vs)) /\ AddArgs(l, vs).odd \subseteq l.odd \cup {"moved"}
         /\ l.odd \subseteq AddArgs(l, vs).odd
         /\ \/ "moved" \in AddArgs(l, vs).odd
            \/ AddArgs(l, vs).harm = l.harm /\ Answers(AddArgs(l, vs)) = Answers(l) \o vs
<1>1. AddArgs(l, vs) = Adding!Fold(l, vs, vs)
  BY Zenon DEF AddArgs, Adding!Fold, Adding!FoldLeft, FoldLeft, Adding!MapThenFoldSet, MapThenFoldSet,
               Adding!Max, Max, ArgAdded, FromList
<1>2. PICK n \in Nat : n = Len(vs) /\ DOMAIN vs = 1 .. n /\ \A k \in 1 .. n : vs[k] \in ArgValues
  BY LenProperties, ElementOfSeq
<1>3. \A x : ListInv(x) => x.n \in Nat /\ Answers(x) \in Seq(Copied) /\ Len(Answers(x)) = x.n
  BY AnswersIn DEF ListInv
<1>4. AddedSoFar(l, vs, 0, FromList(l, vs))
  <2>1. Answers(l) \in Seq(Copied) /\ l.n \in Nat
    BY <1>3
  <2>2. SubSeq(vs, 1, 0) = <<>>
    BY <1>2
  <2>3. Answers(l) \o <<>> = Answers(l)
    BY <2>1
  <2> QED
    BY <2>1, <2>2, <2>3 DEF AddedSoFar, FromList
<1>5. ASSUME NEW k \in 1 .. n, NEW x, AddedSoFar(l, vs, k - 1, x)
      PROVE  AddedSoFar(l, vs, k, ArgAdded(l, vs, x, vs[k]))
  <2>1. PICK m : m = AddArg(x, vs[k])
    OBVIOUS
  <2>2. /\ ListInv(x) /\ x.n = l.n + (k - 1) /\ l.odd \subseteq x.odd /\ x.odd \subseteq l.odd \cup {"moved"}
        /\ "moved" \in x.odd \/ (x.harm = l.harm /\ Answers(x) = Answers(l) \o SubSeq(vs, 1, k - 1))
    BY <1>5 DEF AddedSoFar
  <2>3. vs[k] \in ArgValues /\ vs[k] \in Copied
    BY <1>2 DEF Copied
  <2>4. Added(m, x, vs[k])
    BY <2>1, <2>2, <2>3, AddArgIs
  <2>5. /\ ListInv(m) /\ m.n = x.n + 1 /\ x.odd \subseteq m.odd /\ m.odd \subseteq x.odd \cup {"moved"}
        /\ "moved" \in m.odd \/ (m.harm = x.harm /\ Answers(m) = Append(Answers(x), vs[k]))
    BY <2>4, Zenon DEF Added
  <2>6. m.n = l.n + k
    BY <1>3, <2>2, <2>5
  <2>7. "moved" \in m.odd \/ (m.harm = l.harm /\ Answers(m) = Answers(l) \o SubSeq(vs, 1, k))
    <3> SUFFICES ASSUME "moved" \notin m.odd
                 PROVE  m.harm = l.harm /\ Answers(m) = Answers(l) \o SubSeq(vs, 1, k)
      OBVIOUS
    <3>1. /\ m.harm = l.harm
          /\ Answers(m) = Append(Answers(l) \o SubSeq(vs, 1, k - 1), vs[k])
      BY <2>2, <2>5
    <3>2. PICK a \in Seq(Copied) : a = Answers(l)
      BY <1>3
    <3>3. PICK s \in Seq(Copied) : s = SubSeq(vs, 1, k - 1)
      <4>2. \A i \in 1 .. k - 1 : i \in 1 .. n
        BY <1>2
      <4>3. \A i \in 1 .. k - 1 : vs[i] \in Copied
        BY <1>2, <4>2 DEF Copied
      <4>4. PICK j \in Int : j = k - 1
        OBVIOUS
      <4>5. \A i \in 1 .. j : vs[i] \in Copied
        BY <4>3, <4>4
      <4>6. SubSeq(vs, 1, j) \in Seq(Copied)
        BY <4>5, SubSeqProperties
      <4> QED
        BY <4>4, <4>6
    <3>4. PICK v \in Copied : v = vs[k]
      BY <2>3
    <3>5. Append(a \o s, v) = a \o Append(s, v)
      <4>1. /\ a \o s \in Seq(Copied) /\ <<v>> \in Seq(Copied)
        OBVIOUS
      <4>2. Append(a \o s, v) = (a \o s) \o <<v>> /\ Append(s, v) = s \o <<v>>
        BY <4>1, AppendIsConcat
      <4>3. (a \o s) \o <<v>> = a \o (s \o <<v>>)
        BY <4>1, ConcatAssociative
      <4> QED
        BY <4>2, <4>3
    <3>6. SubSeq(vs, 1, k) = Append(SubSeq(vs, 1, k - 1), vs[k])
      BY <1>2
    <3> QED
      BY <3>1, <3>2, <3>3, <3>4, <3>5, <3>6
  <2>8. l.odd \subseteq m.odd /\ m.odd \subseteq l.odd \cup {"moved"}
    BY <2>2, <2>5
  <2> QED
    BY <2>1, <2>5, <2>6, <2>7, <2>8 DEF AddedSoFar, ArgAdded
<1>6. PICK a : Adding!Folding(l, vs, vs, n, a) /\ \A k \in 0 .. n : AddedSoFar(l, vs, k, a[k])
  BY <1>2, <1>4, <1>5, Adding!FoldKeeps
<1>7. AddArgs(l, vs) = a[n] /\ AddedSoFar(l, vs, n, a[n])
  <2>1. n \in 0 .. n
    OBVIOUS
  <2> QED
    BY <1>1, <1>6, <2>1, Zenon DEF Adding!Folding
<1>8. SubSeq(vs, 1, n) = vs
  BY <1>2
<1> QED
  BY <1>7, <1>8, Zenon DEF AddedSoFar

(* The texts of several parameters are deleted one after the other: those are gone, and
   nothing is deleted twice if each was in memory and belonged to one of them. *)
OwnTexts(ps, texts) ==
  /\ \A i \in 1 .. Len(ps) : IsText(ps[i]) => ps[i].at \in texts
  /\ \A i, j \in 1 .. Len(ps) : IsText(ps[i]) /\ IsText(ps[j]) /\ ps[i].at = ps[j].at => i = j

Deleted(p, q, l, x) == Delete(l, x)
DeletedSoFar(p, q, k, l) ==
  /\ TextsSet(l, p)
  /\ \A a : a \in DOMAIN l.texts <=>
              a \in DOMAIN p.texts /\ \A i \in 1 .. k : ~(IsText(q[i]) /\ q[i].at = a)
  /\ p.harm \subseteq l.harm /\ l.harm \subseteq p.harm \cup {"twice"}
  /\ OwnTexts(q, DOMAIN p.texts) => l.harm = p.harm
  /\ (\E i \in 1 .. k : IsText(q[i]) /\ q[i].at \notin DOMAIN p.texts) => "twice" \in l.harm
Deleting == INSTANCE SequenceFacts WITH FoldOp <- Deleted, FoldBase <- FromList, FoldInv <- DeletedSoFar

LEMMA DeletesIs ==
  ASSUME NEW l, ArgList(l), NEW ps \in Seq(ArgParams)
  PROVE  DeletedSoFar(l, ps, Len(ps), FoldLeft(Delete, l, ps))
<1>1. FoldLeft(Delete, l, ps) = Deleting!Fold(l, ps, ps)
  BY Zenon DEF Deleting!Fold, Deleting!FoldLeft, FoldLeft, Deleting!MapThenFoldSet, MapThenFoldSet,
               Deleting!Max, Max, Deleted, FromList
<1>2. PICK n \in Nat : n = Len(ps) /\ DOMAIN ps = 1 .. n /\ \A k \in 1 .. n : ps[k] \in ArgParams
  BY LenProperties, ElementOfSeq
<1>3. DeletedSoFar(l, ps, 0, FromList(l, ps))
  <2>1. TextsSet(l, l)
    BY Zenon DEF TextsSet
  <2> QED
    BY <2>1 DEF DeletedSoFar, FromList
<1>4. ASSUME NEW k \in 1 .. n, NEW x, DeletedSoFar(l, ps, k - 1, x)
      PROVE  DeletedSoFar(l, ps, k, Deleted(l, ps, x, ps[k]))
  <2>1. PICK p \in ArgParams : p = ps[k]
    BY <1>2
  <2>2. PICK m : m = Delete(x, p)
    OBVIOUS
  <2>3. /\ TextsSet(x, l)
        /\ \A a : a \in DOMAIN x.texts <=>
                    a \in DOMAIN l.texts /\ \A i \in 1 .. k - 1 : ~(IsText(ps[i]) /\ ps[i].at = a)
        /\ l.harm \subseteq x.harm /\ x.harm \subseteq l.harm \cup {"twice"}
        /\ OwnTexts(ps, DOMAIN l.texts) => x.harm = l.harm
        /\ (\E i \in 1 .. k - 1 : IsText(ps[i]) /\ ps[i].at \notin DOMAIN l.texts) => "twice" \in x.harm
    BY <1>4, Zenon DEF DeletedSoFar
  <2>4. /\ ArgList(x) /\ Used(x) = Used(l) /\ x.place = l.place /\ x.array = l.array /\ x.n = l.n
        /\ x.odd = l.odd
    BY <2>3, Zenon DEF TextsSet
  <2>5. /\ TextsSet(m, x)
        /\ DOMAIN m.texts = IF IsText(p) THEN DOMAIN x.texts \ {p.at} ELSE DOMAIN x.texts
        /\ m.harm = IF IsText(p) /\ p.at \notin DOMAIN x.texts THEN x.harm \cup {"twice"} ELSE x.harm
    BY <2>2, <2>4, DeleteIs
  <2>6. TextsSet(m, l)
    BY <2>4, <2>5, Zenon DEF TextsSet
  <2>7. \A i : i \in 1 .. k <=> i \in 1 .. k - 1 \/ i = k
    BY <1>2
  <2>8. \A a : a \in DOMAIN m.texts <=>
                 a \in DOMAIN l.texts /\ \A i \in 1 .. k : ~(IsText(ps[i]) /\ ps[i].at = a)
    <3>1. \A a : a \in DOMAIN m.texts <=> a \in DOMAIN x.texts /\ ~(IsText(p) /\ p.at = a)
      BY <2>5
    <3> QED
      BY <2>1, <2>3, <2>7, <3>1, Zenon
  <2>9. l.harm \subseteq m.harm /\ m.harm \subseteq l.harm \cup {"twice"}
    BY <2>3, <2>5
  <2>10. ASSUME OwnTexts(ps, DOMAIN l.texts) PROVE m.harm = l.harm
    <3>1. ASSUME IsText(p) PROVE p.at \in DOMAIN x.texts
      <4>1. k \in 1 .. Len(ps) /\ \A i \in 1 .. k - 1 : i \in 1 .. Len(ps) /\ i # k
        BY <1>2
      <4>2. p.at \in DOMAIN l.texts
        BY <2>1, <2>10, <3>1, <4>1 DEF OwnTexts
      <4>3. \A i \in 1 .. k - 1 : ~(IsText(ps[i]) /\ ps[i].at = p.at)
        BY <2>1, <2>10, <3>1, <4>1 DEF OwnTexts
      <4> QED
        BY <2>3, <4>2, <4>3
    <3> QED
      BY <2>3, <2>5, <2>10, <3>1
  <2>11. ASSUME NEW i \in 1 .. k, IsText(ps[i]), ps[i].at \notin DOMAIN l.texts
         PROVE  "twice" \in m.harm
    <3>1. CASE i = k
      BY <2>1, <2>3, <2>5, <2>11, <3>1
    <3>2. CASE i # k
      <4>1. "twice" \in x.harm
        BY <2>3, <2>7, <2>11, <3>2
      <4> QED
        BY <2>5, <4>1
    <3> QED
      BY <3>1, <3>2
  <2> QED
    BY <2>1, <2>2, <2>6, <2>8, <2>9, <2>10, <2>11 DEF DeletedSoFar, Deleted
<1>5. PICK a : Deleting!Folding(l, ps, ps, n, a) /\ \A k \in 0 .. n : DeletedSoFar(l, ps, k, a[k])
  BY <1>2, <1>3, <1>4, Deleting!FoldKeeps
<1>6. n \in 0 .. n
  OBVIOUS
<1> QED
  BY <1>1, <1>2, <1>5, <1>6, Zenon DEF Deleting!Folding

(* When the list is cleared, its arguments' texts are deleted. *)
LEMMA ClearArgsIs ==
  ASSUME NEW l, ListInv(l), NEW m, m = ClearArgs(l)
  PROVE  /\ ListInv(m) /\ m.n = 0 /\ m.odd = l.odd /\ m.array = <<>> /\ l.harm \subseteq m.harm
         /\ (\E i \in 1 .. l.n : Answers(l)[i] = "stale") => "twice" \in m.harm
<1>1. ArgList(l)
  BY Zenon DEF ListInv
<1>2. PICK u \in Seq(ArgParams) : u = Used(l)
  BY <1>1, UsedIs
<1>3. PICK n \in Nat : n = l.n /\ n <= Len(u)
  BY <1>1, <1>2, UsedIs
<1>4. \A i \in 1 .. Len(u) : u[i] \in ArgParams
  BY ElementOfSeq
<1>5. PICK ps \in Seq(ArgParams) : ps = SubSeq(u, 1, n) /\ Len(ps) = n /\ \A i \in 1 .. n : ps[i] = u[i]
  <2>1. \A i \in 1 .. n : u[i] \in ArgParams
    BY <1>3, <1>4
  <2>2. 1 \in Int /\ n \in Int
    OBVIOUS
  <2>3. /\ SubSeq(u, 1, n) \in Seq(ArgParams)
        /\ Len(SubSeq(u, 1, n)) = IF 1 <= n THEN n - 1 + 1 ELSE 0
        /\ \A i \in 1 .. n - 1 + 1 : SubSeq(u, 1, n)[i] = u[1 + i - 1]
    BY <2>1, <2>2, SubSeqProperties
  <2>4. Len(SubSeq(u, 1, n)) = n /\ \A i \in 1 .. n : SubSeq(u, 1, n)[i] = u[i]
    BY <2>3
  <2> QED
    BY <2>3, <2>4
<1>6. PICK c : c = FoldLeft(Delete, l, ps)
  OBVIOUS
<1>7. DeletedSoFar(l, ps, n, c)
  BY <1>1, <1>5, <1>6, DeletesIs
<1>8. /\ TextsSet(c, l)
      /\ \A a : a \in DOMAIN c.texts <=>
                  a \in DOMAIN l.texts /\ \A i \in 1 .. n : ~(IsText(ps[i]) /\ ps[i].at = a)
      /\ l.harm \subseteq c.harm /\ c.harm \subseteq l.harm \cup {"twice"}
      /\ OwnTexts(ps, DOMAIN l.texts) => c.harm = l.harm
      /\ (\E i \in 1 .. n : IsText(ps[i]) /\ ps[i].at \notin DOMAIN l.texts) => "twice" \in c.harm
  BY <1>7, Zenon DEF DeletedSoFar
<1>9. ArgList(c) /\ c.place = l.place /\ c.array = l.array /\ c.n = n /\ c.odd = l.odd
  BY <1>3, <1>8, Zenon DEF TextsSet
<1>10. PICK s \in Seq(ArgParams) : s = l.place /\ Len(s) = InPlace /\ DOMAIN s = 1 .. Len(s)
  BY <1>1, LenProperties DEF ArgList
<1>11. PICK r : r = [i \in 1 .. Len(s) |->
                       IF i <= n
                       THEN IF s[i].type = "CZSTRING" THEN [s[i] EXCEPT !.type = "UNKNOWN"] ELSE s[i]
                       ELSE s[i]]
  OBVIOUS
<1>12. \A p \in ArgParams : [p EXCEPT !.type = "UNKNOWN"] \in ArgParams \/ p.type # "CZSTRING"
  BY DEF ArgParams
<1>13. r \in Seq(ArgParams) /\ Len(r) = Len(s)
  <2>1. \A i \in 1 .. Len(s) : r[i] \in ArgParams
    BY <1>11, <1>12, ElementOfSeq
  <2> QED
    BY <1>11, <2>1
<1>14. \A i \in 1 .. Len(s) : IsText(r[i]) => i \notin 1 .. n /\ r[i] = s[i]
  <2>1. ASSUME NEW i \in 1 .. Len(s), i <= n PROVE ~IsText(r[i])
    <3>1. PICK p \in ArgParams : p = s[i]
      BY ElementOfSeq
    <3>2. r[i] = IF p.type = "CZSTRING" THEN [p EXCEPT !.type = "UNKNOWN"] ELSE p
      BY <1>11, <2>1, <3>1
    <3>3. [p EXCEPT !.type = "UNKNOWN"].type = "UNKNOWN"
      BY DEF ArgParams
    <3> QED
      BY <3>2, <3>3 DEF IsText
  <2>2. ASSUME NEW i \in 1 .. Len(s), ~(i <= n) PROVE i \notin 1 .. n /\ r[i] = s[i]
    BY <1>11, <2>2
  <2> QED
    BY <2>1, <2>2
<1>15. PICK place \in Seq(ArgParams) : place = (IF l.array = <<>> THEN r ELSE s) /\ Len(place) = InPlace
  BY <1>10, <1>13
<1>16. m = [c EXCEPT !.place = place, !.array = <<>>, !.n = 0]
  <2>1. c = FoldLeft(Delete, l, SubSeq(Used(l), 1, l.n))
    BY <1>2, <1>3, <1>5, <1>6
  <2>2. CASE l.array = <<>>
    <3>1. /\ place = [i \in DOMAIN c.place |->
                        IF i <= l.n
                        THEN IF c.place[i].type = "CZSTRING"
                             THEN [c.place[i] EXCEPT !.type = "UNKNOWN"] ELSE c.place[i]
                        ELSE c.place[i]]
      BY <1>3, <1>9, <1>10, <1>11, <1>15, <2>2, Zenon
    <3> QED
      BY <2>1, <2>2, <3>1, Zenon DEF ClearArgs
  <2>3. CASE l.array # <<>>
    <3>1. place = c.place
      BY <1>9, <1>10, <1>15, <2>3
    <3> QED
      BY <2>1, <2>3, <3>1, Zenon DEF ClearArgs
  <2> QED
    BY <2>2, <2>3
<1>17. c = [place |-> c.place, array |-> c.array, n |-> c.n, texts |-> c.texts, harm |-> c.harm, odd |-> c.odd]
  BY <1>9, Zenon DEF ArgList
<1>18. m = [place |-> place, array |-> <<>>, n |-> 0, texts |-> c.texts, harm |-> c.harm, odd |-> c.odd]
  BY <1>16, <1>17
<1>19. m.place = place /\ m.array = <<>> /\ m.n = 0 /\ m.texts = c.texts /\ m.harm = c.harm /\ m.odd = l.odd
  BY <1>9, <1>18
<1>20. Used(m) = place
  BY <1>19 DEF Used
<1>21. ArgList(m)
  <2>1. 0 \in Nat /\ 0 <= Len(place) /\ <<>> \in Seq(ArgParams)
    BY <1>15
  <2> QED
    BY <1>9, <1>15, <1>18, <1>19, <1>20, <2>1, Zenon DEF ArgList
<1>22. ASSUME "moved" \notin l.odd
       PROVE  m.harm = l.harm /\ Sound(m)
  <2>1. /\ \A i \in 1 .. Len(u) : IsText(u[i]) => u[i].at \in DOMAIN l.texts
        /\ \A i, j \in 1 .. Len(u) : IsText(u[i]) /\ IsText(u[j]) /\ u[i].at = u[j].at => i = j
        /\ l.array # <<>> => \A i \in 1 .. Len(s) : ~IsText(s[i])
    BY <1>2, <1>10, <1>22, Zenon DEF ListInv, Sound
  <2>2. \A i \in 1 .. n : i \in 1 .. Len(u)
    BY <1>3
  <2>3. OwnTexts(ps, DOMAIN l.texts)
    BY <1>5, <2>1, <2>2 DEF OwnTexts
  <2>4. ASSUME NEW i \in 1 .. Len(place), IsText(place[i])
        PROVE  i \in 1 .. Len(u) /\ place[i] = u[i] /\ place[i].at \in DOMAIN m.texts
    <3>1. l.array = <<>> /\ place = r /\ s = u
      BY <1>2, <1>10, <1>15, <2>1, <2>4 DEF Used
    <3>2. i \in 1 .. Len(u) /\ i \notin 1 .. n /\ place[i] = u[i]
      BY <1>13, <1>14, <2>4, <3>1
    <3>3. u[i].at \in DOMAIN l.texts /\ \A j \in 1 .. n : ~(IsText(ps[j]) /\ ps[j].at = u[i].at)
      BY <1>5, <2>1, <2>2, <2>4, <3>2
    <3> QED
      BY <1>8, <1>19, <3>2, <3>3
  <2>5. \A i, j \in 1 .. Len(place) :
          IsText(place[i]) /\ IsText(place[j]) /\ place[i].at = place[j].at => i = j
    BY <2>1, <2>4
  <2>6. Sound(m)
    <3>1. \A i \in 1 .. Len(place) : IsText(place[i]) => place[i].at \in DOMAIN m.texts
      BY <2>4
    <3> QED
      BY <1>19, <1>20, <2>5, <3>1 DEF Sound
  <2> QED
    BY <1>8, <1>19, <2>3, <2>6
<1>23. HarmOwed(m.harm, m.odd)
  <2>1. HarmOwed(l.harm, l.odd)
    BY Zenon DEF ListInv
  <2>2. m.harm = l.harm \/ ("moved" \in m.odd /\ m.harm \subseteq l.harm \cup {"twice"})
    BY <1>8, <1>19, <1>22
  <2> QED
    BY <1>19, <2>1, <2>2 DEF HarmOwed
<1>24. ASSUME {"forgot", "overwritten"} \cap l.odd = {}
       PROVE  Covers(m, 1 .. 0)
  <2>1. \A a \in DOMAIN l.texts : \E i \in 1 .. n : IsText(u[i]) /\ u[i].at = a
    BY <1>2, <1>3, <1>24, Zenon DEF ListInv, Covers
  <2>2. \A a : a \notin DOMAIN m.texts
    BY <1>5, <1>8, <1>19, <2>1
  <2> QED
    BY <2>2 DEF Covers
<1>25. ListInv(m)
  BY <1>19, <1>21, <1>22, <1>23, <1>24, Zenon DEF ListInv
<1>26. ASSUME NEW i \in 1 .. n, Answers(l)[i] = "stale"
       PROVE  "twice" \in m.harm
  <2>1. PICK p \in ArgParams : p = u[i]
    BY <1>3, <1>4
  <2>2. Says(p, l.texts) = "stale"
    BY <1>1, <1>2, <1>3, <1>26, <2>1, AnswersAre
  <2>3. \A a \in DOMAIN l.texts : l.texts[a] \in ArgTexts
    BY <1>1, Zenon DEF ArgList
  <2>4. "stale" \notin ArgNumbers /\ "stale" \notin ArgTexts /\ "stale" # NoText
    BY ArgsAssumption
  <2>5. IsText(p) /\ p.at \notin DOMAIN l.texts
    BY <2>2, <2>3, <2>4, ParamIs DEF Says, IsText
  <2> QED
    BY <1>5, <1>8, <1>19, <2>1, <2>5
<1> QED
  BY <1>3, <1>8, <1>19, <1>25, <1>26

(* When it is destroyed, all of them are, unless some were forgotten or overwritten. *)
LEMMA DestroyedIs ==
  ASSUME NEW l, ListInv(l), NEW g, g = DestroyedArgs(l)
  PROVE  /\ g.odd = l.odd /\ g.harm \subseteq Harmful /\ HarmOwed(g.harm, g.odd)
         /\ {"forgot", "overwritten"} \cap l.odd = {} => DOMAIN g.texts = {}
         /\ (\E i \in 1 .. l.n : Answers(l)[i] = "stale") => "twice" \in g.harm
<1>1. PICK m : m = ClearArgs(l)
  OBVIOUS
<1>2. /\ ListInv(m) /\ m.n = 0 /\ m.odd = l.odd /\ m.array = <<>> /\ l.harm \subseteq m.harm
      /\ (\E i \in 1 .. l.n : Answers(l)[i] = "stale") => "twice" \in m.harm
  BY <1>1, ClearArgsIs
<1>3. ArgList(m) /\ HarmOwed(m.harm, m.odd)
  BY <1>2, Zenon DEF ListInv
<1>4. PICK s \in Seq(ArgParams) : s = m.place
  BY <1>3 DEF ArgList
<1>5. PICK n \in Nat : n = Len(s) /\ \A i \in 1 .. n : s[i] \in ArgParams
  BY LenProperties, ElementOfSeq
<1>6. PICK ps : ps = Reverse(s)
  OBVIOUS
<1>7. \A i \in 1 .. n : (n - i) + 1 \in 1 .. n
  BY <1>5
<1>8. ps = [i \in 1 .. n |-> s[(n - i) + 1]]
  BY <1>5, <1>6 DEF Reverse
<1>9. ps \in Seq(ArgParams) /\ Len(ps) = n /\ \A i \in 1 .. n : ps[i] = s[(n - i) + 1]
  BY <1>5, <1>7, <1>8
<1>10. g = FoldLeft(Delete, m, ps)
  BY <1>1, <1>4, <1>6, Zenon DEF DestroyedArgs
<1>11. DeletedSoFar(m, ps, n, g)
  BY <1>3, <1>9, <1>10, DeletesIs
<1>12. /\ TextsSet(g, m)
       /\ \A a : a \in DOMAIN g.texts => a \in DOMAIN m.texts
       /\ m.harm \subseteq g.harm /\ g.harm \subseteq m.harm \cup {"twice"}
       /\ OwnTexts(ps, DOMAIN m.texts) => g.harm = m.harm
  BY <1>11, Zenon DEF DeletedSoFar
<1>13. ArgList(g) /\ g.odd = l.odd
  BY <1>2, <1>12, Zenon DEF TextsSet
<1>14. g.harm \subseteq Harmful
  BY <1>13, Zenon DEF ArgList
<1>15. ASSUME "moved" \notin l.odd PROVE g.harm = m.harm
  <2>1. Sound(m)
    BY <1>2, <1>15, Zenon DEF ListInv
  <2>2. Used(m) = s
    BY <1>2, <1>4 DEF Used
  <2>3. /\ \A i \in 1 .. n : IsText(s[i]) => s[i].at \in DOMAIN m.texts
        /\ \A i, j \in 1 .. n : IsText(s[i]) /\ IsText(s[j]) /\ s[i].at = s[j].at => i = j
    BY <1>5, <2>1, <2>2, Zenon DEF Sound
  <2>4. \A i, j \in 1 .. n : (n - i) + 1 = (n - j) + 1 => i = j
    BY <1>5
  <2>5. \A i \in 1 .. n : IsText(ps[i]) => ps[i].at \in DOMAIN m.texts
    BY <1>7, <1>9, <2>3
  <2>6. \A i, j \in 1 .. n : IsText(ps[i]) /\ IsText(ps[j]) /\ ps[i].at = ps[j].at => i = j
    <3>1. SUFFICES ASSUME NEW i \in 1 .. n, NEW j \in 1 .. n, IsText(ps[i]), IsText(ps[j]), ps[i].at = ps[j].at
                   PROVE  i = j
      OBVIOUS
    <3>2. PICK a \in 1 .. n : a = (n - i) + 1
      BY <1>7
    <3>3. PICK b \in 1 .. n : b = (n - j) + 1
      BY <1>7
    <3>4. ps[i] = s[a] /\ ps[j] = s[b]
      BY <1>9, <3>2, <3>3
    <3>5. a = b
      BY <2>3, <3>1, <3>4
    <3> QED
      BY <1>5, <3>2, <3>3, <3>5
  <2> QED
    BY <1>9, <1>12, <2>5, <2>6 DEF OwnTexts
<1>16. HarmOwed(g.harm, g.odd)
  <2>1. g.harm = m.harm \/ ("moved" \in g.odd /\ g.harm \subseteq m.harm \cup {"twice"})
    BY <1>12, <1>13, <1>15
  <2> QED
    BY <1>2, <1>3, <1>13, <2>1 DEF HarmOwed
<1>17. ASSUME {"forgot", "overwritten"} \cap l.odd = {} PROVE DOMAIN g.texts = {}
  <2>1. Covers(m, 1 .. 0)
    BY <1>2, <1>17, Zenon DEF ListInv
  <2>2. \A a : a \notin DOMAIN m.texts
    BY <2>1 DEF Covers
  <2> QED
    BY <1>12, <2>2
<1> QED
  BY <1>2, <1>12, <1>13, <1>14, <1>16, <1>17

(* The list that is left when something else is noted of it. *)
LEMMA MarkedIs ==
  ASSUME NEW c, ArgList(c), NEW h, h \subseteq Harmful, NEW o,
         NEW m, m = [place |-> c.place, array |-> c.array, n |-> c.n, texts |-> c.texts, harm |-> h, odd |-> o]
  PROVE  /\ ArgList(m) /\ m.n = c.n /\ m.harm = h /\ m.odd = o /\ Answers(m) = Answers(c)
         /\ Sound(c) => Sound(m)
         /\ \A K : Covers(c, K) => Covers(m, K)
<1>1. /\ m.place = c.place /\ m.array = c.array /\ m.n = c.n /\ m.texts = c.texts /\ m.harm = h /\ m.odd = o
  OBVIOUS
<1>2. Used(m) = Used(c)
  BY <1>1 DEF Used
<1>3. ArgList(m)
  BY <1>1, <1>2, Zenon DEF ArgList
<1>4. Answers(m) = Answers(c)
  BY <1>1, <1>2, Zenon DEF Answers, Answer
<1>5. Sound(c) => Sound(m)
  BY <1>1, <1>2 DEF Sound
<1>6. \A K : Covers(c, K) => Covers(m, K)
  BY <1>1, <1>2, Zenon DEF Covers
<1> QED
  BY <1>1, <1>3, <1>4, <1>5, <1>6

LEMMA EmptyListIs ==
  ASSUME NEW h, h \subseteq Harmful, NEW o, HarmOwed(h, o),
         NEW m, m = [place |-> [i \in 1 .. InPlace |-> Unset], array |-> <<>>, n |-> 0,
                     texts |-> [address \in {} |-> NoText], harm |-> h, odd |-> o]
  PROVE  ListInv(m) /\ Answers(m) = <<>> /\ m.odd = o /\ m.harm = h
<1>1. PICK s : s = [i \in 1 .. InPlace |-> Unset]
  OBVIOUS
<1>2. PICK t : t = [address \in {} |-> NoText]
  OBVIOUS
<1>3. m = [place |-> s, array |-> <<>>, n |-> 0, texts |-> t, harm |-> h, odd |-> o]
  BY <1>1, <1>2
<1>4. m.place = s /\ m.array = <<>> /\ m.n = 0 /\ m.texts = t /\ m.harm = h /\ m.odd = o
  BY <1>3
<1>5. Unset \in ArgParams /\ ~IsText(Unset)
  BY DEF ArgParams, Unset, IsText
<1>6. s \in Seq(ArgParams) /\ Len(s) = InPlace /\ \A i \in 1 .. InPlace : s[i] = Unset
  BY <1>1, <1>5, ArgsAssumption
<1>7. Used(m) = s
  BY <1>4 DEF Used
<1>8. /\ t = [a \in DOMAIN t |-> t[a]] /\ DOMAIN t = {} /\ DOMAIN t \subseteq ArgAddresses
      /\ \A a \in DOMAIN t : t[a] \in ArgTexts
  BY <1>2
<1>9. IsFiniteSet(DOMAIN t)
  BY <1>8, FS_EmptySet
<1>10. 0 \in Nat /\ 0 <= InPlace /\ <<>> \in Seq(ArgParams)
  BY ArgsAssumption
<1>11. ArgList(m)
  BY <1>3, <1>4, <1>6, <1>7, <1>8, <1>9, <1>10, Zenon DEF ArgList
<1>12. Sound(m)
  BY <1>4, <1>5, <1>6, <1>7 DEF Sound
<1>13. Covers(m, 1 .. 0)
  BY <1>4, <1>8 DEF Covers
<1>14. ListInv(m)
  BY <1>4, <1>11, <1>12, <1>13, Zenon DEF ListInv
<1>15. Answers(m) = <<>>
  <2>1. Answers(m) \in Seq(Copied) /\ Len(Answers(m)) = 0
    BY <1>4, <1>11, AnswersIn
  <2> QED
    BY <2>1, EmptySeq
<1> QED
  BY <1>4, <1>14, <1>15

LEMMA EmptyIs == ListInv(EmptyList) /\ Answers(EmptyList) = <<>>
<1>1. {} \subseteq Harmful /\ HarmOwed({}, {})
  BY DEF HarmOwed
<1>2. PICK m : m = EmptyList
  OBVIOUS
<1>3. ListInv(m) /\ Answers(m) = <<>>
  BY <1>1, <1>2, EmptyListIs DEF EmptyList
<1> QED
  BY <1>2, <1>3

(* What init() does. *)
HasTexts(l) == \E i \in 1 .. l.n : IsText(Used(l)[i])

LEMMA ForgetIs ==
  ASSUME NEW l, ListInv(l),
         NEW h, h = (IF l.array = <<>> THEN {} ELSE {"lost"}),
         NEW o, o = l.odd \cup (IF l.array # <<>> \/ HasTexts(l) THEN {"forgot"} ELSE {}),
         NEW m, m = [l EXCEPT !.array = <<>>, !.n = 0, !.harm = h, !.odd = o]
  PROVE  ListInv(m) /\ Answers(m) = <<>>
<1>1. ArgList(l)
  BY Zenon DEF ListInv
<1>5. /\ l = [place |-> l.place, array |-> l.array, n |-> l.n, texts |-> l.texts, harm |-> l.harm, odd |-> l.odd]
      /\ l.place \in Seq(ArgParams) /\ Len(l.place) = InPlace
  BY <1>1, Zenon DEF ArgList
<1>6. m = [place |-> l.place, array |-> <<>>, n |-> 0, texts |-> l.texts, harm |-> h, odd |-> o]
  BY <1>5
<1>7. m.place = l.place /\ m.array = <<>> /\ m.n = 0 /\ m.texts = l.texts /\ m.harm = h /\ m.odd = o
  BY <1>6
<1>8. Used(m) = l.place
  BY <1>7 DEF Used
<1>9. h \subseteq Harmful
  BY DEF Harmful
<1>10. 0 \in Nat /\ 0 <= InPlace /\ <<>> \in Seq(ArgParams)
  BY ArgsAssumption
<1>11. ArgList(m)
  BY <1>1, <1>5, <1>6, <1>7, <1>8, <1>9, <1>10, Zenon DEF ArgList
<1>12. ASSUME "moved" \notin o PROVE Sound(m)
  <2>1. Sound(l)
    BY <1>12 DEF ListInv
  <2>2. CASE l.array = <<>>
    <3>1. Used(l) = l.place
      BY <2>2 DEF Used
    <3>2. Used(m) = Used(l) /\ m.array = <<>>
      BY <1>7, <1>8, <3>1
    <3>3. /\ \A i \in 1 .. Len(Used(l)) : IsText(Used(l)[i]) => Used(l)[i].at \in DOMAIN l.texts
          /\ \A i, j \in 1 .. Len(Used(l)) :
               IsText(Used(l)[i]) /\ IsText(Used(l)[j]) /\ Used(l)[i].at = Used(l)[j].at => i = j
      BY <2>1, Zenon DEF Sound
    <3>4. m.texts = l.texts
      BY <1>7
    <3>5. /\ \A i \in 1 .. Len(Used(m)) : IsText(Used(m)[i]) => Used(m)[i].at \in DOMAIN m.texts
          /\ \A i, j \in 1 .. Len(Used(m)) :
               IsText(Used(m)[i]) /\ IsText(Used(m)[j]) /\ Used(m)[i].at = Used(m)[j].at => i = j
      BY <3>2, <3>3, <3>4
    <3> QED
      BY <3>2, <3>5, Zenon DEF Sound
  <2>3. CASE l.array # <<>>
    <3>1. \A i \in 1 .. Len(l.place) : ~IsText(l.place[i])
      BY <2>1, <2>3, Zenon DEF Sound
    <3> QED
      BY <1>7, <1>8, <3>1, Zenon DEF Sound
  <2> QED
    BY <2>2, <2>3
<1>13. HarmOwed(h, o)
  BY DEF HarmOwed
<1>14. ASSUME {"forgot", "overwritten"} \cap o = {}
       PROVE  Covers(m, 1 .. 0)
  <2>1. Covers(l, 1 .. l.n)
    <3>1. {"forgot", "overwritten"} \cap l.odd = {}
      BY <1>14
    <3> QED
      BY <3>1, Zenon DEF ListInv
  <2>2. \A i \in 1 .. l.n : ~IsText(Used(l)[i])
    BY <1>14 DEF HasTexts
  <2>3. \A a : a \notin DOMAIN l.texts
    BY <2>1, <2>2, Zenon DEF Covers
  <2> QED
    BY <1>7, <2>3, Zenon DEF Covers
<1>15. ListInv(m)
  BY <1>7, <1>11, <1>12, <1>13, <1>14, Zenon DEF ListInv
<1>16. Answers(m) = <<>>
  <2>1. Answers(m) \in Seq(Copied) /\ Len(Answers(m)) = 0
    BY <1>7, <1>11, AnswersIn
  <2> QED
    BY <2>1, EmptySeq
<1> QED
  BY <1>15, <1>16

(* None of the arguments of a sound list answers "stale". *)
LEMMA SoundAnswers ==
  ASSUME NEW l, ArgList(l), Sound(l), NEW i \in 1 .. l.n
  PROVE  Answer(l, i) \in ArgValues
<1>1. PICK p \in ArgParams : p = Used(l)[i] /\ i \in 1 .. Len(Used(l))
  BY UsedIs
<1>2. IsText(p) => p.at \in DOMAIN l.texts
  BY <1>1, Zenon DEF Sound
<1>3. Answer(l, i) = Says(p, l.texts)
  BY <1>1, Zenon DEF Answer, Says
<1>4. \A a \in DOMAIN l.texts : l.texts[a] \in ArgTexts
  BY Zenon DEF ArgList
<1>5. Says(p, l.texts) \in ArgValues
  BY <1>2, <1>4, ParamIs DEF Says, IsText, ArgValues
<1> QED
  BY <1>3, <1>5

LEMMA ChangedAnswers ==
  ASSUME NEW l, ArgList(l), Sound(l), NEW k \in 1 .. l.n, NEW v, NEW c, ListChanged(c, l, k, v)
  PROVE  Answers(c) = [Answers(l) EXCEPT ![k] = v]
<1>1. PICK n \in Nat : n = l.n /\ n <= Len(Used(l))
  BY UsedIs
<1>2. PICK z \in Nat : z = Len(Used(l))
  BY UsedIs
<1>3. \A i \in 1 .. n : i \in 1 .. z
  BY <1>1, <1>2
<1>4. /\ ArgList(c) /\ c.n = n
      /\ \A i \in 1 .. z : Says(Used(c)[i], c.texts) = IF i = k THEN v ELSE Says(Used(l)[i], l.texts)
  BY <1>1, <1>2, Zenon DEF ListChanged
<1>5. Answers(c) = [i \in 1 .. n |-> Says(Used(c)[i], c.texts)]
  BY <1>4, AnswersAre
<1>6. Answers(l) = [i \in 1 .. n |-> Says(Used(l)[i], l.texts)]
  BY <1>1, AnswersAre
<1>7. k \in 1 .. n
  BY <1>1
<1>8. Answers(c) = [i \in 1 .. n |-> IF i = k THEN v ELSE Says(Used(l)[i], l.texts)]
  BY <1>3, <1>4, <1>5
<1> QED
  BY <1>6, <1>7, <1>8

(***************************************************************************)
(* The arguments of a list that nothing odd happened to are what was given.  *)
(***************************************************************************)
ArgsInv == ListInv(args) /\ (args.odd = {} => Answers(args) = given)

LEMMA ArgsInvGives == ArgsInv => ArgumentsRight
<1> SUFFICES ASSUME ArgsInv PROVE ArgumentsRight
  OBVIOUS
<1>1. HarmOwed(args.harm, args.odd) /\ args.harm \subseteq Harmful /\ (args.odd = {} => Answers(args) = given)
  BY Zenon DEF ArgsInv, ListInv, ArgList
<1>2. args.odd = {} => args.harm = {}
  BY <1>1 DEF HarmOwed, Harmful
<1> QED
  BY <1>1, <1>2 DEF ArgumentsRight, HarmOwed

LEMMA ArgsInvInit == ArgsInit => ArgsInv
<1> SUFFICES ASSUME ArgsInit PROVE ArgsInv
  OBVIOUS
<1>1. args = EmptyList /\ given = <<>>
  BY DEF ArgsInit
<1> QED
  BY <1>1, EmptyIs DEF ArgsInv

LEMMA AddedKeeps ==
  ASSUME ArgsInv, NEW v, Added(args', args, v),
         args.odd = {} => given' = Append(Answers(args), v)
  PROVE  ArgsInv'
<1>1. /\ ListInv(args') /\ args.odd \subseteq args'.odd
      /\ "moved" \in args'.odd \/ Answers(args') = Append(Answers(args), v)
  BY Zenon DEF Added
<1>2. args'.odd = {} => Answers(args') = given'
  BY <1>1
<1> QED
  BY <1>1, <1>2 DEF ArgsInv

LEMMA ReplacedIs ==
  ASSUME ArgsInv, NEW vs \in Seq(Copied), Replaced(vs), given' = vs,
         (\E i \in 1 .. Len(vs) : vs[i] = "stale") => \E i \in 1 .. args.n : Answers(args)[i] = "stale"
  PROVE  ArgsInv'
<1>1. PICK gone : gone = DestroyedArgs(args)
  OBVIOUS
<1>2. PICK h : h = gone.harm \cup IF DOMAIN gone.texts = {} THEN {} ELSE {"lost"}
  OBVIOUS
<1>3. ListInv(args)
  BY DEF ArgsInv
<1>4. /\ gone.odd = args.odd /\ gone.harm \subseteq Harmful /\ HarmOwed(gone.harm, gone.odd)
      /\ {"forgot", "overwritten"} \cap args.odd = {} => DOMAIN gone.texts = {}
      /\ (\E i \in 1 .. args.n : Answers(args)[i] = "stale") => "twice" \in gone.harm
  BY <1>1, <1>3, DestroyedIs
<1>5. args' = IF h = {} THEN AddArgs(EmptyList, vs)
              ELSE [EmptyList EXCEPT !.harm = h, !.odd = gone.odd]
  BY <1>1, <1>2, Zenon DEF Replaced
<1>6. h \subseteq Harmful /\ HarmOwed(h, gone.odd)
  BY <1>2, <1>4 DEF Harmful, HarmOwed
<1>7. CASE h = {}
  <2>1. \A i \in 1 .. Len(vs) : vs[i] # "stale"
    BY <1>2, <1>4, <1>7
  <2>2. vs \in Seq(ArgValues)
    <3>1. PICK n \in Nat : n = Len(vs)
      BY LenProperties
    <3>2. \A i \in 1 .. n : vs[i] \in Copied /\ vs[i] # "stale"
      BY <2>1, <3>1, ElementOfSeq
    <3>3. \A i \in 1 .. n : vs[i] \in ArgValues
      BY <3>2 DEF Copied
    <3>4. vs = [i \in 1 .. n |-> vs[i]]
      BY <3>1
    <3> QED
      BY <3>3, <3>4
  <2>4. ListInv(EmptyList) /\ Answers(EmptyList) = <<>>
    BY EmptyIs
  <2>5. args' = AddArgs(EmptyList, vs)
    BY <1>5, <1>7
  <2>6. ListInv(args') /\ ("moved" \in args'.odd \/ Answers(args') = <<>> \o vs)
    BY <2>2, <2>4, <2>5, AddArgsIs
  <2>7. <<>> \o vs = vs
    BY <2>2
  <2> QED
    BY <2>6, <2>7 DEF ArgsInv
<1>8. CASE h # {}
  <2>1. args' = [EmptyList EXCEPT !.harm = h, !.odd = gone.odd]
    BY <1>5, <1>8
  <2>2. args' = [place |-> [i \in 1 .. InPlace |-> Unset], array |-> <<>>, n |-> 0,
                 texts |-> [address \in {} |-> NoText], harm |-> h, odd |-> gone.odd]
    BY <2>1 DEF EmptyList
  <2>3. ListInv(args') /\ args'.odd = gone.odd
    BY <1>6, <2>2, EmptyListIs
  <2>4. gone.odd # {}
    BY <1>6, <1>8 DEF HarmOwed, Harmful
  <2> QED
    BY <2>3, <2>4 DEF ArgsInv
<1> QED
  BY <1>7, <1>8

LEMMA AddOwnKeeps ==
  ASSUME ArgsInv, NEW i \in 1 .. args.n, AddOwn(i)
  PROVE  ArgsInv'
<1>1. ListInv(args) /\ ArgList(args) /\ args.n \in Nat
  BY Zenon DEF ArgsInv, ListInv, ArgList
<1>2. CASE args.array # <<>> /\ args.n = Len(args.array)
  <2>1. PICK o : o = args.odd \cup {"itself"}
    OBVIOUS
  <2>2. args' = [args EXCEPT !.harm = {"stale"}, !.odd = o]
    BY <1>2, <2>1 DEF AddOwn
  <2>3. args = [place |-> args.place, array |-> args.array, n |-> args.n, texts |-> args.texts,
                harm |-> args.harm, odd |-> args.odd]
    BY <1>1, Zenon DEF ArgList
  <2>4. args' = [place |-> args.place, array |-> args.array, n |-> args.n, texts |-> args.texts,
                 harm |-> {"stale"}, odd |-> o]
    BY <2>2, <2>3
  <2>5. {"stale"} \subseteq Harmful /\ HarmOwed({"stale"}, o)
    BY <2>1 DEF Harmful, HarmOwed
  <2>6. /\ ArgList(args') /\ args'.n = args.n /\ args'.harm = {"stale"} /\ args'.odd = o
        /\ Sound(args) => Sound(args')
        /\ \A K : Covers(args, K) => Covers(args', K)
    BY <1>1, <2>4, <2>5, MarkedIs
  <2>7. /\ "moved" \notin o => "moved" \notin args.odd
        /\ {"forgot", "overwritten"} \cap o = {} => {"forgot", "overwritten"} \cap args.odd = {}
    BY <2>1
  <2>8. ListInv(args')
    BY <1>1, <2>5, <2>6, <2>7, Zenon DEF ListInv
  <2> QED
    BY <2>1, <2>6, <2>8 DEF ArgsInv
<1>3. CASE ~(args.array # <<>> /\ args.n = Len(args.array))
  <2>1. PICK v : v = Answer(args, i)
    OBVIOUS
  <2>2. args' = AddArg(args, v) /\ given' = Append(given, given[i])
    BY <1>3, <2>1 DEF AddOwn
  <2>3. Answers(args)[i] = v
    BY <2>1 DEF Answers
  <2>4. v \in Copied
    BY <1>1, <2>3, AnswersIn, ElementOfSeq
  <2>5. ASSUME "moved" \notin args.odd PROVE v \in ArgValues
    <3>1. Sound(args)
      BY <1>1, <2>5, Zenon DEF ListInv
    <3> QED
      BY <1>1, <2>1, <3>1, SoundAnswers
  <2>6. Added(args', args, v)
    BY <1>1, <2>2, <2>4, <2>5, AddArgIs
  <2>7. args.odd = {} => given' = Append(Answers(args), v)
    BY <2>2, <2>3 DEF ArgsInv
  <2> QED
    BY <2>6, <2>7, AddedKeeps
<1> QED
  BY <1>2, <1>3

LEMMA SetOwnKeeps ==
  ASSUME ArgsInv, NEW i \in 1 .. args.n, NEW v \in ArgValues, SetOwn(i, v)
  PROVE  ArgsInv'
<1>1. ListInv(args) /\ ArgList(args)
  BY Zenon DEF ArgsInv, ListInv
<1>2. PICK n \in Nat : n = args.n /\ n <= Len(Used(args)) /\ i \in 1 .. Len(Used(args)) /\ (1 .. n) \cup {i} = 1 .. n
  BY <1>1, UsedIs
<1>3. PICK c : c = SetParam(args, i, v)
  OBVIOUS
<1>4. PICK o : o = c.odd \cup IF IsText(Used(args)[i]) THEN {"overwritten"} ELSE {}
  OBVIOUS
<1>5. args' = [c EXCEPT !.odd = o] /\ given' = [given EXCEPT ![i] = v]
  BY <1>3, <1>4, Zenon DEF SetOwn
<1>6. 1 .. n \in SUBSET (1 .. Len(Used(args)))
  BY <1>1, <1>2, UsedIs
<1>7. /\ ListChanged(c, args, i, v)
      /\ Covers(args, 1 .. n) /\ ~IsText(Used(args)[i]) => Covers(c, 1 .. n)
  <2>1. /\ ListChanged(c, args, i, v)
        /\ \A K \in SUBSET (1 .. Len(Used(args))) :
             Covers(args, K) /\ (i \notin K \/ ~IsText(Used(args)[i])) => Covers(c, K \cup {i})
    BY <1>1, <1>2, <1>3, SetChanges
  <2> QED
    BY <1>2, <1>6, <2>1
<1>8. /\ ArgList(c) /\ c.n = n /\ c.odd = args.odd /\ c.harm \subseteq args.harm \cup {"twice"}
      /\ Sound(args) => Sound(c) /\ c.harm = args.harm
  BY <1>2, <1>7, Zenon DEF ListChanged
<1>9. /\ c = [place |-> c.place, array |-> c.array, n |-> c.n, texts |-> c.texts, harm |-> c.harm, odd |-> c.odd]
      /\ c.harm \subseteq Harmful
  BY <1>8, Zenon DEF ArgList
<1>10. args' = [place |-> c.place, array |-> c.array, n |-> c.n, texts |-> c.texts, harm |-> c.harm, odd |-> o]
  BY <1>5, <1>9
<1>11. /\ ArgList(args') /\ args'.n = n /\ args'.harm = c.harm /\ args'.odd = o /\ Answers(args') = Answers(c)
       /\ Sound(c) => Sound(args')
       /\ \A K : Covers(c, K) => Covers(args', K)
  BY <1>8, <1>9, <1>10, MarkedIs
<1>12. args.odd \subseteq o /\ (IsText(Used(args)[i]) => "overwritten" \in o)
  BY <1>4, <1>8
<1>13. "moved" \notin o => Sound(args) /\ Sound(args') /\ args'.harm = args.harm
  BY <1>1, <1>8, <1>11, <1>12 DEF ListInv
<1>14. HarmOwed(args'.harm, o)
  <2>1. HarmOwed(args.harm, args.odd)
    BY <1>1, Zenon DEF ListInv
  <2> QED
    BY <1>8, <1>11, <1>12, <1>13, <2>1 DEF HarmOwed
<1>15. ASSUME {"forgot", "overwritten"} \cap o = {} PROVE Covers(args', 1 .. args'.n)
  <2>1. {"forgot", "overwritten"} \cap args.odd = {} /\ ~IsText(Used(args)[i])
    BY <1>12, <1>15
  <2>2. Covers(args, 1 .. n)
    BY <1>1, <1>2, <2>1, Zenon DEF ListInv
  <2> QED
    BY <1>7, <1>11, <2>1, <2>2
<1>16. ListInv(args')
  BY <1>11, <1>13, <1>14, <1>15, Zenon DEF ListInv
<1>17. ASSUME args'.odd = {} PROVE Answers(args') = given'
  <2>1. "moved" \notin o /\ args.odd = {}
    BY <1>11, <1>12, <1>17
  <2>2. Answers(c) = [Answers(args) EXCEPT ![i] = v]
    BY <1>1, <1>7, <1>13, <2>1, ChangedAnswers
  <2>3. Answers(args) = given
    BY <2>1 DEF ArgsInv
  <2> QED
    BY <1>5, <1>11, <2>2, <2>3
<1> QED
  BY <1>16, <1>17 DEF ArgsInv

LEMMA AssignOwnKeeps ==
  ASSUME ArgsInv, NEW i \in 1 .. args.n, NEW j \in 1 .. args.n, AssignOwn(i, j)
  PROVE  ArgsInv'
<1>1. ListInv(args) /\ ArgList(args) /\ HarmOwed(args.harm, args.odd)
  BY Zenon DEF ArgsInv, ListInv
<1>2. PICK n \in Nat : /\ n = args.n /\ n <= Len(Used(args)) /\ i \in 1 .. Len(Used(args))
                       /\ (1 .. n) \cup {i} = 1 .. n
  BY <1>1, UsedIs
<1>3. 1 .. n \in SUBSET (1 .. Len(Used(args)))
  BY <1>1, <1>2, UsedIs
<1>4. CASE i = j
  <2>1. PICK c : c = ClearParam(args, i)
    OBVIOUS
  <2>2. PICK o : o = c.odd \cup {"itself"}
    OBVIOUS
  <2>3. args' = [c EXCEPT !.odd = o]
    BY <1>4, <2>1, <2>2 DEF AssignOwn
  <2>4. PICK p : p = Used(args)[i]
    OBVIOUS
  <2>5. Cleared(c, args, i, p)
    BY <1>1, <1>2, <2>1, <2>4, ClearIs
  <2>6. OneSet(c, args, i, Unset) /\ c.harm \subseteq args.harm \cup {"twice"}
    BY <2>5 DEF Cleared
  <2>7. ArgList(c) /\ c.n = n /\ c.odd = args.odd
    BY <1>2, <2>6, Zenon DEF OneSet
  <2>8. /\ Sound(args) => Sound(c) /\ c.harm = args.harm
        /\ Covers(args, 1 .. n) => Covers(c, (1 .. n) \ {i})
    BY <1>1, <1>2, <1>3, <2>1, ClearKeeps
  <2>9. /\ c = [place |-> c.place, array |-> c.array, n |-> c.n, texts |-> c.texts, harm |-> c.harm, odd |-> c.odd]
        /\ c.harm \subseteq Harmful
    BY <2>7, Zenon DEF ArgList
  <2>10. args' = [place |-> c.place, array |-> c.array, n |-> c.n, texts |-> c.texts, harm |-> c.harm, odd |-> o]
    BY <2>3, <2>9
  <2>11. /\ ArgList(args') /\ args'.n = n /\ args'.harm = c.harm /\ args'.odd = o
         /\ Sound(c) => Sound(args')
         /\ \A K : Covers(c, K) => Covers(args', K)
    BY <2>7, <2>9, <2>10, MarkedIs
  <2>12. o = args.odd \cup {"itself"}
    BY <2>2, <2>7
  <2>13. "moved" \notin o => Sound(args') /\ args'.harm = args.harm
    BY <1>1, <2>8, <2>11, <2>12 DEF ListInv
  <2>14. HarmOwed(args'.harm, o)
    BY <1>1, <2>6, <2>11, <2>12, <2>13 DEF HarmOwed
  <2>15. ASSUME {"forgot", "overwritten"} \cap o = {} PROVE Covers(args', 1 .. args'.n)
    <3>1. {"forgot", "overwritten"} \cap args.odd = {}
      BY <2>12, <2>15
    <3>2. Covers(args', (1 .. n) \ {i})
      BY <1>1, <1>2, <2>8, <2>11, <3>1, Zenon DEF ListInv
    <3>3. Covers(args', 1 .. n)
      BY <3>2, Zenon DEF Covers
    <3> QED
      BY <2>11, <3>3
  <2>16. ListInv(args')
    BY <2>11, <2>13, <2>14, <2>15, Zenon DEF ListInv
  <2> QED
    BY <2>11, <2>12, <2>16 DEF ArgsInv
<1>5. CASE i # j
  <2>1. PICK v : v = Answer(args, j)
    OBVIOUS
  <2>2. args' = AssignParam(args, i, v) /\ given' = [given EXCEPT ![i] = given[j]]
    BY <1>5, <2>1, Zenon DEF AssignOwn
  <2>3. Answers(args)[j] = v
    BY <2>1 DEF Answers
  <2>4. v \in Copied
    BY <1>1, <2>3, AnswersIn, ElementOfSeq
  <2>5. Assigned(args', args, i, v)
    BY <1>1, <1>2, <2>2, <2>4, AssignKeeps
  <2>6. /\ ArgList(args') /\ args'.n = n /\ args'.odd = args.odd
        /\ args'.harm \subseteq args.harm \cup {"twice", "stale"}
        /\ Covers(args, 1 .. n) => Covers(args', 1 .. n)
        /\ v \in ArgValues => ListChanged(args', args, i, v)
    BY <1>2, <1>3, <2>5 DEF Assigned
  <2>7. ASSUME "moved" \notin args.odd
        PROVE  Sound(args) /\ Sound(args') /\ args'.harm = args.harm /\ Answers(args') = [Answers(args) EXCEPT ![i] = v]
    <3>1. Sound(args)
      BY <1>1, <2>7, Zenon DEF ListInv
    <3>2. v \in ArgValues
      BY <1>1, <2>1, <3>1, SoundAnswers
    <3>3. ListChanged(args', args, i, v)
      BY <2>6, <3>2
    <3>4. Answers(args') = [Answers(args) EXCEPT ![i] = v]
      BY <1>1, <3>1, <3>3, ChangedAnswers
    <3> QED
      BY <3>1, <3>3, <3>4, Zenon DEF ListChanged
  <2>8. HarmOwed(args'.harm, args'.odd)
    BY <1>1, <2>6, <2>7 DEF HarmOwed
  <2>9. ListInv(args')
    BY <1>1, <1>2, <2>6, <2>7, <2>8, Zenon DEF ListInv
  <2>10. ASSUME args'.odd = {} PROVE Answers(args') = given'
    <3>1. "moved" \notin args.odd /\ Answers(args) = given
      BY <2>6, <2>10 DEF ArgsInv
    <3> QED
      BY <2>2, <2>3, <2>7, <3>1
  <2> QED
    BY <2>9, <2>10 DEF ArgsInv
<1> QED
  BY <1>4, <1>5

LEMMA ArgsInvStep ==
  ASSUME ArgsInv, [ArgsNext]_argsVars
  PROVE  ArgsInv'
<1>1. CASE UNCHANGED argsVars
  <2>1. args' = args /\ given' = given
    BY <1>1 DEF argsVars
  <2> QED
    BY <2>1 DEF ArgsInv
<1>2. CASE ArgsNext
  <2>1. ListInv(args) /\ args.harm = {} /\ ArgList(args)
    BY <1>2, Zenon DEF ArgsNext, ArgsInv, ListInv
  <2>2. args.odd = {} => Answers(args) = given
    BY DEF ArgsInv
  <2>3. ASSUME NEW v \in ArgNumbers \cup ArgTexts \cup {NoText}, PushArg(v)
        PROVE  ArgsInv'
    <3>1. v \in ArgValues
      BY DEF ArgValues
    <3>2. Added(args', args, v)
      BY <2>1, <2>3, <3>1, PushIs DEF PushArg
    <3> QED
      BY <2>2, <2>3, <3>2, AddedKeeps DEF PushArg
  <2>4. ASSUME NEW v \in ArgNumbers \cup ArgTexts, AddParam(v)
        PROVE  ArgsInv'
    <3>1. v \in ArgValues /\ v \in Copied
      BY DEF ArgValues, Copied
    <3>2. Added(args', args, v)
      BY <2>1, <2>4, <3>1, AddArgIs DEF AddParam
    <3> QED
      BY <2>2, <2>4, <3>2, AddedKeeps DEF AddParam
  <2>5. ASSUME NEW i \in 1 .. args.n, AddOwn(i)
        PROVE  ArgsInv'
    BY <2>5, AddOwnKeeps
  <2>6. ASSUME NEW v \in ArgNumbers \cup ArgTexts, NEW w \in ArgNumbers \cup ArgTexts, AddList(<<v, w>>)
        PROVE  ArgsInv'
    <3>1. PICK vs : vs = <<v, w>>
      OBVIOUS
    <3>2. vs \in Seq(ArgValues)
      BY <3>1 DEF ArgValues
    <3>3. args' = AddArgs(args, vs) /\ given' = given \o vs
      BY <2>6, <3>1 DEF AddList
    <3>4. /\ ListInv(args') /\ args.odd \subseteq args'.odd
          /\ "moved" \in args'.odd \/ Answers(args') = Answers(args) \o vs
      BY <2>1, <3>2, <3>3, AddArgsIs
    <3>5. args'.odd = {} => Answers(args') = given'
      BY <2>2, <3>3, <3>4
    <3> QED
      BY <3>4, <3>5 DEF ArgsInv
  <2>7. ASSUME NEW i \in 1 .. args.n, NEW v \in ArgNumbers \cup ArgTexts, SetOwn(i, v)
        PROVE  ArgsInv'
    BY <2>7, SetOwnKeeps DEF ArgValues
  <2>8. ASSUME NEW i \in 1 .. args.n, NEW j \in 1 .. args.n, AssignOwn(i, j)
        PROVE  ArgsInv'
    BY <2>8, AssignOwnKeeps
  <2>9. CASE EmptyArgs
    <3>1. args' = ClearArgs(args) /\ given' = <<>>
      BY <2>9 DEF EmptyArgs
    <3>2. ListInv(args') /\ args'.n = 0
      BY <2>1, <3>1, ClearArgsIs
    <3>3. Answers(args') \in Seq(Copied) /\ Len(Answers(args')) = 0
      BY <3>2, AnswersIn DEF ListInv
    <3>4. Answers(args') = <<>>
      BY <3>3, EmptySeq
    <3> QED
      BY <3>1, <3>2, <3>4 DEF ArgsInv
  <2>10. CASE Forget
    <3>2. PICK h : h = (IF args.array = <<>> THEN {} ELSE {"lost"})
      OBVIOUS
    <3>3. PICK o : o = args.odd \cup (IF args.array # <<>> \/ HasTexts(args) THEN {"forgot"} ELSE {})
      OBVIOUS
    <3>4. args' = [args EXCEPT !.array = <<>>, !.n = 0, !.harm = h, !.odd = o] /\ given' = <<>>
      BY <2>10, <3>2, <3>3, Zenon DEF Forget, HasTexts
    <3>5. ListInv(args') /\ Answers(args') = <<>>
      <4>1. PICK l : l = args
        OBVIOUS
      <4>2. PICK m : m = [l EXCEPT !.array = <<>>, !.n = 0, !.harm = h, !.odd = o]
        OBVIOUS
      <4>3. ListInv(l) /\ h = (IF l.array = <<>> THEN {} ELSE {"lost"})
        BY <2>1, <3>2, <4>1
      <4>4. o = l.odd \cup (IF l.array # <<>> \/ HasTexts(l) THEN {"forgot"} ELSE {})
        BY <3>3, <4>1
      <4>5. ListInv(m) /\ Answers(m) = <<>>
        BY <4>2, <4>3, <4>4, ForgetIs, Zenon
      <4>6. args' = m
        BY <3>4, <4>1, <4>2, Zenon
      <4> QED
        BY <4>5, <4>6
    <3> QED
      BY <3>4, <3>5 DEF ArgsInv
  <2>11. CASE NewArgs
    <3>1. Replaced(<<>>) /\ given' = <<>>
      BY <2>11 DEF NewArgs
    <3>2. <<>> \in Seq(Copied) /\ ~\E i \in 1 .. Len(<<>>) : <<>>[i] = "stale"
      OBVIOUS
    <3> QED
      BY <3>1, <3>2, ReplacedIs
  <2>12. CASE CopyArgs
    <3>1. PICK vs : vs = Answers(args)
      OBVIOUS
    <3>2. Replaced(vs) /\ given' = vs
      BY <2>12, <3>1 DEF CopyArgs
    <3>3. vs \in Seq(Copied) /\ Len(vs) = args.n
      BY <2>1, <3>1, AnswersIn
    <3>4. (\E i \in 1 .. Len(vs) : vs[i] = "stale") => \E i \in 1 .. args.n : Answers(args)[i] = "stale"
      BY <3>1, <3>3
    <3> QED
      BY <3>2, <3>3, <3>4, ReplacedIs
  <2> QED
    BY <1>2, <2>3, <2>4, <2>5, <2>6, <2>7, <2>8, <2>9, <2>10, <2>11, <2>12, Zenon DEF ArgsNext
<1> QED
  BY <1>1, <1>2

-------------------------------------------------------------------------------
(***************************************************************************)
(* Ini files.  FlattenSeq puts sequences one behind the other: each begins   *)
(* where the lengths of those before it add up to.                           *)
(***************************************************************************)
LEMMA UpTo ==
  ASSUME NEW n \in Nat, NEW T, 0 \in T, \A k \in Nat : k < n /\ k \in T => k + 1 \in T
  PROVE  \A k \in Nat : k <= n => k \in T
<1> SUFFICES ASSUME NEW j \in Nat, j <= n, j \notin T PROVE FALSE
  OBVIOUS
<1>1. PICK U : U = {k \in Nat : k <= n /\ k \notin T}
  OBVIOUS
<1>2. j \in U /\ U \subseteq Nat
  BY <1>1
<1>3. PICK k \in U : \A i \in U : k <= i
  BY <1>2, LeastNumber
<1>4. k \in Nat /\ k <= n /\ k \notin T /\ k # 0
  BY <1>1, <1>3
<1>5. k - 1 \in Nat /\ k - 1 < n /\ (k - 1) + 1 = k /\ k - 1 < k
  BY <1>4
<1>6. k - 1 \in T
  BY <1>1, <1>3, <1>5
<1> QED
  BY <1>4, <1>5, <1>6

(* The function that FlattenSeq defines recursively. *)
Flat(seqs, k, f) == f = [i \in 1 .. k |-> IF i = 1 THEN seqs[i] ELSE f[i - 1] \o seqs[i]]

LEMMA FlatExists ==
  ASSUME NEW seqs, NEW n \in Nat
  PROVE  \E f : Flat(seqs, n, f)
<1>1. PICK T : T = {k \in Nat : \E f : Flat(seqs, k, f)}
  OBVIOUS
<1>2. 0 \in T
  <2>1. PICK f : f = [i \in 1 .. 0 |-> 0]
    OBVIOUS
  <2>2. Flat(seqs, 0, f)
    BY <2>1 DEF Flat
  <2> QED
    BY <1>1, <2>2
<1>3. ASSUME NEW k \in Nat, k < n, k \in T
      PROVE  k + 1 \in T
  <2>1. PICK f : Flat(seqs, k, f)
    BY <1>1, <1>3
  <2>2. PICK m \in Nat : m = k + 1
    OBVIOUS
  <2>3. PICK g : g = [i \in 1 .. m |-> IF i = m THEN IF i = 1 THEN seqs[i] ELSE f[k] \o seqs[i] ELSE f[i]]
    OBVIOUS
  <2>4. ASSUME NEW i \in 1 .. m
        PROVE  g[i] = IF i = 1 THEN seqs[i] ELSE g[i - 1] \o seqs[i]
    <3>1. CASE i = m
      <4>1. i = 1 \/ (k \in 1 .. m /\ k # m /\ i - 1 = k)
        BY <2>2, <3>1
      <4> QED
        BY <2>3, <3>1, <4>1
    <3>2. CASE i # m
      <4>1. i \in 1 .. k /\ (i = 1 \/ (i - 1 \in 1 .. m /\ i - 1 # m /\ i - 1 \in 1 .. k))
        BY <2>2, <3>2
      <4>2. f[i] = IF i = 1 THEN seqs[i] ELSE f[i - 1] \o seqs[i]
        BY <2>1, <4>1, Zenon DEF Flat
      <4>3. g[i] = f[i] /\ (i = 1 \/ g[i - 1] = f[i - 1])
        BY <2>3, <3>2, <4>1
      <4> QED
        BY <4>2, <4>3
    <3> QED
      BY <3>1, <3>2
  <2>5. g = [i \in 1 .. m |-> g[i]]
    BY <2>3
  <2>6. Flat(seqs, m, g)
    BY <2>4, <2>5, Zenon DEF Flat
  <2> QED
    BY <1>1, <2>2, <2>6
<1>4. n \in T
  BY <1>2, <1>3, UpTo
<1> QED
  BY <1>1, <1>4

(* a[k] is what the first k of them give. *)
Flattening(S, seqs, n, a) ==
  /\ a[0] = <<>> /\ \A k \in 1 .. n : a[k] = a[k - 1] \o seqs[k]
  /\ \A k \in 0 .. n : a[k] \in Seq(S)
  /\ FlattenSeq(seqs) = a[n]

LEMMA FlattenIs ==
  ASSUME NEW S, NEW n \in Nat, NEW seqs, seqs = [i \in 1 .. n |-> seqs[i]],
         \A i \in 1 .. n : seqs[i] \in Seq(S)
  PROVE  \E a : Flattening(S, seqs, n, a)
<1>1. Len(seqs) = n
  <2>1. seqs \in Seq(Seq(S))
    OBVIOUS
  <2> QED
    BY <2>1
<1>2. CASE n = 0
  <2>1. PICK a : a = [k \in 0 .. 0 |-> <<>>]
    OBVIOUS
  <2>2. seqs = <<>>
    <3>1. seqs \in Seq(Seq(S))
      OBVIOUS
    <3> QED
      BY <1>1, <1>2, <3>1, EmptySeq
  <2>3. FlattenSeq(seqs) = seqs
    BY <1>1, <1>2, Zenon DEF FlattenSeq
  <2>4. a[0] = <<>> /\ <<>> \in Seq(S)
    BY <2>1
  <2> QED
    <3>1. a[n] = <<>> /\ FlattenSeq(seqs) = a[n] /\ a[0] = <<>>
      BY <1>2, <2>2, <2>3, <2>4
    <3>2. \A k \in 0 .. n : a[k] \in Seq(S)
      <4>1. \A k \in 0 .. n : k = 0
        BY <1>2
      <4>2. a[0] \in Seq(S)
        BY <2>4, Zenon
      <4> QED
        BY <4>1, <4>2, Zenon
    <3>3. \A k \in 1 .. n : a[k] = a[k - 1] \o seqs[k]
      BY <1>2
    <3> QED
      BY <3>1, <3>2, <3>3, Zenon DEF Flattening
<1>3. CASE n # 0
  <2>1. PICK f : f = CHOOSE g : Flat(seqs, n, g)
    OBVIOUS
  <2>2. Flat(seqs, n, f)
    BY <2>1, FlatExists, Zenon
  <2>3. FlattenSeq(seqs) = f[n]
    BY <1>1, <1>3, <2>1, Zenon DEF FlattenSeq, Flat
  <2>4. PICK a : a = [k \in 0 .. n |-> IF k = 0 THEN <<>> ELSE f[k]]
    OBVIOUS
  <2>5. a[0] = <<>> /\ a[n] = f[n]
    BY <1>3, <2>4
  <2>6. ASSUME NEW k \in 1 .. n
        PROVE  a[k] = a[k - 1] \o seqs[k]
    <3>1. f[k] = IF k = 1 THEN seqs[k] ELSE f[k - 1] \o seqs[k]
      BY <2>2, Zenon DEF Flat
    <3>2. a[k] = f[k] /\ (k = 1 \/ a[k - 1] = f[k - 1])
      BY <2>4
    <3>3. CASE k = 1
      <4>1. a[k - 1] = <<>> /\ seqs[k] \in Seq(S)
        BY <2>5, <3>3
      <4> QED
        BY <3>1, <3>2, <3>3, <4>1
    <3>4. CASE k # 1
      BY <3>1, <3>2, <3>4
    <3> QED
      BY <3>3, <3>4
  <2>7. \A k \in Nat : k <= n => a[k] \in Seq(S)
    <3>1. PICK T : T = {k \in Nat : a[k] \in Seq(S)}
      OBVIOUS
    <3>2. 0 \in T
      <4>1. <<>> \in Seq(S) /\ a[0] = <<>>
        BY <2>5
      <4> QED
        BY <3>1, <4>1
    <3>3. ASSUME NEW k \in Nat, k < n, k \in T PROVE k + 1 \in T
      <4>1. k + 1 \in 1 .. n /\ (k + 1) - 1 = k
        BY <3>3
      <4>2. a[k + 1] = a[k] \o seqs[k + 1]
        BY <2>6, <4>1
      <4>3. a[k + 1] \in Seq(S)
        BY <3>1, <3>3, <4>1, <4>2, ConcatProperties
      <4> QED
        BY <3>1, <4>3
    <3>4. \A k \in Nat : k <= n => k \in T
      BY <3>2, <3>3, UpTo
    <3> QED
      BY <3>1, <3>4
  <2>8. \A k \in 0 .. n : a[k] \in Seq(S)
    BY <2>7
  <2> QED
    BY <2>3, <2>5, <2>6, <2>8 DEF Flattening
<1> QED
  BY <1>2, <1>3

(* Element i of sequence k comes at off[k - 1] + i. *)
Placed(seqs, n, off, r) ==
  /\ off[0] = 0 /\ \A k \in 0 .. n : off[k] \in Nat
  /\ \A k \in 1 .. n : off[k] = off[k - 1] + Len(seqs[k])
  /\ \A j, k \in 0 .. n : j <= k => off[j] <= off[k]
  /\ Len(r) = off[n]
  /\ \A k \in 1 .. n : \A i \in 1 .. Len(seqs[k]) : r[off[k - 1] + i] = seqs[k][i]

LEMMA FlattenPlaces ==
  ASSUME NEW S, NEW n \in Nat, NEW seqs, seqs = [i \in 1 .. n |-> seqs[i]],
         \A i \in 1 .. n : seqs[i] \in Seq(S)
  PROVE  FlattenSeq(seqs) \in Seq(S) /\ \E off : Placed(seqs, n, off, FlattenSeq(seqs))
<1>1. PICK a : Flattening(S, seqs, n, a)
  BY FlattenIs
<1>2. /\ a[0] = <<>> /\ FlattenSeq(seqs) = a[n]
      /\ \A k \in 0 .. n : a[k] \in Seq(S)
      /\ \A k \in 1 .. n : a[k] = a[k - 1] \o seqs[k]
  BY <1>1, Zenon DEF Flattening
<1>3. PICK off : off = [k \in 0 .. n |-> Len(a[k])]
  OBVIOUS
<1>4. off[0] = 0 /\ \A k \in 0 .. n : off[k] \in Nat /\ off[k] = Len(a[k])
  BY <1>2, <1>3, LenProperties
<1>5. ASSUME NEW k \in 1 .. n
      PROVE  /\ off[k] = off[k - 1] + Len(seqs[k])
             /\ \A i \in 1 .. off[k - 1] : a[k][i] = a[k - 1][i]
             /\ \A i \in 1 .. Len(seqs[k]) : a[k][off[k - 1] + i] = seqs[k][i]
  <2>1. k \in 0 .. n /\ k - 1 \in 0 .. n
    OBVIOUS
  <2>2. PICK s \in Seq(S) : s = a[k - 1]
    BY <1>2, <2>1
  <2>3. PICK t \in Seq(S) : t = seqs[k]
    OBVIOUS
  <2>4. a[k] = s \o t
    BY <1>2, <2>2, <2>3
  <2>5. off[k] = Len(s \o t) /\ off[k - 1] = Len(s)
    BY <1>4, <2>1, <2>2, <2>4
  <2>6. PICK x \in Nat : x = Len(s)
    BY LenProperties
  <2>7. PICK y \in Nat : y = Len(t)
    BY LenProperties
  <2>8. Len(s \o t) = x + y /\ \A i \in 1 .. x + y : (s \o t)[i] = IF i <= x THEN s[i] ELSE t[i - x]
    BY <2>6, <2>7, ConcatProperties
  <2>9. \A i \in 1 .. x : (s \o t)[i] = s[i]
    BY <2>8
  <2>10. \A i \in 1 .. y : (s \o t)[x + i] = t[i]
    <3> SUFFICES ASSUME NEW i \in 1 .. y PROVE (s \o t)[x + i] = t[i]
      OBVIOUS
    <3>1. x + i \in 1 .. x + y /\ ~(x + i <= x) /\ (x + i) - x = i
      OBVIOUS
    <3> QED
      BY <2>8, <3>1
  <2> QED
    BY <2>2, <2>3, <2>4, <2>5, <2>6, <2>7, <2>8, <2>9, <2>10
<1>6. PICK T : T = {m \in 0 .. n : /\ \A j \in 0 .. m : off[j] <= off[m]
                                  /\ \A k \in 1 .. m : \A i \in 1 .. Len(seqs[k]) :
                                       a[m][off[k - 1] + i] = seqs[k][i]}
  OBVIOUS
<1>7. 0 \in T
  <2>1. \A j \in 0 .. 0 : off[j] <= off[0]
    BY <1>4
  <2> QED
    BY <1>6, <2>1
<1>8. ASSUME NEW m \in Nat, m < n, m \in T
      PROVE  m + 1 \in T
  <2>1. PICK l \in 1 .. n : l = m + 1 /\ l - 1 = m /\ m \in 0 .. n /\ l \in Nat /\ l \in 0 .. n
    BY <1>8
  <2>2. /\ \A j \in 0 .. m : off[j] <= off[m]
        /\ \A k \in 1 .. m : \A i \in 1 .. Len(seqs[k]) : a[m][off[k - 1] + i] = seqs[k][i]
    BY <1>6, <1>8
  <2>3. /\ off[l] = off[m] + Len(seqs[l])
        /\ \A i \in 1 .. off[m] : a[l][i] = a[m][i]
        /\ \A i \in 1 .. Len(seqs[l]) : a[l][off[m] + i] = seqs[l][i]
    BY <1>5, <2>1
  <2>4. off[l] \in Nat /\ off[m] \in Nat /\ Len(seqs[l]) \in Nat
    <3>1. seqs[l] \in Seq(S)
      OBVIOUS
    <3> QED
      BY <1>4, <2>1, <3>1, LenProperties
  <2>5. \A j \in 0 .. l : off[j] <= off[l]
    <3> SUFFICES ASSUME NEW j \in 0 .. l PROVE off[j] <= off[l]
      OBVIOUS
    <3>1. off[m] <= off[l] /\ (j \in 0 .. m \/ j = l) /\ j \in 0 .. n
      BY <2>1, <2>3, <2>4
    <3>2. off[j] \in Nat
      BY <1>4, <3>1
    <3> QED
      BY <2>2, <2>4, <3>1, <3>2
  <2>6. ASSUME NEW k \in 1 .. l, NEW i \in 1 .. Len(seqs[k])
        PROVE  a[l][off[k - 1] + i] = seqs[k][i]
    <3>1. CASE k = l
      BY <2>1, <2>3, <2>6, <3>1
    <3>2. CASE k # l
      <4>1. k \in 1 .. m /\ k \in 0 .. m /\ k \in 1 .. n /\ k - 1 \in 0 .. n /\ k \in 0 .. n
        BY <2>1, <3>2
      <4>2. off[k] = off[k - 1] + Len(seqs[k]) /\ off[k] <= off[m] /\ off[k] \in Nat /\ off[k - 1] \in Nat
        BY <1>4, <1>5, <2>2, <4>1
      <4>3. seqs[k] \in Seq(S)
        BY <4>1
      <4>4. Len(seqs[k]) \in Nat
        BY <4>3, LenProperties
      <4>5. off[k - 1] + i \in 1 .. off[m]
        BY <2>4, <2>6, <4>2, <4>4
      <4> QED
        BY <2>2, <2>3, <2>6, <4>1, <4>5
    <3> QED
      BY <3>1, <3>2
  <2> QED
    BY <1>6, <2>1, <2>5, <2>6
<1>9. \A m \in Nat : m <= n => m \in T
  BY <1>7, <1>8, UpTo
<1>10. \A j, k \in 0 .. n : j <= k => off[j] <= off[k]
  <2> SUFFICES ASSUME NEW j \in 0 .. n, NEW k \in 0 .. n, j <= k PROVE off[j] <= off[k]
    OBVIOUS
  <2>1. k \in T /\ k \in Nat /\ k <= n /\ j \in 0 .. k
    BY <1>9
  <2> QED
    BY <1>6, <2>1
<1>11. n \in T
  BY <1>9
<1>12. \A k \in 1 .. n : \A i \in 1 .. Len(seqs[k]) : a[n][off[k - 1] + i] = seqs[k][i]
  BY <1>6, <1>11
<1>13. n \in 0 .. n
  OBVIOUS
<1>14. Placed(seqs, n, off, a[n])
  BY <1>4, <1>5, <1>10, <1>12, <1>13 DEF Placed
<1> QED
  BY <1>2, <1>13, <1>14

-------------------------------------------------------------------------------
(***************************************************************************)
(* A file that was saved: where its sections are, and what is read of them.  *)
(***************************************************************************)
IniFields == [name : FieldNames, value : IniValues]
IniSections == [name : SectionNames, fields : Seq(IniFields)]

IniLines ==
  [is : {"section", "name"}, name : SectionNames \cup FieldNames]
    \cup [is : {"value"}, name : FieldNames, value : IniValues] \cup [is : {"blank"}]

Heading(s) == [is |-> "section", name |-> s.name]
Blank == [is |-> "blank"]
FieldLine(f) ==
  IF f.value = NullText THEN [is |-> "name", name |-> f.name]
  ELSE [is |-> "value", name |-> f.name, value |-> f.value]

LEMMA FieldLineIs ==
  ASSUME NEW f \in IniFields
  PROVE  FieldLine(f) \in IniLines /\ FieldLine(f).is # "section" /\ FieldLines(f) = <<FieldLine(f)>>
<1>1. f.name \in FieldNames /\ f.value \in IniValues
  BY DEF IniFields
<1>2. FieldLines(f) = <<FieldLine(f)>>
  BY DEF FieldLines, FieldLine
<1>3. CASE f.value = NullText
  <2>1. FieldLine(f) = [is |-> "name", name |-> f.name]
    BY <1>3 DEF FieldLine
  <2> QED
    BY <1>1, <1>2, <2>1 DEF IniLines
<1>4. CASE f.value # NullText
  <2>1. FieldLine(f) = [is |-> "value", name |-> f.name, value |-> f.value]
    BY <1>4 DEF FieldLine
  <2> QED
    BY <1>1, <1>2, <2>1 DEF IniLines
<1> QED
  BY <1>3, <1>4

(* The lines of a section of m fields. *)
SectionIs(s, m, r) ==
  /\ r \in Seq(IniLines) /\ Len(r) = m + 2
  /\ r[1] = Heading(s) /\ r[m + 2] = Blank
  /\ \A j \in 1 .. m : r[1 + j] = FieldLine(s.fields[j])

LEMMA SectionLinesIs ==
  ASSUME NEW s \in IniSections, NEW m \in Nat, m = Len(s.fields)
  PROVE  SectionIs(s, m, SectionLines(s))
<1>1. PICK fs \in Seq(IniFields) : fs = s.fields
  BY DEF IniSections
<1>2. DOMAIN fs = 1 .. m /\ \A i \in 1 .. m : fs[i] \in IniFields
  BY <1>1, LenProperties, ElementOfSeq
<1>3. PICK seqs : seqs = [i \in 1 .. m |-> FieldLines(fs[i])]
  OBVIOUS
<1>4. seqs = [i \in 1 .. m |-> seqs[i]] /\ \A i \in 1 .. m : seqs[i] = FieldLines(fs[i])
  BY <1>3
<1>5. ASSUME NEW i \in 1 .. m
      PROVE  seqs[i] \in Seq(IniLines) /\ Len(seqs[i]) = 1 /\ seqs[i][1] = FieldLine(fs[i])
  <2>1. PICK l \in IniLines : l = FieldLine(fs[i])
    BY <1>2, FieldLineIs
  <2>2. seqs[i] = <<l>>
    BY <1>2, <1>4, <2>1, FieldLineIs
  <2> QED
    BY <2>1, <2>2
<1>6. PICK r : r = FlattenSeq(seqs)
  OBVIOUS
<1>7. r \in Seq(IniLines) /\ \E off : Placed(seqs, m, off, r)
  BY <1>4, <1>5, <1>6, FlattenPlaces
<1>8. PICK off : Placed(seqs, m, off, r)
  BY <1>7
<1>9. /\ off[0] = 0 /\ Len(r) = off[m]
      /\ \A k \in 1 .. m : off[k] = off[k - 1] + Len(seqs[k])
      /\ \A k \in 1 .. m : \A i \in 1 .. Len(seqs[k]) : r[off[k - 1] + i] = seqs[k][i]
  BY <1>8, Zenon DEF Placed
<1>10. \A k \in Nat : k <= m => off[k] = k
  <2>1. PICK T : T = {k \in Nat : off[k] = k}
    OBVIOUS
  <2>2. 0 \in T
    BY <1>9, <2>1
  <2>3. ASSUME NEW k \in Nat, k < m, k \in T PROVE k + 1 \in T
    <3>1. k + 1 \in 1 .. m /\ (k + 1) - 1 = k
      BY <2>3
    <3>2. off[k + 1] = off[k] + 1
      BY <1>5, <1>9, <3>1
    <3> QED
      BY <2>1, <2>3, <3>2
  <2>4. \A k \in Nat : k <= m => k \in T
    BY <2>2, <2>3, UpTo
  <2> QED
    BY <2>1, <2>4
<1>11. Len(r) = m
  BY <1>9, <1>10
<1>12. \A j \in 1 .. m : r[j] = FieldLine(fs[j])
  <2> SUFFICES ASSUME NEW j \in 1 .. m PROVE r[j] = FieldLine(fs[j])
    OBVIOUS
  <2>1. j - 1 \in Nat /\ j - 1 <= m /\ (j - 1) + 1 = j
    OBVIOUS
  <2>2. off[j - 1] = j - 1
    BY <1>10, <2>1
  <2>3. 1 \in 1 .. Len(seqs[j])
    BY <1>5
  <2>4. r[off[j - 1] + 1] = seqs[j][1]
    BY <1>9, <2>3
  <2> QED
    BY <1>5, <2>1, <2>2, <2>4
<1>13. PICK h \in IniLines : h = Heading(s)
  BY DEF Heading, IniLines, IniSections
<1>14. PICK b \in IniLines : b = Blank
  BY DEF Blank, IniLines
<1>15. SectionLines(s) = (<<h>> \o r) \o <<b>>
  <2>1. seqs = [i \in DOMAIN s.fields |-> FieldLines(s.fields[i])]
    BY <1>1, <1>2, <1>3
  <2> QED
    BY <1>6, <1>13, <1>14, <2>1, Zenon DEF SectionLines, Heading, Blank
<1>16. PICK q : q = <<h>> \o r
  OBVIOUS
<1>17. <<h>> \in Seq(IniLines) /\ <<b>> \in Seq(IniLines) /\ Len(<<h>>) = 1 /\ Len(<<b>>) = 1 /\ <<h>>[1] = h /\ <<b>>[1] = b
  OBVIOUS
<1>18. q \in Seq(IniLines) /\ Len(q) = m + 1 /\ q[1] = h /\ \A j \in 1 .. m : q[1 + j] = r[j]
  BY <1>7, <1>11, <1>16, <1>17
<1>19. PICK z : z = q \o <<b>>
  OBVIOUS
<1>20. /\ z \in Seq(IniLines) /\ Len(z) = m + 2
       /\ \A i \in 1 .. m + 1 : z[i] = q[i]
       /\ z[m + 2] = b
  <2>1. PICK c \in Seq(IniLines) : c = <<b>> /\ Len(c) = 1 /\ c[1] = b
    BY <1>17
  <2> QED
    BY <1>18, <1>19, <2>1
<1>21. z[1] = h /\ \A j \in 1 .. m : z[1 + j] = r[j]
  <2>1. 1 \in 1 .. m + 1 /\ \A j \in 1 .. m : 1 + j \in 1 .. m + 1
    OBVIOUS
  <2> QED
    BY <1>18, <1>20, <2>1
<1> QED
  BY <1>1, <1>12, <1>13, <1>14, <1>15, <1>16, <1>19, <1>20, <1>21 DEF SectionIs

(* The file r of n sections, of which section k ends with line off[k]. *)
FileIs(db, n, off, r) ==
  /\ off[0] = 0 /\ (\A k \in 0 .. n : off[k] \in Nat) /\ Len(r) = off[n] /\ r \in Seq(IniLines)
  /\ \A k \in 1 .. n : Len(db[k].fields) \in Nat /\ off[k] = (off[k - 1] + 1) + (Len(db[k].fields) + 1)
  /\ \A j, k \in 0 .. n : j < k => off[j] < off[k]
  /\ \A k \in 1 .. n :
       /\ r[off[k - 1] + 1] = Heading(db[k]) /\ r[off[k]] = Blank
       /\ \A j \in 1 .. Len(db[k].fields) : r[(off[k - 1] + 1) + j] = FieldLine(db[k].fields[j])

LEMMA FileLinesIs ==
  ASSUME NEW db \in Seq(IniSections), NEW n \in Nat, n = Len(db)
  PROVE  \E off : FileIs(db, n, off, FileLines(db))
<1>1. DOMAIN db = 1 .. n /\ \A k \in 1 .. n : db[k] \in IniSections
  BY LenProperties, ElementOfSeq
<1>2. PICK seqs : seqs = [k \in 1 .. n |-> SectionLines(db[k])]
  OBVIOUS
<1>3. seqs = [k \in 1 .. n |-> seqs[k]] /\ \A k \in 1 .. n : seqs[k] = SectionLines(db[k])
  BY <1>2
<1>4. ASSUME NEW k \in 1 .. n
      PROVE  Len(db[k].fields) \in Nat /\ SectionIs(db[k], Len(db[k].fields), seqs[k])
  <2>1. db[k].fields \in Seq(IniFields)
    BY <1>1 DEF IniSections
  <2>2. PICK m \in Nat : m = Len(db[k].fields)
    BY <2>1, LenProperties
  <2> QED
    BY <1>1, <1>3, <2>2, SectionLinesIs
<1>5. \A k \in 1 .. n : seqs[k] \in Seq(IniLines) /\ Len(seqs[k]) = Len(db[k].fields) + 2
  BY <1>4, Zenon DEF SectionIs
<1>6. PICK r : r = FlattenSeq(seqs)
  OBVIOUS
<1>7. r \in Seq(IniLines) /\ \E off : Placed(seqs, n, off, r)
  BY <1>3, <1>5, <1>6, FlattenPlaces
<1>8. PICK off : Placed(seqs, n, off, r)
  BY <1>7
<1>9. /\ off[0] = 0 /\ \A k \in 0 .. n : off[k] \in Nat
      /\ \A k \in 1 .. n : off[k] = off[k - 1] + Len(seqs[k])
      /\ \A j, k \in 0 .. n : j <= k => off[j] <= off[k]
      /\ Len(r) = off[n]
      /\ \A k \in 1 .. n : \A i \in 1 .. Len(seqs[k]) : r[off[k - 1] + i] = seqs[k][i]
  BY <1>8, Zenon DEF Placed
<1>10. FileLines(db) = r
  BY <1>1, <1>2, <1>6, Zenon DEF FileLines
<1>11. ASSUME NEW k \in 1 .. n
       PROVE  /\ off[k] = (off[k - 1] + 1) + (Len(db[k].fields) + 1)
              /\ r[off[k - 1] + 1] = Heading(db[k]) /\ r[off[k]] = Blank
              /\ \A j \in 1 .. Len(db[k].fields) : r[(off[k - 1] + 1) + j] = FieldLine(db[k].fields[j])
  <2>1. PICK m \in Nat : m = Len(db[k].fields)
    BY <1>4
  <2>2. SectionIs(db[k], m, seqs[k])
    BY <1>4, <2>1
  <2>3. /\ Len(seqs[k]) = m + 2 /\ seqs[k][1] = Heading(db[k]) /\ seqs[k][m + 2] = Blank
        /\ \A j \in 1 .. m : seqs[k][1 + j] = FieldLine(db[k].fields[j])
    BY <2>2, Zenon DEF SectionIs
  <2>4. PICK o \in Nat : o = off[k - 1]
    <3>1. k - 1 \in 0 .. n
      OBVIOUS
    <3> QED
      BY <1>9, <3>1
  <2>5. off[k] = o + (m + 2) /\ \A i \in 1 .. m + 2 : r[o + i] = seqs[k][i]
    BY <1>9, <2>3, <2>4
  <2>6. r[o + 1] = Heading(db[k]) /\ r[o + (m + 2)] = Blank
    BY <2>3, <2>5
  <2>7. ASSUME NEW j \in 1 .. m PROVE r[(o + 1) + j] = FieldLine(db[k].fields[j])
    <3>1. 1 + j \in 1 .. m + 2 /\ o + (1 + j) = (o + 1) + j
      OBVIOUS
    <3> QED
      BY <2>3, <2>5, <3>1
  <2>8. o + (m + 2) = (o + 1) + (m + 1)
    OBVIOUS
  <2> QED
    BY <2>1, <2>4, <2>5, <2>6, <2>7, <2>8
<1>12. \A j, k \in 0 .. n : j < k => off[j] < off[k]
  <2> SUFFICES ASSUME NEW j \in 0 .. n, NEW k \in 0 .. n, j < k PROVE off[j] < off[k]
    OBVIOUS
  <2>1. k \in 1 .. n /\ k - 1 \in 0 .. n /\ j <= k - 1
    OBVIOUS
  <2>2. off[j] <= off[k - 1] /\ off[j] \in Nat /\ off[k - 1] \in Nat
    BY <1>9, <2>1
  <2>3. off[k] = (off[k - 1] + 1) + (Len(db[k].fields) + 1) /\ Len(db[k].fields) \in Nat
    BY <1>4, <1>11, <2>1
  <2> QED
    BY <2>2, <2>3
<1>13. FileIs(db, n, off, r)
  BY <1>4, <1>7, <1>9, <1>11, <1>12, Zenon DEF FileIs
<1> QED
  BY <1>10, <1>13

(* The line a section starts with is one more than those of the sections before it. *)
LEMMA StartsAre ==
  ASSUME NEW db, NEW n \in Nat, NEW off, NEW r, FileIs(db, n, off, r),
         \A k \in 1 .. n : db[k] \in IniSections
  PROVE  SectionStarts(r) = {off[k - 1] + 1 : k \in 1 .. n}
<1>1. /\ off[0] = 0 /\ (\A k \in 0 .. n : off[k] \in Nat) /\ Len(r) = off[n] /\ r \in Seq(IniLines)
      /\ \A k \in 1 .. n : Len(db[k].fields) \in Nat /\ off[k] = (off[k - 1] + 1) + (Len(db[k].fields) + 1)
      /\ \A j, k \in 0 .. n : j < k => off[j] < off[k]
      /\ \A k \in 1 .. n :
           /\ r[off[k - 1] + 1] = Heading(db[k]) /\ r[off[k]] = Blank
           /\ \A j \in 1 .. Len(db[k].fields) : r[(off[k - 1] + 1) + j] = FieldLine(db[k].fields[j])
  BY Zenon DEF FileIs
<1>2. DOMAIN r = 1 .. off[n]
  BY <1>1, LenProperties
<1>3. ASSUME NEW k \in 1 .. n
      PROVE  off[k - 1] + 1 \in SectionStarts(r)
  <2>1. k - 1 \in 0 .. n /\ k \in 0 .. n /\ n \in 0 .. n
    OBVIOUS
  <2>2. off[k - 1] \in Nat /\ off[n] \in Nat /\ off[k - 1] < off[n]
    BY <1>1, <2>1
  <2>3. off[k - 1] + 1 \in DOMAIN r
    BY <1>2, <2>2
  <2>4. r[off[k - 1] + 1].is = "section"
    <3>1. r[off[k - 1] + 1] = Heading(db[k])
      BY <1>1
    <3> QED
      BY <3>1 DEF Heading
  <2> QED
    BY <2>3, <2>4 DEF SectionStarts
<1>4. ASSUME NEW x \in SectionStarts(r)
      PROVE  \E k \in 1 .. n : x = off[k - 1] + 1
  <2>1. x \in 1 .. off[n] /\ r[x].is = "section"
    BY <1>2 DEF SectionStarts
  <2>2. off[n] \in Nat /\ x \in Nat /\ n \in 0 .. n
    BY <1>1, <2>1
  <2>3. PICK T : T = {k \in Nat : k <= n /\ x <= off[k]}
    OBVIOUS
  <2>4. n \in T /\ T \subseteq Nat
    BY <2>1, <2>2, <2>3
  <2>5. PICK k \in T : \A j \in T : k <= j
    BY <2>4, LeastNumber
  <2>6. k \in Nat /\ k <= n /\ x <= off[k]
    BY <2>3
  <2>7. k # 0
    BY <1>1, <2>1, <2>6
  <2>8. k \in 1 .. n /\ k - 1 \in 0 .. n /\ k - 1 \in Nat /\ k - 1 <= n /\ ~(k <= k - 1)
    BY <2>6, <2>7
  <2>9. PICK o \in Nat : o = off[k - 1]
    BY <1>1, <2>8
  <2>10. o < x
    BY <2>2, <2>3, <2>5, <2>8, <2>9
  <2>11. PICK m \in Nat : m = Len(db[k].fields) /\ off[k] = (o + 1) + (m + 1)
    BY <1>1, <2>8, <2>9
  <2>12. CASE x = o + 1
    BY <2>8, <2>9, <2>12
  <2>13. CASE x = off[k]
    <3>1. r[x] = Blank
      BY <1>1, <2>8, <2>13
    <3>2. r[x].is = "blank"
      BY <3>1 DEF Blank
    <3> QED
      BY <2>1, <3>2
  <2>14. CASE x # o + 1 /\ x # off[k]
    <3>1. PICK j \in 1 .. m : x = (o + 1) + j
      <4>1. x - (o + 1) \in 1 .. m /\ x = (o + 1) + (x - (o + 1))
        <5>1. x \in Nat /\ x <= (o + 1) + (m + 1) /\ x # (o + 1) + (m + 1) /\ o < x /\ x # o + 1
          BY <2>2, <2>6, <2>10, <2>11, <2>14
        <5> QED
          BY <5>1
      <4> QED
        BY <4>1
    <3>2. r[x] = FieldLine(db[k].fields[j])
      BY <1>1, <2>8, <2>9, <2>11, <3>1
    <3>3. db[k].fields[j] \in IniFields
      <4>1. db[k].fields \in Seq(IniFields)
        BY <2>8 DEF IniSections
      <4> QED
        BY <2>11, <4>1, ElementOfSeq
    <3> QED
      BY <2>1, <3>2, <3>3, FieldLineIs
  <2> QED
    BY <2>12, <2>13, <2>14
<1> QED
  BY <1>3, <1>4

LEMMA StartsCount ==
  ASSUME NEW n \in Nat, NEW off, \A k \in 0 .. n : off[k] \in Nat,
         \A j, k \in 0 .. n : j < k => off[j] < off[k], NEW k \in 0 .. n
  PROVE  Cardinality({off[i - 1] + 1 : i \in 1 .. k}) = k
<1>1. PICK S : S = {off[i - 1] + 1 : i \in 1 .. k}
  OBVIOUS
<1>2. PICK f : f = [i \in 1 .. k |-> off[i - 1] + 1]
  OBVIOUS
<1>3. \A i, j \in 1 .. k : f[i] = f[j] => i = j
  <2> SUFFICES ASSUME NEW i \in 1 .. k, NEW j \in 1 .. k, f[i] = f[j] PROVE i = j
    OBVIOUS
  <2>1. i - 1 \in 0 .. n /\ j - 1 \in 0 .. n
    OBVIOUS
  <2>2. off[i - 1] \in Nat /\ off[j - 1] \in Nat /\ off[i - 1] + 1 = off[j - 1] + 1
    BY <1>2, <2>1
  <2>3. ~(i - 1 < j - 1) /\ ~(j - 1 < i - 1)
    BY <2>1, <2>2
  <2> QED
    BY <2>3
<1>4. f \in Bijection(1 .. k, S)
  <2>1. f \in [1 .. k -> S] /\ DOMAIN f = 1 .. k
    BY <1>1, <1>2
  <2>2. \A t \in S : \E i \in 1 .. k : f[i] = t
    BY <1>1, <1>2
  <2>3. IsInjective(f)
    BY <1>3, <2>1 DEF IsInjective
  <2> QED
    BY <2>1, <2>2, <2>3 DEF Bijection, Injection, Surjection
<1>5. ExistsBijection(1 .. k, S) /\ k \in Nat
  BY <1>4 DEF ExistsBijection
<1> QED
  BY <1>1, <1>5, FS_CountingElements

(* Reading the lines of the fields, and the blank one, gives the fields that are kept. *)
FieldKept(p, q, fields, f) == KeptField(fields, f)
NoFields(p, q) == <<>>
AnyFields(p, q, k, x) == TRUE
Keeping == INSTANCE SequenceFacts WITH FoldOp <- FieldKept, FoldBase <- NoFields, FoldInv <- AnyFields

LEMMA ImportedField ==
  ASSUME NEW f \in IniFields, NEW fields \in Seq(IniFields)
  PROVE  /\ ImportField(FieldLine(f)) \in Seq(IniFields)
         /\ fields \o ImportField(FieldLine(f)) = KeptField(fields, f)
<1>1. f = [name |-> f.name, value |-> f.value] /\ f.name \in FieldNames /\ f.value \in IniValues
  BY DEF IniFields
<1>2. CASE f.value = NullText
  <2>1. FieldLine(f) = [is |-> "name", name |-> f.name]
    BY <1>2 DEF FieldLine
  <2>2. ImportField(FieldLine(f)) = <<>>
    BY <2>1 DEF ImportField
  <2>3. KeptField(fields, f) = fields
    BY <1>2 DEF KeptField
  <2> QED
    BY <2>2, <2>3
<1>3. CASE f.value # NullText
  <2>1. PICK v : v = IF f.value = EmptyText THEN NullText ELSE f.value
    OBVIOUS
  <2>2. PICK g : g = [name |-> f.name, value |-> v]
    OBVIOUS
  <2>3. v \in IniValues
    BY <1>1, <2>1, IniAssumption
  <2>4. g \in IniFields
    BY <1>1, <2>2, <2>3 DEF IniFields
  <2>5. FieldLine(f) = [is |-> "value", name |-> f.name, value |-> f.value]
    BY <1>3 DEF FieldLine
  <2>6. PICK line : line = FieldLine(f)
    OBVIOUS
  <2>7. line.is = "value" /\ line.name = f.name /\ line.value = f.value
    BY <2>5, <2>6
  <2>8. ImportField(line) = <<g>>
    BY <2>1, <2>2, <2>7 DEF ImportField
  <2>9. [f EXCEPT !.value = v] = g
    BY <1>1, <2>2
  <2>10. KeptField(fields, f) = Append(fields, g)
    BY <1>3, <2>1, <2>9, Zenon DEF KeptField
  <2>11. Append(fields, g) = fields \o <<g>> /\ <<g>> \in Seq(IniFields)
    BY <2>4, AppendIsConcat
  <2> QED
    BY <2>6, <2>8, <2>10, <2>11
<1> QED
  BY <1>2, <1>3

LEMMA FieldsRead ==
  ASSUME NEW fs \in Seq(IniFields), NEW m \in Nat, m = Len(fs),
         NEW seqs, seqs = [j \in 1 .. m + 1 |-> seqs[j]],
         \A j \in 1 .. m : seqs[j] = ImportField(FieldLine(fs[j])),
         seqs[m + 1] = ImportField(Blank)
  PROVE  FlattenSeq(seqs) = FoldLeft(KeptField, <<>>, fs)
<1>1. DOMAIN fs = 1 .. m /\ \A j \in 1 .. m : fs[j] \in IniFields
  BY LenProperties, ElementOfSeq
<1>2. <<>> \in Seq(IniFields)
  OBVIOUS
<1>3. ImportField(Blank) = <<>>
  BY DEF ImportField, Blank
<1>4. \A j \in 1 .. m : seqs[j] \in Seq(IniFields)
  BY <1>1, <1>2, ImportedField
<1>5. PICK l \in Nat : l = m + 1 /\ m \in 0 .. l /\ l \in 1 .. l /\ l - 1 = m /\ 1 .. m \subseteq 1 .. l
  OBVIOUS
<1>6. \A j \in 1 .. l : seqs[j] \in Seq(IniFields)
  <2>1. \A j \in 1 .. l : j \in 1 .. m \/ j = m + 1
    BY <1>5
  <2> QED
    BY <1>2, <1>3, <1>4, <2>1
<1>7. seqs = [j \in 1 .. l |-> seqs[j]]
  BY <1>5
<1>8. PICK a : Flattening(IniFields, seqs, l, a)
  BY <1>6, <1>7, FlattenIs
<1>9. /\ a[0] = <<>> /\ FlattenSeq(seqs) = a[l]
      /\ \A k \in 0 .. l : a[k] \in Seq(IniFields)
      /\ \A k \in 1 .. l : a[k] = a[k - 1] \o seqs[k]
  BY <1>8, Zenon DEF Flattening
<1>10. ASSUME NEW k \in 1 .. m
       PROVE  a[k] = FieldKept(fs, 0, a[k - 1], fs[k])
  <2>1. k \in 1 .. l /\ k - 1 \in 0 .. l
    BY <1>5
  <2>2. PICK x \in Seq(IniFields) : x = a[k - 1]
    BY <1>9, <2>1
  <2>3. PICK f \in IniFields : f = fs[k]
    BY <1>1
  <2>4. a[k] = x \o ImportField(FieldLine(f))
    BY <1>9, <2>1, <2>2, <2>3
  <2>5. x \o ImportField(FieldLine(f)) = KeptField(x, f)
    BY ImportedField
  <2> QED
    BY <2>2, <2>3, <2>4, <2>5 DEF FieldKept
<1>11. a[0] = NoFields(fs, 0)
  BY <1>9 DEF NoFields
<1>12. Keeping!Fold(fs, 0, fs) = a[m]
  BY <1>1, <1>10, <1>11, Keeping!FoldEnds
<1>13. FoldLeft(KeptField, <<>>, fs) = Keeping!Fold(fs, 0, fs)
  BY Zenon DEF Keeping!Fold, Keeping!FoldLeft, FoldLeft, Keeping!MapThenFoldSet, MapThenFoldSet,
               Keeping!Max, Max, FieldKept, NoFields
<1>14. a[l] = a[m]
  <2>1. a[l] = a[m] \o <<>> /\ a[m] \in Seq(IniFields)
    BY <1>3, <1>5, <1>9
  <2> QED
    BY <2>1
<1> QED
  BY <1>9, <1>12, <1>13, <1>14

(* A section is read from where it starts as it was saved. *)
LEMMA SectionRead ==
  ASSUME NEW db \in Seq(IniSections), NEW n \in Nat, n = Len(db), NEW off, NEW r, FileIs(db, n, off, r),
         NEW k \in 1 .. n
  PROVE  ImportSection(r, off[k - 1] + 1) = Read(db[k])
<1>1. \A j \in 1 .. n : db[j] \in IniSections
  BY ElementOfSeq
<1>2. /\ off[0] = 0 /\ (\A j \in 0 .. n : off[j] \in Nat) /\ Len(r) = off[n]
      /\ \A j \in 1 .. n : Len(db[j].fields) \in Nat /\ off[j] = (off[j - 1] + 1) + (Len(db[j].fields) + 1)
      /\ \A i, j \in 0 .. n : i < j => off[i] < off[j]
      /\ \A i \in 1 .. n :
           /\ r[off[i - 1] + 1] = Heading(db[i]) /\ r[off[i]] = Blank
           /\ \A j \in 1 .. Len(db[i].fields) : r[(off[i - 1] + 1) + j] = FieldLine(db[i].fields[j])
  BY Zenon DEF FileIs
<1>3. SectionStarts(r) = {off[j - 1] + 1 : j \in 1 .. n}
  BY <1>1, StartsAre
<1>4. k - 1 \in 0 .. n /\ k \in 0 .. n /\ n \in 0 .. n
  OBVIOUS
<1>5. PICK i \in Nat : i = off[k - 1] + 1
  BY <1>2, <1>4
<1>6. PICK m \in Nat : m = Len(db[k].fields) /\ off[k] = i + (m + 1)
  BY <1>2, <1>5
<1>7. PICK fs \in Seq(IniFields) : fs = db[k].fields
  BY <1>1 DEF IniSections
<1>8. PICK rest : rest = {j \in SectionStarts(r) : j > i}
  OBVIOUS
<1>8a. PICK least : least = CHOOSE j \in rest : \A x \in rest : j <= x
  BY Zenon
<1>9. PICK last : last = IF rest = {} THEN Len(r) ELSE least - 1
  BY Zenon
<1>10. last = i + (m + 1)
  <2>1. CASE k = n
    <3>1. ASSUME NEW x \in rest PROVE FALSE
      <4>1. PICK j \in 1 .. n : x = off[j - 1] + 1 /\ x > i
        BY <1>3, <1>8
      <4>2. j - 1 \in 0 .. n /\ (j - 1 < k - 1 \/ j = k)
        BY <2>1
      <4>3. off[j - 1] \in Nat /\ off[k - 1] \in Nat /\ (off[j - 1] < off[k - 1] \/ j = k)
        BY <1>2, <1>4, <4>2
      <4> QED
        BY <1>5, <4>1, <4>3
    <3>2. rest = {}
      BY <3>1
    <3> QED
      BY <1>2, <1>6, <1>9, <2>1, <3>2
  <2>2. CASE k # n
    <3>1. k + 1 \in 1 .. n /\ (k + 1) - 1 = k
      BY <2>2
    <3>2. PICK y \in Nat : y = off[k] + 1
      BY <1>2, <1>4
    <3>3. y \in rest
      <4>1. y \in SectionStarts(r)
        BY <1>3, <3>1, <3>2
      <4>2. y > i
        BY <1>6, <3>2
      <4> QED
        BY <1>8, <4>1, <4>2
    <3>4. ASSUME NEW x \in rest PROVE y <= x /\ x \in Nat
      <4>1. PICK j \in 1 .. n : x = off[j - 1] + 1 /\ x > i
        BY <1>3, <1>8
      <4>2. j - 1 \in 0 .. n /\ off[j - 1] \in Nat /\ off[k] \in Nat /\ off[k - 1] \in Nat
        <5>1. \A h \in 0 .. n : off[h] \in Nat
          BY <1>2
        <5>2. j - 1 \in 0 .. n
          OBVIOUS
        <5> QED
          BY <1>4, <5>1, <5>2
      <4>3. ~(j - 1 < k - 1) /\ j - 1 # k - 1
        <5>1. PICK a \in 0 .. n : a = j - 1
          BY <4>2
        <5>2. PICK b \in 0 .. n : b = k - 1
          BY <1>4
        <5>3. PICK f \in Nat : f = off[a]
          BY <1>2
        <5>4. PICK g \in Nat : g = off[b]
          BY <1>2
        <5>5. x = f + 1 /\ x > i
          BY <4>1, <5>1, <5>3
        <5>6. i = g + 1
          BY <1>5, <5>2, <5>4
        <5>7. f > g
          BY <5>5, <5>6
        <5>8. a < b => f < g
          BY <1>2, <5>3, <5>4
        <5>9. a # b
          BY <5>3, <5>4, <5>7
        <5>10. ~(a < b)
          BY <5>7, <5>8
        <5> QED
          BY <5>1, <5>2, <5>9, <5>10
      <4>4. k < j - 1 \/ k = j - 1
        BY <4>1, <4>3
      <4>5. off[k] <= off[j - 1]
        BY <1>2, <1>4, <4>2, <4>4
      <4> QED
        BY <3>2, <4>1, <4>2, <4>5
    <3>5. \A x \in rest : y <= x
      BY <3>4
    <3>6. least \in rest /\ \A x \in rest : least <= x
      BY <1>8a, <3>3, <3>5, Zenon
    <3>7. least = y
      BY <3>3, <3>4, <3>6
    <3>8. last = y - 1
      BY <1>9, <3>3, <3>7
    <3> QED
      BY <1>6, <3>2, <3>8
  <2> QED
    BY <2>1, <2>2
<1>11. last - i = m + 1
  BY <1>10
<1>12. PICK seqs : seqs = [j \in 1 .. m + 1 |-> ImportField(r[i + j])]
  OBVIOUS
<1>13. ImportSection(r, i) = [name |-> r[i].name, fields |-> FlattenSeq(seqs)]
  BY <1>8, <1>8a, <1>9, <1>11, <1>12, Zenon DEF ImportSection
<1>14. /\ seqs = [j \in 1 .. m + 1 |-> seqs[j]]
       /\ \A j \in 1 .. m : seqs[j] = ImportField(FieldLine(fs[j]))
       /\ seqs[m + 1] = ImportField(Blank)
  <2>1. \A j \in 1 .. m : j \in 1 .. m + 1 /\ r[i + j] = FieldLine(fs[j])
    BY <1>2, <1>5, <1>6, <1>7
  <2>2. m + 1 \in 1 .. m + 1 /\ r[i + (m + 1)] = Blank
    BY <1>2, <1>6
  <2> QED
    BY <1>12, <2>1, <2>2
<1>15. FlattenSeq(seqs) = FoldLeft(KeptField, <<>>, fs)
  BY <1>6, <1>7, <1>14, FieldsRead
<1>16. r[i].name = db[k].name
  <2>1. r[i] = Heading(db[k])
    BY <1>2, <1>5
  <2> QED
    BY <2>1 DEF Heading
<1> QED
  BY <1>5, <1>7, <1>13, <1>15, <1>16, Zenon DEF Read

(* For any sections. *)
LEMMA FileRead ==
  ASSUME NEW db \in Seq(IniSections)
  PROVE  LET file == FileLines(db)
             starts == SectionStarts(file)
         IN /\ Cardinality(starts) = Len(db)
            /\ \A i \in starts : ImportSection(file, i) = Read(db[Cardinality({j \in starts : j <= i})])
<1>1. PICK n \in Nat : n = Len(db)
  BY LenProperties
<1>2. PICK r : r = FileLines(db)
  OBVIOUS
<1>3. PICK off : FileIs(db, n, off, r)
  BY <1>1, <1>2, FileLinesIs
<1>4. \A k \in 1 .. n : db[k] \in IniSections
  BY <1>1, ElementOfSeq
<1>5. PICK starts : starts = SectionStarts(r)
  OBVIOUS
<1>6. starts = {off[i - 1] + 1 : i \in 1 .. n}
  BY <1>3, <1>4, <1>5, StartsAre
<1>7. (\A k \in 0 .. n : off[k] \in Nat) /\ \A j, k \in 0 .. n : j < k => off[j] < off[k]
  BY <1>3, Zenon DEF FileIs
<1>8. Cardinality(starts) = n
  <2>1. PICK k \in 0 .. n : k = n
    OBVIOUS
  <2>2. Cardinality({off[i - 1] + 1 : i \in 1 .. k}) = k
    BY <1>7, StartsCount
  <2> QED
    BY <1>6, <2>1, <2>2
<1>9. ASSUME NEW i \in starts
      PROVE  ImportSection(r, i) = Read(db[Cardinality({j \in starts : j <= i})])
  <2>1. PICK k \in 1 .. n : i = off[k - 1] + 1
    BY <1>6
  <2>2. {j \in starts : j <= i} = {off[j - 1] + 1 : j \in 1 .. k}
    <3>1. ASSUME NEW j \in 1 .. n PROVE off[j - 1] + 1 <= i <=> j <= k
      <4>1. j - 1 \in 0 .. n /\ k - 1 \in 0 .. n
        OBVIOUS
      <4>2. off[j - 1] \in Nat /\ off[k - 1] \in Nat
        BY <1>7, <4>1
      <4>3. j - 1 < k - 1 \/ j = k \/ k - 1 < j - 1
        OBVIOUS
      <4>4. CASE j - 1 < k - 1
        <5>1. off[j - 1] < off[k - 1]
          BY <1>7, <4>1, <4>4
        <5> QED
          BY <2>1, <4>2, <4>4, <5>1
      <4>5. CASE j = k
        BY <2>1, <4>2, <4>5
      <4>6. CASE k - 1 < j - 1
        <5>1. off[k - 1] < off[j - 1]
          BY <1>7, <4>1, <4>6
        <5> QED
          BY <2>1, <4>2, <4>6, <5>1
      <4> QED
        BY <4>3, <4>4, <4>5, <4>6
    <3>2. \A j : j \in 1 .. k <=> j \in 1 .. n /\ j <= k
      OBVIOUS
    <3> QED
      BY <1>6, <3>1, <3>2
  <2>3. k \in 0 .. n
    OBVIOUS
  <2>4. Cardinality({off[j - 1] + 1 : j \in 1 .. k}) = k
    BY <1>7, <2>3, StartsCount
  <2>5. ImportSection(r, i) = Read(db[k])
    BY <1>1, <1>3, <2>1, SectionRead
  <2> QED
    BY <2>2, <2>4, <2>5
<1> QED
  BY <1>1, <1>2, <1>5, <1>8, <1>9


(* The first of a name, 0 if there is none. *)
LEMMA FindIs ==
  ASSUME NEW seq, NEW n \in Nat, n = Len(seq), NEW name
  PROVE  /\ Find(seq, name) \in 0 .. n
         /\ Find(seq, name) = 0 => \A i \in 1 .. n : seq[i].name # name
         /\ Find(seq, name) # 0 => seq[Find(seq, name)].name = name
<1> DEFINE I == {i \in 1 .. Len(seq) : seq[i].name = name}
<1>1. I = {i \in 1 .. n : seq[i].name = name}
  OBVIOUS
<1>2. Find(seq, name) = IF I # {} THEN CHOOSE x \in I : \A y \in I : x <= y ELSE 0
  BY Zenon DEF Find, SelectInSeq, Min
<1> HIDE DEF I
<1>3. CASE I = {}
  BY <1>1, <1>2, <1>3
<1>4. CASE I # {}
  <2>1. PICK m \in I : \A y \in I : m <= y
    <3>1. I \subseteq Nat
      BY <1>1
    <3> QED
      BY <1>4, <3>1, LeastNumber
  <2>2. PICK c : c = CHOOSE x \in I : \A y \in I : x <= y
    BY Zenon
  <2>3. c \in I
    BY <2>1, <2>2, Zenon
  <2>4. Find(seq, name) = c
    BY <1>2, <1>4, <2>2, Zenon
  <2>5. c \in 1 .. n /\ c # 0 /\ seq[c].name = name
    BY <1>1, <2>3
  <2> QED
    BY <2>4, <2>5
<1> QED
  BY <1>3, <1>4

(***************************************************************************)
(* What holds of the sections and of the threads in set(): they are in one    *)
(* that there is, and unless two were in it at a time what they are about to   *)
(* add is not there yet.                                                      *)
(***************************************************************************)
Setters ==
  [at : {"section", "field", "add"}, name : SectionNames, sec : Nat, field : FieldNames, value : IniValues]
Lacks(seq, name) == \A i \in DOMAIN seq : seq[i].name # name
InSection(db, s) ==
  /\ s = Resting \/ s \in Setters
  /\ s.at \in {"field", "add"} => s.sec \in DOMAIN db
Alone(who) == \A t, u \in IniUsers : who[t].at # "idle" /\ who[u].at # "idle" => t = u
OneOfAName(db) == Unique(db) /\ \A i \in DOMAIN db : Unique(db[i].fields)
StillLacks(db, s) ==
  /\ s.at = "section" => Lacks(db, s.name)
  /\ s.at = "add" => Lacks(db[s.sec].fields, s.field)
IniInv ==
  /\ sections \in Seq(IniSections)
  /\ setter = [t \in IniUsers |-> setter[t]]
  /\ \A t \in IniUsers : InSection(sections, setter[t])
  /\ ~iniOdd => /\ Alone(setter) /\ OneOfAName(sections)
                /\ \A t \in IniUsers : StillLacks(sections, setter[t])

LEMMA IniInvGives == IniInv => IniRight
<1> SUFFICES ASSUME IniInv PROVE IniRight
  OBVIOUS
<1>1. sections \in Seq(IniSections) /\ (~iniOdd => OneOfAName(sections))
  BY DEF IniInv
<1>2. LET file == FileLines(sections)
          starts == SectionStarts(file)
      IN /\ Cardinality(starts) = Len(sections)
         /\ \A i \in starts :
              ImportSection(file, i) = Read(sections[Cardinality({j \in starts : j <= i})])
  BY <1>1, FileRead
<1> QED
  BY <1>1, <1>2, Zenon DEF IniRight, OneOfAName

LEMMA IniInvInit == IniInit => IniInv
<1> SUFFICES ASSUME IniInit PROVE IniInv
  OBVIOUS
<1>1. /\ sections = <<>> /\ setter = [t \in IniUsers |-> Resting]
  BY DEF IniInit
<1>2. <<>> \in Seq(IniSections) /\ DOMAIN sections = {}
  <2>1. Len(<<>>) = 0 /\ DOMAIN <<>> = 1 .. 0
    OBVIOUS
  <2> QED
    BY <1>1, <2>1
<1>3. ASSUME NEW t \in IniUsers PROVE setter[t] = Resting /\ setter[t].at = "idle"
  BY <1>1 DEF Resting
<1>4. setter = [t \in IniUsers |-> setter[t]]
  BY <1>1
<1>5. Alone(setter)
  BY <1>3 DEF Alone
<1>6. OneOfAName(sections)
  BY <1>2 DEF OneOfAName, Unique
<1>7. \A t \in IniUsers : StillLacks(sections, setter[t])
  BY <1>3 DEF StillLacks
<1>8. \A t \in IniUsers : InSection(sections, setter[t])
  BY <1>3 DEF InSection
<1> QED
  BY <1>1, <1>2, <1>4, <1>5, <1>6, <1>7, <1>8 DEF IniInv


(* A thread does a step. *)
LEMMA IniInvOneStep ==
  ASSUME IniInv, NEW t \in IniUsers, NEW db \in Seq(IniSections), NEW r,
         setter' = [setter EXCEPT ![t] = r], sections' = db, iniOdd => iniOdd',
         InSection(db, r), DOMAIN sections \subseteq DOMAIN db,
         ~iniOdd' => /\ OneOfAName(db) /\ StillLacks(db, r)
                     /\ \A u \in IniUsers : u # t => setter[u].at = "idle"
  PROVE  IniInv'
<1>1. /\ setter = [u \in IniUsers |-> setter[u]]
      /\ \A u \in IniUsers : InSection(sections, setter[u])
  BY DEF IniInv
<1>2. PICK who : who = setter'
  OBVIOUS
<1>3. /\ who = [u \in IniUsers |-> who[u]] /\ who[t] = r
      /\ \A u \in IniUsers : u # t => who[u] = setter[u]
  BY <1>1, <1>2
<1>4. ASSUME NEW u \in IniUsers PROVE InSection(db, who[u])
  <2>1. CASE u = t
    BY <1>3, <2>1
  <2>2. CASE u # t
    <3>1. InSection(sections, setter[u]) /\ who[u] = setter[u]
      BY <1>1, <1>3, <2>2
    <3> QED
      BY <3>1 DEF InSection
  <2> QED
    BY <2>1, <2>2
<1>5. ASSUME ~iniOdd'
      PROVE  /\ Alone(who) /\ OneOfAName(db)
             /\ \A u \in IniUsers : StillLacks(db, who[u])
  <2>1. \A u \in IniUsers : u # t => who[u].at = "idle"
    BY <1>3, <1>5
  <2>2. Alone(who)
    BY <2>1 DEF Alone
  <2>3. \A u \in IniUsers : u # t => StillLacks(db, who[u])
    BY <2>1 DEF StillLacks
  <2>4. StillLacks(db, who[t])
    BY <1>3, <1>5
  <2> QED
    BY <1>5, <2>2, <2>3, <2>4
<1>6. sections' = db /\ setter' = who
  BY <1>2
<1> QED
  BY <1>3, <1>4, <1>5, <1>6, Zenon DEF IniInv

(* One more of a name that there is not yet. *)
LEMMA UniqueAppended ==
  ASSUME NEW S, NEW seq \in Seq(S), NEW e \in S, Unique(seq), Lacks(seq, e.name)
  PROVE  Unique(Append(seq, e))
<1>1. PICK n \in Nat : n = Len(seq) /\ DOMAIN seq = 1 .. n
  BY LenProperties
<1>2. PICK new : new = Append(seq, e)
  OBVIOUS
<1>3. /\ new \in Seq(S) /\ Len(new) = n + 1 /\ new[n + 1] = e
      /\ \A i \in 1 .. n : new[i] = seq[i]
  BY <1>1, <1>2, AppendProperties
<1>4. DOMAIN new = 1 .. n + 1
  BY <1>3, LenProperties
<1>5. ASSUME NEW i \in 1 .. n + 1, NEW j \in 1 .. n + 1, new[i].name = new[j].name
      PROVE  i = j
  <2>1. \A k \in 1 .. n : seq[k].name # e.name
    BY <1>1 DEF Lacks
  <2>2. \A k \in 1 .. n + 1 : k = n + 1 \/ k \in 1 .. n
    OBVIOUS
  <2>3. CASE i \in 1 .. n /\ j \in 1 .. n
    BY <1>1, <1>3, <1>5, <2>3 DEF Unique
  <2>4. CASE i = n + 1 \/ j = n + 1
    BY <1>3, <1>5, <2>1, <2>2, <2>4
  <2> QED
    BY <2>2, <2>3, <2>4
<1> QED
  BY <1>2, <1>4, <1>5 DEF Unique

(* Other fields in a section. *)
LEMMA FieldsReplaced ==
  ASSUME NEW db \in Seq(IniSections), NEW s \in DOMAIN db, NEW fs \in Seq(IniFields), NEW new,
         new = [i \in DOMAIN db |-> IF i = s THEN [db[i] EXCEPT !.fields = fs] ELSE db[i]]
  PROVE  /\ new \in Seq(IniSections) /\ DOMAIN new = DOMAIN db
         /\ OneOfAName(db) /\ Unique(fs) => OneOfAName(new)
<1>1. PICK n \in Nat : n = Len(db) /\ DOMAIN db = 1 .. n
  BY LenProperties
<1>2. \A i \in 1 .. n : db[i] \in IniSections
  BY <1>1, ElementOfSeq
<1>3. /\ DOMAIN new = 1 .. n
      /\ \A i \in 1 .. n : /\ new[i] \in IniSections /\ new[i].name = db[i].name
                           /\ new[i].fields = IF i = s THEN fs ELSE db[i].fields
  BY <1>1, <1>2 DEF IniSections
<1>4. new \in Seq(IniSections)
  <2>1. new = [i \in 1 .. n |-> new[i]]
    BY <1>1
  <2> QED
    BY <1>3, <2>1, IsASeq
<1>5. ASSUME OneOfAName(db), Unique(fs)
      PROVE  OneOfAName(new)
  <2>1. Unique(new)
    BY <1>1, <1>3, <1>5 DEF OneOfAName, Unique
  <2>2. ASSUME NEW i \in 1 .. n PROVE Unique(new[i].fields)
    <3>1. Unique(db[i].fields) /\ new[i].fields = IF i = s THEN fs ELSE db[i].fields
      BY <1>1, <1>3, <1>5 DEF OneOfAName
    <3> QED
      BY <1>5, <3>1
  <2> QED
    BY <1>3, <2>1, <2>2 DEF OneOfAName
<1> QED
  BY <1>1, <1>3, <1>4, <1>5


SetterAt(t, name) ==
  /\ setter = [u \in IniUsers |-> setter[u]] /\ setter[t] \in Setters
  /\ name \in {"field", "add"} => setter[t].sec \in DOMAIN sections
  /\ ~iniOdd => /\ \A u \in IniUsers : u # t => setter[u].at = "idle"
                /\ OneOfAName(sections) /\ StillLacks(sections, setter[t])

LEMMA AtWork ==
  ASSUME IniInv, NEW t \in IniUsers, NEW name \in {"section", "field", "add"}, setter[t].at = name
  PROVE  SetterAt(t, name)
<1>1. InSection(sections, setter[t]) /\ setter = [u \in IniUsers |-> setter[u]]
  BY DEF IniInv
<1>2. setter[t] # Resting
  BY DEF Resting
<1>3. setter[t] \in Setters /\ (name \in {"field", "add"} => setter[t].sec \in DOMAIN sections)
  BY <1>1, <1>2 DEF InSection
<1>4. ASSUME ~iniOdd
      PROVE  /\ \A u \in IniUsers : u # t => setter[u].at = "idle"
             /\ OneOfAName(sections) /\ StillLacks(sections, setter[t])
  <2>1. Alone(setter) /\ OneOfAName(sections) /\ StillLacks(sections, setter[t])
    BY <1>4 DEF IniInv
  <2> QED
    BY <2>1 DEF Alone
<1> QED
  BY <1>1, <1>3, <1>4, Zenon DEF SetterAt

LEMMA SetStep ==
  ASSUME IniInv, NEW t \in IniUsers, NEW name \in SectionNames, NEW field \in FieldNames,
         NEW value \in IniValues, Set(t, name, field, value)
  PROVE  IniInv'
<1>1. PICK s : s = Find(sections, name)
  OBVIOUS
<1>2. PICK r : r = [at |-> IF s = 0 THEN "section" ELSE "field",
                    name |-> name, sec |-> s, field |-> field, value |-> value]
  OBVIOUS
<1>3. /\ setter' = [setter EXCEPT ![t] = r] /\ sections' = sections
      /\ iniOdd' = (iniOdd \/ \E u \in IniUsers \ {t} : setter[u].at # "idle")
  BY <1>1, <1>2, Zenon DEF Set
<1>4. sections \in Seq(IniSections) /\ (~iniOdd => OneOfAName(sections))
  BY DEF IniInv
<1>5. PICK n \in Nat : n = Len(sections) /\ DOMAIN sections = 1 .. n
  BY <1>4, LenProperties
<1>6. s \in 0 .. n /\ (s = 0 => \A i \in 1 .. n : sections[i].name # name)
  BY <1>1, <1>5, FindIs
<1>7. InSection(sections, r)
  <2>1. r \in Setters
    BY <1>2, <1>6 DEF Setters
  <2>2. r.at = "field" => s # 0
    BY <1>2
  <2>3. r.at # "add" /\ r.sec = s
    BY <1>2
  <2> QED
    BY <1>5, <1>6, <2>1, <2>2, <2>3 DEF InSection
<1>8. StillLacks(sections, r)
  <2>1. r.at = "section" => s = 0
    BY <1>2
  <2>2. r.at # "add" /\ r.name = name
    BY <1>2
  <2> QED
    BY <1>5, <1>6, <2>1, <2>2 DEF StillLacks, Lacks
<1>9. ~iniOdd' => /\ OneOfAName(sections) /\ StillLacks(sections, r)
                  /\ \A u \in IniUsers : u # t => setter[u].at = "idle"
  BY <1>3, <1>4, <1>8
<1>10. iniOdd => iniOdd'
  BY <1>3
<1> QED
  BY <1>3, <1>4, <1>7, <1>9, <1>10, IniInvOneStep

LEMMA AddSectionStep ==
  ASSUME IniInv, NEW t \in IniUsers, AddSection(t)
  PROVE  IniInv'
<1>1. setter[t].at = "section"
  BY DEF AddSection
<1>2. SetterAt(t, "section") /\ sections \in Seq(IniSections)
  BY <1>1, AtWork DEF IniInv
<1>3. /\ setter = [u \in IniUsers |-> setter[u]] /\ setter[t] \in Setters
      /\ ~iniOdd => /\ \A u \in IniUsers : u # t => setter[u].at = "idle"
                    /\ OneOfAName(sections) /\ StillLacks(sections, setter[t])
  BY <1>2, Zenon DEF SetterAt
<1>4. PICK e : e = [name |-> setter[t].name, fields |-> <<>>]
  OBVIOUS
<1>5. e \in IniSections
  BY <1>3, <1>4 DEF Setters, IniSections
<1>6. PICK n \in Nat : n = Len(sections) /\ DOMAIN sections = 1 .. n
  BY <1>2, LenProperties
<1>7. PICK db \in Seq(IniSections) : db = Append(sections, e)
  <2>1. Append(sections, e) \in Seq(IniSections)
    BY <1>2, <1>5, AppendProperties
  <2> QED
    BY <2>1
<1>8. /\ Len(db) = n + 1 /\ db[n + 1] = e /\ \A i \in 1 .. n : db[i] = sections[i]
  BY <1>2, <1>5, <1>6, <1>7, AppendProperties
<1>9. DOMAIN db = 1 .. n + 1
  BY <1>8, LenProperties
<1>10. PICK r : r = [setter[t] EXCEPT !.at = "field", !.sec = n + 1]
  OBVIOUS
<1>11. sections' = db /\ iniOdd' = iniOdd
  BY <1>4, <1>7 DEF AddSection
<1>12. setter' = [setter EXCEPT ![t] = r]
  <2>1. setter' = [setter EXCEPT ![t].at = "field", ![t].sec = Len(sections')]
    BY Zenon DEF AddSection
  <2>2. Len(sections') = n + 1
    BY <1>8, <1>11
  <2> QED
    BY <1>3, <1>10, <2>1, <2>2
<1>13. r \in Setters /\ r.at = "field" /\ r.sec = n + 1
  <2>1. PICK q \in Setters : q = setter[t]
    BY <1>3
  <2>2. PICK m \in Nat : m = n + 1
    BY <1>6
  <2>3. r = [q EXCEPT !.at = "field", !.sec = m]
    BY <1>10, <2>1, <2>2
  <2>4. r = [at |-> "field", name |-> q.name, sec |-> m, field |-> q.field, value |-> q.value]
    BY <2>3 DEF Setters
  <2>5. q.name \in SectionNames /\ q.field \in FieldNames /\ q.value \in IniValues
    BY DEF Setters
  <2>6. r \in Setters
    BY <2>4, <2>5 DEF Setters
  <2> QED
    BY <2>2, <2>4, <2>6
<1>14. InSection(db, r)
  BY <1>6, <1>9, <1>13 DEF InSection
<1>15. ASSUME ~iniOdd
       PROVE  OneOfAName(db)
  <2>1. Lacks(sections, e.name)
    BY <1>1, <1>3, <1>4, <1>15 DEF StillLacks
  <2>2. OneOfAName(sections)
    BY <1>3, <1>15
  <2>3. Unique(db)
    BY <1>2, <1>5, <1>7, <2>1, <2>2, UniqueAppended DEF OneOfAName
  <2>4. ASSUME NEW i \in 1 .. n + 1 PROVE Unique(db[i].fields)
    <3>1. CASE i = n + 1
      <4>1. db[i].fields = <<>>
        BY <1>4, <1>8, <3>1
      <4> QED
        BY <4>1 DEF Unique
    <3>2. CASE i # n + 1
      <4>1. i \in 1 .. n
        BY <3>2
      <4> QED
        BY <1>6, <1>8, <2>2, <4>1 DEF OneOfAName
    <3> QED
      BY <3>1, <3>2
  <2> QED
    BY <1>9, <2>3, <2>4 DEF OneOfAName
<1>16. StillLacks(db, r)
  BY <1>13 DEF StillLacks
<1>17. DOMAIN sections \subseteq DOMAIN db
  BY <1>6, <1>9
<1> QED
  BY <1>3, <1>11, <1>12, <1>14, <1>15, <1>16, <1>17, IniInvOneStep

LEMMA SetFieldStep ==
  ASSUME IniInv, NEW t \in IniUsers, SetField(t)
  PROVE  IniInv'
<1>1. setter[t].at = "field"
  BY DEF SetField
<1>2. SetterAt(t, "field") /\ sections \in Seq(IniSections)
  BY <1>1, AtWork DEF IniInv
<1>3. /\ setter = [u \in IniUsers |-> setter[u]] /\ setter[t] \in Setters
      /\ setter[t].sec \in DOMAIN sections
      /\ ~iniOdd => /\ \A u \in IniUsers : u # t => setter[u].at = "idle"
                    /\ OneOfAName(sections) /\ StillLacks(sections, setter[t])
  BY <1>2, Zenon DEF SetterAt
<1>4. PICK s \in DOMAIN sections : s = setter[t].sec
  BY <1>3
<1>5. PICK fs : fs = sections[s].fields
  OBVIOUS
<1>6. fs \in Seq(IniFields) /\ sections[s] \in IniSections
  <2>1. sections[s] \in IniSections
    BY <1>2, LenProperties, ElementOfSeq
  <2> QED
    BY <1>5, <2>1 DEF IniSections
<1>7. PICK n \in Nat : n = Len(fs) /\ DOMAIN fs = 1 .. n
  BY <1>6, LenProperties
<1>8. PICK f : f = Find(fs, setter[t].field)
  OBVIOUS
<1>9. f \in 0 .. n /\ (f = 0 => \A i \in 1 .. n : fs[i].name # setter[t].field)
  BY <1>7, <1>8, FindIs
<1>10. /\ iniOdd' = iniOdd
       /\ IF f # 0
          THEN /\ sections' = [sections EXCEPT ![s].fields[f].value = setter[t].value]
               /\ setter' = [setter EXCEPT ![t] = Resting]
          ELSE setter' = [setter EXCEPT ![t].at = "add"] /\ sections' = sections
  BY <1>4, <1>5, <1>8, Zenon DEF SetField
<1>11. CASE f # 0
  <2>1. f \in 1 .. n
    BY <1>9, <1>11
  <2>2. \A i \in 1 .. n : fs[i] \in IniFields
    BY <1>6, <1>7, ElementOfSeq
  <2>3. PICK v \in IniValues : v = setter[t].value
    BY <1>3 DEF Setters
  <2>4. PICK new : new = [i \in 1 .. n |-> IF i = f THEN [fs[i] EXCEPT !.value = v] ELSE fs[i]]
    OBVIOUS
  <2>5. \A i \in 1 .. n : new[i] \in IniFields /\ new[i].name = fs[i].name
    BY <2>2, <2>4 DEF IniFields
  <2>6. new \in Seq(IniFields) /\ DOMAIN new = 1 .. n
    <3>1. new = [i \in 1 .. n |-> new[i]]
      BY <2>4
    <3> QED
      BY <2>5, <3>1, IsASeq
  <2>7. new = [fs EXCEPT ![f].value = v]
    BY <1>7, <2>1, <2>4
  <2>8. PICK db : db = [i \in DOMAIN sections |-> IF i = s THEN [sections[i] EXCEPT !.fields = new]
                                                  ELSE sections[i]]
    OBVIOUS
  <2>9. sections' = db
    <3>1. sections = [i \in DOMAIN sections |-> sections[i]]
      BY <1>2
    <3>2. sections' = [sections EXCEPT ![s].fields[f].value = v]
      BY <1>10, <1>11, <2>3
    <3> QED
      BY <1>5, <2>7, <2>8, <3>1, <3>2
  <2>10. /\ db \in Seq(IniSections) /\ DOMAIN db = DOMAIN sections
         /\ OneOfAName(sections) /\ Unique(new) => OneOfAName(db)
    BY <1>2, <2>6, <2>8, FieldsReplaced
  <2>11. Unique(fs) => Unique(new)
    BY <1>7, <2>5, <2>6 DEF Unique
  <2>12. OneOfAName(sections) => Unique(fs)
    BY <1>5 DEF OneOfAName
  <2>13. InSection(db, Resting) /\ StillLacks(db, Resting)
    BY DEF InSection, StillLacks, Resting
  <2>14. setter' = [setter EXCEPT ![t] = Resting]
    BY <1>10, <1>11
  <2> QED
    BY <1>3, <1>10, <2>9, <2>10, <2>11, <2>12, <2>13, <2>14, IniInvOneStep
<1>12. CASE f = 0
  <2>1. PICK r : r = [setter[t] EXCEPT !.at = "add"]
    OBVIOUS
  <2>2. r \in Setters /\ r.at = "add" /\ r.sec = s /\ r.field = setter[t].field
    BY <1>3, <1>4, <2>1 DEF Setters
  <2>3. setter' = [setter EXCEPT ![t] = r] /\ sections' = sections
    BY <1>3, <1>10, <1>12, <2>1
  <2>4. InSection(sections, r)
    BY <2>2 DEF InSection
  <2>5. StillLacks(sections, r)
    BY <1>5, <1>7, <1>9, <1>12, <2>2 DEF StillLacks, Lacks
  <2> QED
    BY <1>2, <1>3, <1>10, <2>3, <2>4, <2>5, IniInvOneStep
<1> QED
  BY <1>11, <1>12

LEMMA AddFieldStep ==
  ASSUME IniInv, NEW t \in IniUsers, AddField(t)
  PROVE  IniInv'
<1>1. setter[t].at = "add"
  BY DEF AddField
<1>2. SetterAt(t, "add") /\ sections \in Seq(IniSections)
  BY <1>1, AtWork DEF IniInv
<1>3. /\ setter = [u \in IniUsers |-> setter[u]] /\ setter[t] \in Setters
      /\ setter[t].sec \in DOMAIN sections
      /\ ~iniOdd => /\ \A u \in IniUsers : u # t => setter[u].at = "idle"
                    /\ OneOfAName(sections) /\ StillLacks(sections, setter[t])
  BY <1>2, Zenon DEF SetterAt
<1>4. PICK s \in DOMAIN sections : s = setter[t].sec
  BY <1>3
<1>5. PICK fs : fs = sections[s].fields
  OBVIOUS
<1>6. fs \in Seq(IniFields)
  <2>1. sections[s] \in IniSections
    BY <1>2, LenProperties, ElementOfSeq
  <2> QED
    BY <1>5, <2>1 DEF IniSections
<1>7. PICK e : e = [name |-> setter[t].field, value |-> setter[t].value]
  OBVIOUS
<1>8. e \in IniFields
  BY <1>3, <1>7 DEF Setters, IniFields
<1>9. PICK new \in Seq(IniFields) : new = Append(fs, e)
  <2>1. Append(fs, e) \in Seq(IniFields)
    BY <1>6, <1>8, AppendProperties
  <2> QED
    BY <2>1
<1>10. PICK db : db = [i \in DOMAIN sections |-> IF i = s THEN [sections[i] EXCEPT !.fields = new]
                                                 ELSE sections[i]]
  OBVIOUS
<1>11. /\ sections' = db /\ iniOdd' = iniOdd /\ setter' = [setter EXCEPT ![t] = Resting]
  <2>1. sections = [i \in DOMAIN sections |-> sections[i]]
    BY <1>2
  <2>2. sections' = [sections EXCEPT ![s].fields = Append(@, e)]
    BY <1>4, <1>7 DEF AddField
  <2>3. sections' = [sections EXCEPT ![s].fields = new]
    BY <1>5, <1>9, <2>2
  <2>4. sections' = db
    BY <1>10, <2>1, <2>3
  <2> QED
    BY <2>4 DEF AddField
<1>12. /\ db \in Seq(IniSections) /\ DOMAIN db = DOMAIN sections
       /\ OneOfAName(sections) /\ Unique(new) => OneOfAName(db)
  BY <1>2, <1>10, FieldsReplaced
<1>13. ASSUME ~iniOdd
       PROVE  OneOfAName(db)
  <2>1. OneOfAName(sections) /\ Lacks(fs, e.name)
    BY <1>1, <1>3, <1>4, <1>5, <1>7, <1>13 DEF StillLacks
  <2>2. Unique(fs)
    BY <1>5, <2>1 DEF OneOfAName
  <2>3. Unique(new)
    BY <1>6, <1>8, <1>9, <2>1, <2>2, UniqueAppended
  <2> QED
    BY <1>12, <2>1, <2>3
<1>14. InSection(db, Resting) /\ StillLacks(db, Resting)
  BY DEF InSection, StillLacks, Resting
<1> QED
  BY <1>3, <1>11, <1>12, <1>13, <1>14, IniInvOneStep

LEMMA IniInvStep ==
  ASSUME IniInv, [IniNext]_iniVars
  PROVE  IniInv'
<1>1. CASE UNCHANGED <<sections, setter, iniOdd>>
  <2>1. sections' = sections /\ setter' = setter /\ iniOdd' = iniOdd
    BY <1>1
  <2> QED
    BY <2>1 DEF IniInv
<1>2. CASE IniNext
  <2>1. ASSUME NEW t \in IniUsers, Hang(t) PROVE UNCHANGED <<sections, setter, iniOdd>>
    BY <2>1 DEF Hang
  <2>2. PICK t \in IniUsers :
          \/ \E name \in SectionNames, field \in FieldNames, value \in IniValues :
               Set(t, name, field, value)
          \/ Hang(t) \/ AddSection(t) \/ SetField(t) \/ AddField(t)
    BY <1>2, Zenon DEF IniNext, Get, RemoveField, Clear, Import
  <2> QED
    BY <1>1, <2>1, <2>2, SetStep, AddSectionStep, SetFieldStep, AddFieldStep
<1> QED
  BY <1>1, <1>2 DEF iniVars
===============================================================================
