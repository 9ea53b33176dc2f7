-------------------------------- MODULE DiskFiles --------------------------------
(***************************************************************************)
(* A file on disk as one DAR (dar.cpp) sees it: read, searched and written at a *)
(* position, with a length that is remembered once it was asked for.  Nobody   *)
(* else uses the file, and the system refuses only what it must.  Errno, the    *)
(* counters of calls, locks (not on Linux) and temporary names are left out.    *)
(***************************************************************************)
EXTENDS Integers, Sequences, SequencesExt

CONSTANTS
  FileBytes,
  StopSet,   \* what is searched for
  Zero,      \* 0: a byte that was skipped, and a member of every stop set
  EofByte,   \* (char)EOF
  Chunk,     \* 30 K: what is read in one go
  MaxFile    \* bound: length of the file

ASSUME FileAssumption ==
  /\ StopSet \subseteq FileBytes /\ {Zero, EofByte} \cap FileBytes = {}
  /\ Chunk \in Nat \ {0} /\ MaxFile \in Nat

VARIABLES
  stream,   \* [mode, pos, ended] of _stream, or NoStream
  disk,     \* the contents, or NoFile
  len,      \* _len
  answer,   \* what the last call has read: from where, what, and what it returned
  meant,    \* observer: the contents as they were written, or put back
  fileOdd   \* observer: readWhile() has put a byte back

fileVars == <<stream, disk, len, answer, meant, fileOdd>>

NoStream == [mode |-> "none"]
NoFile == <<"none">>
NoAnswer == [at |-> 0, bytes |-> <<>>, amt |-> 0, ok |-> FALSE]

FileInit ==
  /\ stream = NoStream /\ disk = NoFile /\ len = -1
  /\ answer = NoAnswer /\ meant = NoFile /\ fileOdd = FALSE

Lower(x, y) == IF x < y THEN x ELSE y
Higher(x, y) == IF x < y THEN y ELSE x
Writable == stream.mode # "rb"
Rest == SubSeq(disk, stream.pos + 1, Len(disk))

(* The contents after bytes were written at a position. *)
Overwritten(contents, at, bytes) ==
  [i \in 1 .. Higher(Len(contents), at + Len(bytes)) |->
     IF i \in at + 1 .. at + Len(bytes) THEN bytes[i - at]
     ELSE IF i <= Len(contents) THEN contents[i] ELSE Zero]

-------------------------------------------------------------------------------
(* open(), and create() with "w+b" *)
Open(mode) ==
  /\ IF mode # "w+b" /\ disk = NoFile
     THEN stream' = NoStream /\ UNCHANGED <<disk, meant, fileOdd>>
     ELSE /\ stream' = [mode |-> mode, pos |-> 0, ended |-> FALSE]
          /\ IF mode = "w+b"
             THEN disk' = <<>> /\ meant' = <<>> /\ fileOdd' = FALSE
             ELSE UNCHANGED <<disk, meant, fileOdd>>
  /\ len' = -1 /\ answer' = NoAnswer

CloseFile == stream' = NoStream /\ len' = -1 /\ answer' = NoAnswer /\ UNCHANGED <<disk, meant, fileOdd>>

(* unlink() *)
RemoveFile ==
  /\ stream' = NoStream /\ len' = -1 /\ answer' = NoAnswer
  /\ disk' = NoFile /\ meant' = NoFile /\ fileOdd' = FALSE

(* read() in chunks; of a chunk that is cut short nothing is counted. *)
ReadFile(n) ==
  LET got == IF stream.ended THEN 0 ELSE Lower(n, Len(Rest))
  IN /\ stream' = [stream EXCEPT !.pos = @ + got, !.ended = @ \/ got < n]
     /\ answer' = [at |-> stream.pos, bytes |-> SubSeq(Rest, 1, got), ok |-> got = n,
                   amt |-> IF got = n THEN n ELSE (got \div Chunk) * Chunk]
     /\ UNCHANGED <<disk, len, meant, fileOdd>>

Stops(byte) == byte \in StopSet \cup {Zero}

(* readUntil(), and with max = 0 ignoreUntil(): the end of the file is a byte, too. *)
ReadUntil(max) ==
  LET stop == SelectInSeq(Rest, Stops)
      read == IF stream.ended THEN <<>>
              ELSE IF stop = 0 THEN Rest \o <<EofByte>> ELSE SubSeq(Rest, 1, stop - 1)
  IN /\ stream' = IF stream.ended THEN stream
                  ELSE [stream EXCEPT !.pos = @ + IF stop = 0 THEN Len(Rest) ELSE stop,
                                      !.ended = stop = 0]
     /\ answer' = [at |-> stream.pos, bytes |-> SubSeq(read, 1, Lower(max, Len(read))), amt |-> 0,
                   ok |-> ~stream.ended /\ stop # 0]
     /\ UNCHANGED <<disk, len, meant, fileOdd>>

(* readWhile() puts the byte that ends it back with fputc(), that writes it behind
   where it was; at the end of the file that byte is EOF. *)
ReadWhile ==
  LET other == SelectInSeq(Rest, LAMBDA byte : ~Stops(byte))
      at == stream.pos + IF other = 0 THEN Len(Rest) ELSE other
      byte == IF other = 0 THEN EofByte ELSE Rest[other]
  IN /\ IF stream.ended
        THEN UNCHANGED <<stream, disk, fileOdd>>
        ELSE IF ~Writable
        THEN stream' = [stream EXCEPT !.pos = at, !.ended = other = 0] /\ UNCHANGED <<disk, fileOdd>>
        ELSE /\ disk' = Overwritten(disk, at, <<byte>>)
             /\ stream' = [stream EXCEPT !.pos = at + 1, !.ended = other = 0]
             /\ fileOdd' = TRUE
     /\ meant' = disk' /\ answer' = NoAnswer /\ UNCHANGED len

(* Mistake: the length that is remembered stays. *)
WriteKeepsLength(bytes) ==
  /\ IF Writable
     THEN /\ disk' = Overwritten(disk, stream.pos, bytes)
          /\ meant' = Overwritten(meant, stream.pos, bytes)
          /\ stream' = [stream EXCEPT !.pos = @ + Len(bytes)]
     ELSE UNCHANGED <<disk, meant, stream>>
  /\ answer' = NoAnswer /\ UNCHANGED <<len, fileOdd>>

(* write() *)
WriteFile(bytes) ==
  /\ IF Writable
     THEN /\ disk' = Overwritten(disk, stream.pos, bytes)
          /\ meant' = Overwritten(meant, stream.pos, bytes)
          /\ stream' = [stream EXCEPT !.pos = @ + Len(bytes)]
          /\ len' = IF len = -1 THEN -1 ELSE Higher(len, stream.pos + Len(bytes))
     ELSE UNCHANGED <<disk, meant, stream, len>>
  /\ answer' = NoAnswer /\ UNCHANGED fileOdd

(* seek(), of which -1 from the beginning is not allowed; rewind() *)
SeekFile(whence, offset) ==
  LET base == IF whence = "SEEK_SET" THEN 0 ELSE IF whence = "SEEK_CUR" THEN stream.pos ELSE Len(disk)
  IN /\ stream' = IF base + offset < 0 THEN stream
                  ELSE [stream EXCEPT !.pos = base + offset, !.ended = FALSE]
     /\ answer' = NoAnswer /\ UNCHANGED <<disk, len, meant, fileOdd>>

(* length() *)
LengthOfFile ==
  /\ IF len # -1 THEN UNCHANGED <<len, stream>>
     ELSE len' = Len(disk) /\ stream' = [stream EXCEPT !.ended = FALSE]
  /\ answer' = NoAnswer /\ UNCHANGED <<disk, meant, fileOdd>>

FileNext ==
  \/ \E mode \in {"rb", "r+b", "w+b"} : Open(mode)
  \/ /\ stream # NoStream
     /\ \/ CloseFile \/ RemoveFile \/ LengthOfFile
        \/ \E n \in 1 .. Chunk + 1 : ReadFile(n) \/ ReadUntil(n - 1)
        \/ Len(disk) < MaxFile /\ stream.pos < MaxFile /\ ReadWhile
        \/ \E byte \in FileBytes, n \in 1 .. 2 :
             stream.pos + n <= MaxFile /\ WriteFile([i \in 1 .. n |-> byte])
        \/ \E whence \in {"SEEK_SET", "SEEK_CUR", "SEEK_END"}, offset \in -1 .. 1 :
             SeekFile(whence, offset) /\ stream'.pos <= MaxFile

-------------------------------------------------------------------------------
(***************************************************************************)
(* The file holds what was written where it was written, the length that is    *)
(* remembered is the file's, and what a successful call has read is what was    *)
(* written there; unless readWhile() has put a byte back.                     *)
(***************************************************************************)
FileRight ==
  ~fileOdd =>
    /\ disk = meant
    /\ stream # NoStream /\ len # -1 => len = Len(disk)
    /\ answer.ok => answer.bytes = SubSeq(meant, answer.at + 1, answer.at + Len(answer.bytes))
===============================================================================
