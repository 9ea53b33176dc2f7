-------------------------------- MODULE ByteBuffer --------------------------------
(***************************************************************************)
(* ByteBuffer (bytebuffer.cpp): bytes are appended at its end and shifted out at *)
(* its front; it grows up to a limit.  append() makes room before it takes the  *)
(* gate.  What the bytes are is left out.                                    *)
(***************************************************************************)
EXTENDS Naturals

CONSTANTS
  Appenders,   \* threads that append
  InitSize, IncSize, MaxBuffer, \* init_sz, inc_sz, max_sz
  Lengths      \* of what is appended, reserved or shifted

ASSUME BufferAssumption ==
  /\ InitSize \in Nat /\ IncSize \in Nat \ {0} /\ MaxBuffer \in Nat
  /\ Lengths \subseteq Nat \ {0}

VARIABLES
  used, size, \* _buff_used and _buff_sz
  appending, \* the threads in append(), how much they bring, and whether there is room
  bufferOdd  \* observer: see Harms; "shared", used by another while a thread appends

bufferVars == <<used, size, appending, bufferOdd>>

(* "beyond": bytes were written behind the buffer.  "lost": or to the buffer that was
   being replaced.  "smeared": memcpy() in one buffer. *)
Harms == {"beyond", "lost", "smeared"}

BufferInit ==
  used = 0 /\ size = InitSize /\ appending = [t \in {} |-> 0] /\ bufferOdd = {}

Full(n) == used + n >= size

(* Mistake: it grows once more. *)
RoomBeyond == IF size > MaxBuffer THEN 0 ELSE (MaxBuffer - size) \div IncSize + 1

(* The times increase() succeeds, until n fit or it is at the limit. *)
Room == IF size > MaxBuffer THEN 0 ELSE (MaxBuffer - size) \div IncSize
Increases(n) ==
  LET needed == IF Full(n) THEN (used + n - size) \div IncSize + 1 ELSE 0
  IN IF needed < Room THEN needed ELSE Room

Shared(t) == IF DOMAIN appending \ {t} = {} THEN {} ELSE {"shared"}
MayLose(t) == {{}} \cup IF DOMAIN appending \ {t} = {} THEN {} ELSE {{"lost"}}
Leave(t) == appending' = [u \in DOMAIN appending \ {t} |-> appending[u]]

BufferAppend(t, n) ==
  /\ t \notin DOMAIN appending
  /\ appending' = [u \in DOMAIN appending \cup {t} |->
                     IF u = t THEN [n |-> n, fits |-> FALSE] ELSE appending[u]]
  /\ bufferOdd' = bufferOdd \cup Shared(t)
  /\ UNCHANGED <<used, size>>

Increase(t) ==
  /\ t \in DOMAIN appending /\ ~appending[t].fits
  /\ IF ~Full(appending[t].n)
     THEN appending' = [appending EXCEPT ![t].fits = TRUE] /\ UNCHANGED <<size, bufferOdd>>
     ELSE IF Room = 0
     THEN Leave(t) /\ UNCHANGED <<size, bufferOdd>>
     ELSE /\ size' = size + IncSize
          /\ \E lost \in MayLose(t) : bufferOdd' = bufferOdd \cup lost
          /\ UNCHANGED appending
  /\ UNCHANGED used

Copy(t) ==
  /\ t \in DOMAIN appending /\ appending[t].fits
  /\ used' = used + appending[t].n
  /\ bufferOdd' = bufferOdd \cup IF used' > size THEN {"beyond"} ELSE {}
  /\ Leave(t) /\ UNCHANGED size

Reserve(n) ==
  /\ size' = size + Increases(n) * IncSize
  /\ \E lost \in IF size' = size THEN {{}} ELSE MayLose("") : bufferOdd' = bufferOdd \cup Shared("") \cup lost
  /\ UNCHANGED <<used, appending>>

(* Undefined if what is left overlaps the place where it goes. *)
BufferShift(n) ==
  LET m == IF n < used THEN n ELSE used
  IN /\ used' = used - m
     /\ \E lost \in MayLose(""), smeared \in {{}} \cup IF used - m > m THEN {{"smeared"}} ELSE {} :
          bufferOdd' = bufferOdd \cup Shared("") \cup lost \cup smeared
     /\ UNCHANGED <<size, appending>>

BufferNext ==
  \/ \E t \in Appenders :
       \/ \E n \in Lengths : BufferAppend(t, n)
       \/ Increase(t) \/ Copy(t)
  \/ \E n \in Lengths : Reserve(n) \/ BufferShift(n)

(***************************************************************************)
(* The buffer grows to its limit only, and nothing is written beyond it, or lost *)
(* as it grows, as long as nobody else uses the buffer during an append().     *)
(***************************************************************************)
BufferFits ==
  /\ size = InitSize \/ size <= MaxBuffer
  /\ "shared" \notin bufferOdd => used <= size /\ {"beyond", "lost"} \cap bufferOdd = {}
===============================================================================
