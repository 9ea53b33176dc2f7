-------------------------------- MODULE BlobStore --------------------------------
(***************************************************************************)
(* What a BlobDB promises: a blob that write() has returned stays what it is, *)
(* through all other operations and through crashes, until it is recycled.    *)
(* The promise ends when the store is misused.                              *)
(***************************************************************************)
EXTENDS Naturals

CONSTANTS Ids, Contents

VARIABLES
  blobs,    \* the contents by id
  writing,  \* what is to be written, <<>> when nothing is
  misused

NoBlobs == [id \in {} |-> <<>>]

Init == blobs = NoBlobs /\ writing = <<>> /\ misused = FALSE

BeginWrite(c) == writing = <<>> /\ writing' = c /\ UNCHANGED blobs

(* The new id is nobody else's. *)
Commit(id) ==
  /\ writing # <<>> /\ id \notin DOMAIN blobs
  /\ blobs' = [i \in DOMAIN blobs \cup {id} |-> IF i = id THEN writing ELSE blobs[i]]
  /\ writing' = <<>>

(* The process ended. *)
Lost == writing' = <<>> /\ UNCHANGED blobs

Recycle(id) ==
  /\ id \in DOMAIN blobs /\ writing = <<>>
  /\ blobs' = [i \in DOMAIN blobs \ {id} |-> blobs[i]]
  /\ UNCHANGED writing

Create == blobs' = NoBlobs /\ writing' = <<>>

Use ==
  \/ \E c \in Contents : BeginWrite(c)
  \/ \E id \in Ids : Commit(id) \/ Recycle(id)
  \/ Lost \/ Create

Misuse == misused' = TRUE

Next == (Use /\ ~misused /\ UNCHANGED misused) \/ Misuse

Spec == Init /\ [][Next]_<<blobs, writing, misused>>
===============================================================================
