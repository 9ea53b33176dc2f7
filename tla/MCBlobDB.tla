-------------------------------- MODULE MCBlobDB --------------------------------
(* Blobs of one block, of two and of three, the last not always full. *)
EXTENDS BlobDB

CONSTANTS x, y

MCUnits == {x, y}

MCContents == {<<x>>, <<x, y, y>>, <<y, x, x, y, x>>}
===============================================================================
