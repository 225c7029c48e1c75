---------------------------- MODULE MCGwBuffer ----------------------------
(* Instance of GwBuffer for TLC: a buffer of 4 bytes, and chunks that fit, *)
(* that exceed the room left and that exceed the buffer, with the newline  *)
(* at the front, in the middle, at the end and missing; both contiguous    *)
(* parts and every wrap-around position occur.                             *)
EXTENDS GwBuffer

nl == "nl"
x == "x"

MCByte == {nl, x}
MCChunks == {<< >>, <<x>>, <<nl>>, <<x, nl>>, <<nl, x>>,
             <<x, nl, x>>, <<x, x, x, x>>, <<x, x, nl, x>>}
=============================================================================
