---------------------------- MODULE MCSimplePool ----------------------------
(* The free list with room for three objects: enough for get, put and reset *)
(* to meet in every rotation of the ring.                                   *)
EXTENDS SimplePool
=============================================================================
