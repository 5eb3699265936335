----------------------------- MODULE IoAllocator -----------------------------
(***************************************************************************)
(* What the users of spdk_simple_pool rely on: an object is either free or *)
(* lent to one holder, get lends a free one, and a reset makes the whole   *)
(* pool free again.  SimplePool implements it.                             *)
(***************************************************************************)
CONSTANT Pool       \* the I/O objects of a fresh pool

VARIABLES free,     \* the objects get may lend
          held      \* the objects lent to a caller

allocVars == <<free, held>>

AllocInit == free = Pool /\ held = {}

Alloc(e) ==
    /\ e \in free
    /\ free' = free \ {e}
    /\ held' = held \cup {e}

Free(e) ==
    /\ e \in held
    /\ free' = free \cup {e}
    /\ held' = held \ {e}

FreeAll == free' = Pool /\ held' = {}

AllocNext ==
    \/ \E e \in Pool : Alloc(e) \/ Free(e)
    \/ FreeAll

AllocSpec == AllocInit /\ [][AllocNext]_allocVars
=============================================================================
