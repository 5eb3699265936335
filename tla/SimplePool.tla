------------------------------ MODULE SimplePool ------------------------------
(***************************************************************************)
(* spdk_simple_pool (include/spdk/env.h): the free list of the AXI DMA I/O *)
(* objects, a ring of Capacity + 1 pointers of which one slot is always    *)
(* empty.  get takes the pointer at io_head, put writes one at io_tail and *)
(* neither checks that the caller really holds what it returns.  get and   *)
(* put rotate the pointers through the ring, so io_ring is not the array   *)
(* order any more when reset is called with pointers still out.            *)
(***************************************************************************)
EXTENDS Naturals, FiniteSets

CONSTANT Capacity   \* the cnt argument of spdk_simple_pool_init

ASSUME CapacityAssumption == Capacity \in Nat \ {0}

VARIABLES io_ring,  \* the pointers; an object is named by its place in io_arr
          io_head,
          io_tail,
          held      \* the objects the callers hold, the view of the users

vars == <<io_ring, io_head, io_tail, held>>

io_ring_size == Capacity + 1
Slot == 0 .. Capacity
Elem == 0 .. Capacity

\* (i + 1) % io_ring_size, for a slot i
Succ(i) == IF i = Capacity THEN 0 ELSE i + 1

\* Number of slots from a up to, not including, b, going round the ring.
Dist(a, b) == IF a <= b THEN b - a ELSE b - a + io_ring_size

\* The slots that hold the pointers get may still hand out.
FreeSlot == {i \in Slot : Dist(io_head, i) < Dist(io_head, io_tail)}

-----------------------------------------------------------------------------
spdk_simple_pool_init ==
    /\ io_ring = [i \in Slot |-> i]
    /\ io_head = 0
    /\ io_tail = io_ring_size - 1
    /\ held = {}

\* NULL, no change of state, when the ring is empty.
spdk_simple_pool_get ==
    /\ io_tail # io_head
    /\ io_head' = Succ(io_head)
    /\ held' = held \cup {io_ring[io_head]}
    /\ UNCHANGED <<io_ring, io_tail>>

\* Mutant: put forgets to store the pointer and only moves the tail.
PutMovesTailOnly(e) ==
    /\ e \in held
    /\ io_tail' = Succ(io_tail)
    /\ held' = held \ {e}
    /\ UNCHANGED <<io_ring, io_head>>

spdk_simple_pool_put(e) ==
    /\ e \in held
    /\ io_ring' = [io_ring EXCEPT ![io_tail] = e]
    /\ io_tail' = Succ(io_tail)
    /\ held' = held \ {e}
    /\ UNCHANGED io_head

\* Mutant: the reset before the fix, head and tail only.
ResetPointersOnly ==
    /\ io_head' = 0
    /\ io_tail' = io_ring_size - 1
    /\ held' = {}
    /\ UNCHANGED io_ring

\* Mutant: the rebuilt ring is one pointer short.
ResetShort ==
    /\ io_ring' = [i \in Slot |-> i]
    /\ io_head' = 0
    /\ io_tail' = io_ring_size - 2
    /\ held' = {}

\* Called by tx_rx_channel_release: whatever was out is forgotten.
spdk_simple_pool_reset ==
    /\ io_ring' = [i \in Slot |-> i]
    /\ io_head' = 0
    /\ io_tail' = io_ring_size - 1
    /\ held' = {}

Init == spdk_simple_pool_init

Next ==
    \/ spdk_simple_pool_get
    \/ \E e \in Elem : spdk_simple_pool_put(e)
    \/ spdk_simple_pool_reset

Spec == Init /\ [][Next]_vars

-----------------------------------------------------------------------------
TypeOK ==
    /\ io_ring \in [Slot -> Elem]
    /\ io_head \in Slot
    /\ io_tail \in Slot
    /\ held \subseteq Elem

\* No pointer is in the free part of the ring twice and none is there while a
\* caller holds it: two submissions never share a spdk_axi_dma_io.  This is what
\* the comment in spdk_simple_pool_reset says a reset of head and tail alone
\* would break.
NoDuplicatePointer ==
    /\ \A i, j \in FreeSlot : io_ring[i] = io_ring[j] => i = j
    /\ \A i \in FreeSlot : io_ring[i] \notin held

\* No pool element is hidden for good: what is free plus what is held is always
\* the whole capacity, so put never runs into the head (it has no full check)
\* and a pool whose callers return everything is full again.
NothingHidden ==
    Cardinality(held) + Dist(io_head, io_tail) = Capacity

\* The ring implements the allocator its users assume: the free objects are those
\* in the free part of the ring.
FreeElem == {io_ring[i] : i \in FreeSlot}
Allocator == INSTANCE IoAllocator WITH Pool <- 0 .. Capacity - 1, free <- FreeElem

\* Every step of the pool is a step of IoAllocator: get lends a free object, put
\* frees exactly the object it is given, reset all of them.
ImplementsAllocator == Allocator!AllocSpec
=============================================================================
