--------------------------- MODULE SimplePoolProofs ---------------------------
(***************************************************************************)
(* For a pool of any capacity: no pointer is lent twice, none is hidden,   *)
(* and the pool implements IoAllocator.  The two invariants need each      *)
(* other: put is safe only because a held object leaves room in the ring   *)
(* (NothingHidden), and the count is right only because get lends an       *)
(* object that is not held already (NoDuplicatePointer).                   *)
(***************************************************************************)
EXTENDS SimplePool, FiniteSetTheorems, TLAPS

PoolInv == TypeOK /\ NoDuplicatePointer /\ NothingHidden

\* Sets of pool objects are finite, so that they can be counted.
LEMMA ElemFinite == \A S \in SUBSET Elem : IsFiniteSet(S) /\ Cardinality(S) \in Nat
<1>1. IsFiniteSet(Elem)
  BY FS_Interval, CapacityAssumption DEF Elem
<1> QED BY <1>1, FS_Subset, FS_CardinalityType

\* The full ring of init and reset.
LEMMA FreshInv ==
    ASSUME io_ring' = [i \in Slot |-> i], io_head' = 0, io_tail' = io_ring_size - 1, held' = {}
    PROVE  PoolInv' /\ FreeElem' = 0 .. Capacity - 1
<1> USE CapacityAssumption DEF io_ring_size
<1>1. TypeOK'
  BY DEF TypeOK, Slot, Elem
<1>2. NoDuplicatePointer'
  BY DEF NoDuplicatePointer, FreeSlot
<1>3. NothingHidden'
  <2>1. Cardinality({}) = 0
    BY FS_EmptySet
  <2> QED BY <2>1 DEF NothingHidden, Dist
<1>4. FreeElem' = 0 .. Capacity - 1
  <2>1. FreeSlot' = 0 .. Capacity - 1
    BY DEF FreeSlot, Dist, Slot
  <2> QED BY <2>1 DEF FreeElem, Slot
<1> QED BY <1>1, <1>2, <1>3, <1>4 DEF PoolInv

\* spdk_simple_pool_init establishes the invariant.
LEMMA PoolInit == Init => PoolInv /\ FreeElem = 0 .. Capacity - 1
<1> SUFFICES ASSUME Init PROVE PoolInv /\ FreeElem = 0 .. Capacity - 1
  OBVIOUS
<1> USE CapacityAssumption DEF Init, spdk_simple_pool_init, io_ring_size
<1>1. TypeOK
  BY DEF TypeOK, Slot, Elem
<1>2. NoDuplicatePointer
  BY DEF NoDuplicatePointer, FreeSlot
<1>3. NothingHidden
  <2>1. Cardinality({}) = 0
    BY FS_EmptySet
  <2> QED BY <2>1 DEF NothingHidden, Dist
<1>4. FreeElem = 0 .. Capacity - 1
  <2>1. FreeSlot = 0 .. Capacity - 1
    BY DEF FreeSlot, Dist, Slot
  <2> QED BY <2>1 DEF FreeElem, Slot
<1> QED BY <1>1, <1>2, <1>3, <1>4 DEF PoolInv

\* spdk_simple_pool_get takes exactly one object out of the free ones, one that
\* nobody holds, and preserves the invariant.
LEMMA GetLends ==
    ASSUME PoolInv, spdk_simple_pool_get
    PROVE  /\ io_ring[io_head] \in FreeElem
           /\ FreeElem' = FreeElem \ {io_ring[io_head]}
           /\ PoolInv'
<1> DEFINE e == io_ring[io_head]
<1> USE CapacityAssumption
<1>1. /\ io_ring \in [Slot -> Elem] /\ io_head \in Slot /\ io_tail \in Slot /\ held \subseteq Elem
      /\ io_tail # io_head /\ io_head' = Succ(io_head) /\ held' = held \cup {e}
      /\ io_ring' = io_ring /\ io_tail' = io_tail
  BY DEF PoolInv, TypeOK, spdk_simple_pool_get
<1>2. e \in Elem
  BY <1>1
<1>3. Dist(io_head, io_tail) \in 1 .. Capacity /\ io_head \in FreeSlot
  BY <1>1 DEF Dist, FreeSlot, io_ring_size, Slot
<1>4. e \notin held
  BY <1>3 DEF PoolInv, NoDuplicatePointer
<1>5. Cardinality(held) \in Nat /\ IsFiniteSet(held)
  BY <1>1, ElemFinite
<1>6. io_head' \in Slot /\ Dist(io_head', io_tail') = Dist(io_head, io_tail) - 1
  BY <1>1 DEF Succ, Dist, io_ring_size, Slot
<1>7. TypeOK'
  BY <1>1, <1>2, <1>6 DEF TypeOK
<1>8. FreeSlot' = FreeSlot \ {io_head}
  BY <1>1 DEF FreeSlot, Succ, Dist, io_ring_size, Slot
<1>9. NoDuplicatePointer'
  <2>1. \A i, j \in FreeSlot' : io_ring'[i] = io_ring'[j] => i = j
    BY <1>1, <1>8 DEF PoolInv, NoDuplicatePointer
  <2>2. \A i \in FreeSlot' : io_ring'[i] \notin held'
    <3> SUFFICES ASSUME NEW i \in FreeSlot' PROVE io_ring[i] \notin held /\ io_ring[i] # e
      BY <1>1
    <3>1. i \in FreeSlot /\ i # io_head
      BY <1>8
    <3> QED BY <3>1, <1>3 DEF PoolInv, NoDuplicatePointer
  <2> QED BY <2>1, <2>2 DEF NoDuplicatePointer
<1>10. NothingHidden'
  <2>1. Cardinality(held') = Cardinality(held) + 1
    BY <1>1, <1>4, <1>5, FS_AddElement
  <2> QED BY <2>1, <1>3, <1>5, <1>6 DEF PoolInv, NothingHidden
<1>11. FreeElem' = FreeElem \ {e}
  <2>1. \A i \in FreeSlot : io_ring[i] = e => i = io_head
    BY <1>3 DEF PoolInv, NoDuplicatePointer
  <2> QED BY <2>1, <1>1, <1>3, <1>8 DEF FreeElem
<1>12. e \in FreeElem
  BY <1>3 DEF FreeElem
<1> QED BY <1>7, <1>9, <1>10, <1>11, <1>12 DEF PoolInv

\* spdk_simple_pool_put of a held object makes exactly this object free and
\* preserves the invariant.
LEMMA PutInv ==
    ASSUME PoolInv, NEW e \in Elem, spdk_simple_pool_put(e)
    PROVE  PoolInv' /\ FreeElem' = FreeElem \cup {e}
<1> USE CapacityAssumption
<1>1. /\ io_ring \in [Slot -> Elem] /\ io_head \in Slot /\ io_tail \in Slot /\ held \subseteq Elem
      /\ e \in held /\ io_ring' = [io_ring EXCEPT ![io_tail] = e]
      /\ io_tail' = Succ(io_tail) /\ held' = held \ {e} /\ io_head' = io_head
  BY DEF PoolInv, TypeOK, spdk_simple_pool_put
<1>2. Cardinality(held) \in Nat /\ IsFiniteSet(held)
  BY <1>1, ElemFinite
<1>3. Cardinality(held') = Cardinality(held) - 1 /\ Cardinality(held') \in Nat
  BY <1>1, <1>2, FS_RemoveElement, ElemFinite
<1>4. Dist(io_head, io_tail) \in 0 .. Capacity
  BY <1>1 DEF Dist, io_ring_size, Slot
<1>5. Dist(io_head, io_tail) < Capacity
  BY <1>2, <1>3, <1>4 DEF PoolInv, NothingHidden
<1>6. io_tail' \in Slot /\ Dist(io_head', io_tail') = Dist(io_head, io_tail) + 1
  BY <1>1, <1>5 DEF Succ, Dist, io_ring_size, Slot
<1>7. TypeOK'
  BY <1>1, <1>6 DEF TypeOK
<1>8. FreeSlot' = FreeSlot \cup {io_tail} /\ io_tail \notin FreeSlot
  <2>1. ASSUME NEW i \in Slot
        PROVE  Dist(io_head, i) \in Nat /\ (Dist(io_head, i) = Dist(io_head, io_tail) <=> i = io_tail)
    BY <1>1 DEF Dist, io_ring_size, Slot
  <2>2. \A i \in Slot : Dist(io_head, i) < Dist(io_head, io_tail) + 1
                          <=> (Dist(io_head, i) < Dist(io_head, io_tail) \/ i = io_tail)
    BY <2>1, <1>4
  <2>3. FreeSlot' = {i \in Slot : Dist(io_head, i) < Dist(io_head, io_tail) + 1}
    BY <1>1, <1>6 DEF FreeSlot
  <2> QED BY <2>1, <2>2, <2>3, <1>1, <1>4 DEF FreeSlot
<1>9. \A i \in FreeSlot : i \in Slot /\ i # io_tail /\ io_ring'[i] = io_ring[i]
  BY <1>1, <1>8 DEF FreeSlot
<1>10. io_ring'[io_tail] = e
  BY <1>1
<1>11. NoDuplicatePointer'
  <2>1. \A i, j \in FreeSlot' : io_ring'[i] = io_ring'[j] => i = j
    BY <1>1, <1>8, <1>9, <1>10 DEF PoolInv, NoDuplicatePointer
  <2>2. \A i \in FreeSlot' : io_ring'[i] \notin held'
    BY <1>1, <1>8, <1>9, <1>10 DEF PoolInv, NoDuplicatePointer
  <2> QED BY <2>1, <2>2 DEF NoDuplicatePointer
<1>12. NothingHidden'
  BY <1>2, <1>3, <1>4, <1>6 DEF PoolInv, NothingHidden
<1>13. FreeElem' = FreeElem \cup {e}
  BY <1>8, <1>9, <1>10 DEF FreeElem
<1> QED BY <1>7, <1>11, <1>12, <1>13 DEF PoolInv

\* Every operation of the pool preserves the invariant.
LEMMA PoolNext == PoolInv /\ [Next]_vars => PoolInv'
<1> SUFFICES ASSUME PoolInv, [Next]_vars PROVE PoolInv'
  OBVIOUS
<1>1. CASE spdk_simple_pool_get
  BY <1>1, GetLends
<1>2. ASSUME NEW e \in Elem, spdk_simple_pool_put(e) PROVE PoolInv'
  BY <1>2, PutInv
<1>3. CASE spdk_simple_pool_reset
  BY <1>3, FreshInv DEF spdk_simple_pool_reset
<1>4. CASE UNCHANGED vars
  BY <1>4 DEF vars, PoolInv, TypeOK, NoDuplicatePointer, NothingHidden, FreeSlot
<1> QED BY <1>1, <1>2, <1>3, <1>4 DEF Next

\* spdk_simple_pool_get never hands out a pointer that is in use or free twice, for
\* a pool of any size and any mix of get, put and reset.
THEOREM PoolNeverDuplicates == Spec => []NoDuplicatePointer
<1>1. PoolInv => NoDuplicatePointer
  BY DEF PoolInv
<1> QED BY <1>1, PoolInit, PoolNext, PTL DEF Spec

\* The free and the held objects always add up to the capacity: put cannot overrun
\* the ring although it does not test for room.
THEOREM PoolHidesNothing == Spec => []NothingHidden
<1>1. PoolInv => NothingHidden
  BY DEF PoolInv
<1> QED BY <1>1, PoolInit, PoolNext, PTL DEF Spec

\* The objects the ring lends are those of a fresh pool: the one in the spare slot
\* is overwritten by the first put and never lent.
InPool == held \cup FreeElem \subseteq 0 .. Capacity - 1

\* The ring of spdk_simple_pool implements the allocator its users assume.
THEOREM PoolRefinesAllocator == Spec => ImplementsAllocator
<1> USE DEF Allocator!allocVars
<1>1. Init => Allocator!AllocInit /\ InPool
  BY PoolInit DEF Init, spdk_simple_pool_init, Allocator!AllocInit, InPool
<1>2. PoolInv /\ InPool /\ [Next]_vars => [Allocator!AllocNext]_<<FreeElem, held>> /\ InPool'
  <2> SUFFICES ASSUME PoolInv, InPool, [Next]_vars
               PROVE  [Allocator!AllocNext]_<<FreeElem, held>> /\ InPool'
    OBVIOUS
  <2>1. CASE spdk_simple_pool_get
    <3>1. io_ring[io_head] \in 0 .. Capacity - 1 /\ held' = held \cup {io_ring[io_head]}
      BY <2>1, GetLends DEF InPool, spdk_simple_pool_get
    <3>2. Allocator!Alloc(io_ring[io_head])
      BY <2>1, <3>1, GetLends DEF Allocator!Alloc
    <3> QED BY <2>1, <3>1, <3>2, GetLends DEF Allocator!AllocNext, InPool
  <2>2. ASSUME NEW e \in Elem, spdk_simple_pool_put(e)
        PROVE  [Allocator!AllocNext]_<<FreeElem, held>> /\ InPool'
    <3>1. e \in held /\ held' = held \ {e} /\ e \in 0 .. Capacity - 1
      BY <2>2 DEF InPool, spdk_simple_pool_put
    <3>2. Allocator!Free(e)
      BY <2>2, <3>1, PutInv DEF Allocator!Free
    <3> QED BY <2>2, <3>1, <3>2, PutInv DEF Allocator!AllocNext, InPool
  <2>3. CASE spdk_simple_pool_reset
    <3>1. FreeElem' = 0 .. Capacity - 1 /\ held' = {}
      BY <2>3, FreshInv DEF spdk_simple_pool_reset
    <3> QED BY <3>1 DEF Allocator!AllocNext, Allocator!FreeAll, InPool
  <2>4. CASE UNCHANGED vars
    BY <2>4 DEF vars, FreeElem, FreeSlot, InPool
  <2> QED BY <2>1, <2>2, <2>3, <2>4 DEF Next
<1> QED BY <1>1, <1>2, PoolInit, PoolNext, PTL DEF Spec, ImplementsAllocator, Allocator!AllocSpec
=============================================================================
