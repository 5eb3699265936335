--------------------------- MODULE AxiDmaRingProofs ---------------------------
(***************************************************************************)
(* For every ring size, pool and caller: the ring and the hardware agree,  *)
(* an I/O object is returned only after its final descriptor, and a posted *)
(* object keeps exactly one BD that will return it.                        *)
(***************************************************************************)
EXTENDS AxiDmaRing, SequenceTheorems, TLAPS

\* The receive side of the host-to-card copy is excluded: it submits several
\* buffers after one test for room (the handc_rx counterexample).
ListsFit == \A c \in Chans : c.client = "handc" => c.maxIov = 1
ChanKnown == chan \in Chans

\* The j-th BD in use.
BD(j) == bd[Adv(head, j)]

\* The inductive invariant.  ReturnedAfterFinal is not inductive alone: when
\* a submission is returned no later BD may still name it (EndIsLast).
EndIsLast ==
    \A i, j \in 0 .. count - 1 :
        i < j /\ BD(i).end => BD(j).opaque # BD(i).opaque
InUsePosted ==
    phase # "released" =>
        \A j \in 0 .. count - 1 : BD(j).opaque \in IO /\ st[BD(j).opaque] = "posted"
PostedHasEnd ==
    \A io \in IO : st[io] = "posted" =>
        /\ phase # "released"
        /\ \E j \in 0 .. count - 1 : BD(j).opaque = io /\ BD(j).end
RingInv ==
    /\ TypeOK
    /\ RingMatchesHardware
    /\ EndIsLast
    /\ InUsePosted
    /\ PostedHasEnd

-----------------------------------------------------------------------------
(* Ring arithmetic: places on the ring are counted linearly from a BD.      *)

\* Adv without the remainder: one subtraction at the end of the ring.
LEMMA AdvLinear ==
    \A i \in Slot, k \in 0 .. N : Adv(i, k) = IF i + k >= N THEN i + k - N ELSE i + k
<1> SUFFICES ASSUME NEW i \in Slot, NEW k \in 0 .. N
             PROVE  Adv(i, k) = IF i + k >= N THEN i + k - N ELSE i + k
  OBVIOUS
<1>1. CASE i + k < N
  BY <1>1, RingAssumption DEF Adv, Slot
<1>2. CASE i + k >= N
  BY <1>2, RingAssumption DEF Adv, Slot
<1> QED BY <1>1, <1>2, RingAssumption DEF Slot

\* The same for the distance from one BD to another.
LEMMA DistLinear ==
    \A a, b \in Slot : Dist(a, b) = IF a <= b THEN b - a ELSE b - a + N
<1> SUFFICES ASSUME NEW a \in Slot, NEW b \in Slot
             PROVE  Dist(a, b) = IF a <= b THEN b - a ELSE b - a + N
  OBVIOUS
<1>1. CASE a <= b
  BY <1>1, RingAssumption DEF Dist, Slot
<1>2. CASE a > b
  BY <1>2, RingAssumption DEF Dist, Slot
<1> QED BY <1>1, <1>2, RingAssumption DEF Slot

\* Moving on stays on the ring.
LEMMA AdvType == \A i \in Slot, k \in 0 .. N : Adv(i, k) \in Slot
BY AdvLinear, RingAssumption DEF Slot

\* Moving on twice is moving on once by the sum.
LEMMA AdvAdv ==
    \A i \in Slot, a, b \in 0 .. N : a + b <= N => Adv(Adv(i, a), b) = Adv(i, a + b)
<1> SUFFICES ASSUME NEW i \in Slot, NEW a \in 0 .. N, NEW b \in 0 .. N, a + b <= N
             PROVE  Adv(Adv(i, a), b) = Adv(i, a + b)
  OBVIOUS
<1>1. a + b \in 0 .. N /\ Adv(i, a) \in Slot
  BY AdvType, RingAssumption
<1>2. Adv(i, a) = IF i + a >= N THEN i + a - N ELSE i + a
  BY AdvLinear
<1>3. Adv(i, a + b) = IF i + (a + b) >= N THEN i + (a + b) - N ELSE i + (a + b)
  BY <1>1, AdvLinear
<1>4. Adv(Adv(i, a), b) =
        IF Adv(i, a) + b >= N THEN Adv(i, a) + b - N ELSE Adv(i, a) + b
  BY <1>1, AdvLinear
<1> QED BY <1>1, <1>2, <1>3, <1>4, RingAssumption DEF Slot

\* Different places within one round are different BDs.
LEMMA AdvInjective ==
    \A i \in Slot, a, b \in 0 .. N - 1 : Adv(i, a) = Adv(i, b) => a = b
BY AdvLinear, RingAssumption DEF Slot

\* The distance to a place counted from a BD is that count.
LEMMA DistAdv ==
    \A i \in Slot, a, b \in 0 .. N :
        /\ a <= b /\ b - a < N => Dist(Adv(i, a), Adv(i, b)) = b - a
        /\ b < a /\ a - b < N => Dist(Adv(i, a), Adv(i, b)) = b - a + N
<1> SUFFICES ASSUME NEW i \in Slot, NEW a \in 0 .. N, NEW b \in 0 .. N
             PROVE  /\ a <= b /\ b - a < N => Dist(Adv(i, a), Adv(i, b)) = b - a
                    /\ b < a /\ a - b < N => Dist(Adv(i, a), Adv(i, b)) = b - a + N
  OBVIOUS
<1>1. Adv(i, a) = IF i + a >= N THEN i + a - N ELSE i + a
  BY AdvLinear
<1>2. Adv(i, b) = IF i + b >= N THEN i + b - N ELSE i + b
  BY AdvLinear
<1>3. Dist(Adv(i, a), Adv(i, b)) =
        IF Adv(i, a) <= Adv(i, b) THEN Adv(i, b) - Adv(i, a)
                                  ELSE Adv(i, b) - Adv(i, a) + N
  BY AdvType, DistLinear
<1> QED BY <1>1, <1>2, <1>3, RingAssumption DEF Slot

\* Distances are less than the ring size.
LEMMA DistType == \A a, b \in Slot : Dist(a, b) \in 0 .. N - 1
<1> SUFFICES ASSUME NEW a \in Slot, NEW b \in Slot
             PROVE  Dist(a, b) \in 0 .. N - 1
  OBVIOUS
<1>1. Dist(a, b) = IF a <= b THEN b - a ELSE b - a + N
  BY DistLinear
<1> QED BY <1>1, RingAssumption DEF Slot

-----------------------------------------------------------------------------
(* What the two ring operations do to the BDs in use, counted from head.     *)

BDType == [done : BOOLEAN, opaque : IO \cup {NoIO}, end : BOOLEAN, len : Nat, got : Nat]

\* A submission of n buffers that fits leaves the BDs in use alone and appends n
\* BDs of its own, of which only the last carries request_end; the hardware's
\* window grows by n.
LEMMA FillAppends ==
    ASSUME TypeOK, RingMatchesHardware,
           NEW io \in IO, NEW lens \in Seq(Nat), Len(lens) >= 1,
           count + Len(lens) <= N, Fill(io, lens)
    PROVE  /\ bd' \in [Slot -> BDType]
           /\ head' = head /\ hwCur' = hwCur
           /\ tail' = Adv(head, count + Len(lens)) /\ tail' \in Slot
           /\ count' = count + Len(lens)
           /\ hwLeft' = hwLeft + Len(lens)
           /\ \A j \in 0 .. count - 1 : bd'[Adv(head, j)] = bd[Adv(head, j)]
           /\ \A j \in count .. count + Len(lens) - 1 :
                 /\ bd'[Adv(head, j)].opaque = io
                 /\ ~bd'[Adv(head, j)].done
                 /\ (bd'[Adv(head, j)].end <=> j = count + Len(lens) - 1)
<1> DEFINE n == Len(lens)
           c == count
<1>1. n \in 1 .. N /\ c \in 0 .. N /\ c + n \in 0 .. N /\ head \in Slot /\ N \in Nat \ {0}
  BY RingAssumption DEF TypeOK
<1>2. tail = Adv(head, c) /\ tail \in Slot
  BY DEF RingMatchesHardware, TypeOK
<1>3. head' = head /\ hwCur' = hwCur /\ count' = c + n
  BY DEF Fill
<1>4. tail' = Adv(head, c + n) /\ tail' \in Slot
  BY <1>1, <1>2, AdvAdv, AdvType DEF Fill
<1>5. hwLeft' = hwLeft + n
  <2>1. Adv(tail, n - 1) = Adv(head, c + n - 1)
    <3>1. n - 1 \in 0 .. N /\ c + (n - 1) <= N
      BY <1>1
    <3>2. Adv(Adv(head, c), n - 1) = Adv(head, c + (n - 1))
      BY <3>1, <1>1, AdvAdv
    <3> QED BY <3>2, <1>1, <1>2
  <2>2. hwCur = Adv(head, c - hwLeft) /\ hwLeft \in 0 .. c
    BY <1>1 DEF RingMatchesHardware, TypeOK
  <2>3. Dist(Adv(head, c - hwLeft), Adv(head, c + n - 1)) = (c + n - 1) - (c - hwLeft)
    <3>1. c - hwLeft \in 0 .. N /\ c + n - 1 \in 0 .. N /\ c - hwLeft <= c + n - 1
          /\ (c + n - 1) - (c - hwLeft) < N
      BY <1>1, <2>2
    <3> QED BY <3>1, <1>1, DistAdv
  <2> QED BY <2>1, <2>2, <2>3, <1>1 DEF Fill
<1>6. bd' \in [Slot -> BDType]
  <2> SUFFICES ASSUME NEW i \in Slot
               PROVE  LET k == Dist(tail, i) IN
                      (IF k < n THEN [done |-> FALSE, opaque |-> io, end |-> k = n - 1,
                                      len |-> lens[k + 1], got |-> 0]
                                ELSE bd[i]) \in BDType
    BY DEF Fill
  <2>1. Dist(tail, i) \in 0 .. N - 1
    BY <1>2, DistType
  <2>2. bd[i] \in BDType
    BY DEF TypeOK, BDType
  <2>3. CASE Dist(tail, i) < n
    <3>1. lens[Dist(tail, i) + 1] \in Nat
      BY <2>1, <2>3, <1>1
    <3> QED BY <2>3, <3>1 DEF BDType
  <2> QED BY <2>2, <2>3
<1>7. ASSUME NEW j \in 0 .. c - 1
      PROVE  bd'[Adv(head, j)] = bd[Adv(head, j)]
  <2>1. Adv(head, j) \in Slot /\ j \in 0 .. N
    BY <1>1, AdvType
  <2>2. Dist(tail, Adv(head, j)) >= n
    <3>1. CASE c - j < N
      <4>1. Dist(Adv(head, c), Adv(head, j)) = j - c + N
        BY <3>1, <2>1, <1>1, DistAdv
      <4> QED BY <4>1, <1>1, <1>2
    <3>2. CASE c - j >= N
      BY <3>2, <1>1
    <3> QED BY <3>1, <3>2, <1>1
  <2>3. Dist(tail, Adv(head, j)) \in Nat /\ ~ (Dist(tail, Adv(head, j)) < n)
    BY <2>1, <2>2, <1>1, <1>2, DistType
  <2> QED BY <2>1, <2>3 DEF Fill
<1>8. ASSUME NEW j \in c .. c + n - 1
      PROVE  /\ bd'[Adv(head, j)].opaque = io
             /\ ~bd'[Adv(head, j)].done
             /\ (bd'[Adv(head, j)].end <=> j = c + n - 1)
  <2>1. Adv(head, j) \in Slot /\ j \in 0 .. N
    BY <1>1, AdvType
  <2>2. Dist(tail, Adv(head, j)) = j - c
    BY <2>1, <1>1, <1>2, DistAdv
  <2>3. bd'[Adv(head, j)] = [done |-> FALSE, opaque |-> io, end |-> (j - c) = n - 1,
                             len |-> lens[(j - c) + 1], got |-> 0]
    BY <2>1, <2>2, <1>1 DEF Fill
  <2>4. /\ bd'[Adv(head, j)].opaque = io
        /\ bd'[Adv(head, j)].done = FALSE
        /\ bd'[Adv(head, j)].end = ((j - c) = n - 1)
    BY <2>3
  <2>5. ((j - c) = n - 1) <=> (j = c + n - 1)
    BY <1>1
  <2> QED BY <2>4, <2>5
<1> QED BY <1>3, <1>4, <1>5, <1>6, <1>7, <1>8

\* A poll that consumes k BDs drops the first k of the BDs in use and leaves the
\* others as they were.
LEMMA ConsumeDrops ==
    ASSUME TypeOK, RingMatchesHardware, NEW k \in 1 .. count, Consume(k)
    PROVE  /\ bd' \in [Slot -> BDType]
           /\ head' = Adv(head, k) /\ head' \in Slot
           /\ tail' = tail /\ hwCur' = hwCur /\ hwLeft' = hwLeft
           /\ count' = count - k
           /\ \A j \in 0 .. count - k - 1 : bd'[Adv(head', j)] = bd[Adv(head, j + k)]
<1>1. count \in 0 .. N /\ k \in 0 .. N /\ head \in Slot /\ N \in Nat \ {0}
  BY RingAssumption DEF TypeOK
<1>2. head' = Adv(head, k) /\ head' \in Slot
  BY <1>1, AdvType DEF Consume
<1>3. tail' = tail /\ hwCur' = hwCur /\ hwLeft' = hwLeft /\ count' = count - k
  BY DEF Consume, hwVars
<1>4. bd' \in [Slot -> BDType]
  <2>1. \A i \in Slot : bd[i] \in BDType
    BY DEF TypeOK, BDType
  <2>2. \A i \in Slot : [done |-> bd[i].done, opaque |-> NoIO, end |-> FALSE,
                         len |-> bd[i].len, got |-> bd[i].got] \in BDType
    BY <2>1 DEF BDType
  <2> QED BY <2>1, <2>2 DEF Consume
<1>5. ASSUME NEW j \in 0 .. count - k - 1
      PROVE  bd'[Adv(head', j)] = bd[Adv(head, j + k)]
  <2>1. j + k \in 0 .. N - 1 /\ j \in 0 .. N
    BY <1>1
  <2>2. Adv(head', j) = Adv(head, j + k) /\ Adv(head, j + k) \in Slot
    <3>1. Adv(Adv(head, k), j) = Adv(head, k + j)
      BY <1>1, <2>1, AdvAdv
    <3> QED BY <3>1, <1>1, <1>2, <2>1, AdvType
  <2>3. Adv(head, j + k) \notin {Adv(head, i) : i \in 0 .. k - 1}
    BY <1>1, <2>1, AdvInjective
  <2> QED BY <2>2, <2>3 DEF Consume
<1> QED BY <1>2, <1>3, <1>4, <1>5

-----------------------------------------------------------------------------
(* Each action preserves the invariant.                                      *)

\* rte_axi_dma_create_channel establishes the invariant.
LEMMA InitInv == Init => RingInv
<1> SUFFICES ASSUME Init PROVE RingInv
  OBVIOUS
<1> USE RingAssumption DEF Init
<1>1. TypeOK
  BY DEF TypeOK, Slot
<1>2. RingMatchesHardware
  <2>1. 0 \in Slot /\ Adv(0, 0) = 0
    BY AdvLinear DEF Slot
  <2> QED BY <2>1 DEF RingMatchesHardware
<1>3. EndIsLast /\ InUsePosted /\ PostedHasEnd
  BY DEF EndIsLast, InUsePosted, PostedHasEnd
<1> QED BY <1>1, <1>2, <1>3 DEF RingInv

\* Filling BDs for a submission that fits preserves the invariant.
LEMMA FillInv ==
    ASSUME RingInv, NEW io \in IO, NEW lens \in Seq(Nat), Len(lens) >= 1,
           count + Len(lens) <= N, Fill(io, lens),
           st[io] # "posted", phase = "active", phase' = phase,
           st' = [st EXCEPT ![io] = "posted"]
    PROVE  RingInv'
<1> DEFINE n == Len(lens)
<1>1. TypeOK /\ RingMatchesHardware
  BY DEF RingInv
<1>2. /\ bd' \in [Slot -> BDType]
      /\ head' = head /\ hwCur' = hwCur
      /\ tail' = Adv(head, count + n) /\ tail' \in Slot
      /\ count' = count + n
      /\ hwLeft' = hwLeft + n
  BY <1>1, FillAppends
<1>3. \A j \in 0 .. count - 1 : bd'[Adv(head, j)] = bd[Adv(head, j)]
  BY <1>1, FillAppends
<1>4. \A j \in count .. count + n - 1 :
          /\ bd'[Adv(head, j)].opaque = io
          /\ ~bd'[Adv(head, j)].done
          /\ (bd'[Adv(head, j)].end <=> j = count + n - 1)
  BY <1>1, FillAppends
<1>5. n \in 1 .. N /\ count \in 0 .. N /\ hwLeft \in 0 .. count /\ N \in Nat \ {0}
  <2>1. n \in Nat /\ N \in Nat \ {0}
    BY RingAssumption
  <2>2. count \in 0 .. N /\ hwLeft \in 0 .. N /\ hwLeft <= count
    BY <1>1 DEF TypeOK, RingMatchesHardware
  <2> QED BY <2>1, <2>2
<1>6. TypeOK'
  <2>1. count' \in 0 .. N /\ hwLeft' \in 0 .. N
    BY <1>2, <1>5
  <2>2. st' \in [IO -> {"free", "posted", "done", "leaked"}]
    BY <1>1 DEF TypeOK
  <2> QED BY <2>1, <2>2, <1>1, <1>2 DEF TypeOK, BDType
<1>7. RingMatchesHardware'
  <2>1. hwCur' = Adv(head, count' - hwLeft')
    <3>1. count' - hwLeft' = count - hwLeft
      BY <1>2, <1>5
    <3> QED BY <3>1, <1>1, <1>2 DEF RingMatchesHardware
  <2>2. ASSUME NEW j \in 0 .. count' - 1
        PROVE  bd'[Adv(head, j)].done <=> j < count' - hwLeft'
    <3>1. CASE j < count
      BY <3>1, <1>1, <1>2, <1>3, <1>5 DEF RingMatchesHardware
    <3>2. CASE j >= count
      BY <3>2, <1>2, <1>4, <1>5
    <3> QED BY <3>1, <3>2, <1>2, <1>5
  <2> QED BY <2>1, <2>2, <1>2, <1>5 DEF RingMatchesHardware
<1>8. \A j \in 0 .. count - 1 : BD(j).opaque \in IO /\ BD(j).opaque # io
                                /\ st[BD(j).opaque] = "posted"
  BY DEF RingInv, InUsePosted
<1>9. EndIsLast'
  <2> SUFFICES ASSUME NEW i \in 0 .. count' - 1, NEW j \in 0 .. count' - 1,
                      i < j, bd'[Adv(head, i)].end
               PROVE  bd'[Adv(head, j)].opaque # bd'[Adv(head, i)].opaque
    BY <1>2 DEF EndIsLast, BD
  <2>1. i < count
    <3> SUFFICES ASSUME i >= count PROVE FALSE
      BY <1>2, <1>5
    <3>1. i \in count .. count + n - 1 /\ j <= count + n - 1
      BY <1>2, <1>5
    <3>2. i = count + n - 1
      BY <3>1, <1>4
    <3> QED BY <3>1, <3>2, <1>2, <1>5
  <2>2. CASE j < count
    BY <2>1, <2>2, <1>3, <1>5 DEF RingInv, EndIsLast, BD
  <2>3. CASE j >= count
    BY <2>1, <2>3, <1>2, <1>3, <1>4, <1>5, <1>8 DEF BD
  <2> QED BY <2>2, <2>3, <1>2, <1>5
<1>10. InUsePosted'
  <2> SUFFICES ASSUME NEW j \in 0 .. count' - 1
               PROVE  /\ bd'[Adv(head, j)].opaque \in IO
                      /\ st'[bd'[Adv(head, j)].opaque] = "posted"
    BY <1>2 DEF InUsePosted, BD
  <2>0. \A x \in IO : st'[x] = IF x = io THEN "posted" ELSE st[x]
    BY <1>1 DEF TypeOK
  <2>2. CASE j < count
    BY <2>0, <2>2, <1>2, <1>3, <1>5, <1>8 DEF BD
  <2>3. CASE j >= count
    BY <2>0, <2>3, <1>2, <1>4, <1>5
  <2> QED BY <2>2, <2>3, <1>2, <1>5
<1>11. PostedHasEnd'
  <2> SUFFICES ASSUME NEW x \in IO, st'[x] = "posted"
               PROVE  \E j \in 0 .. count' - 1 :
                          bd'[Adv(head, j)].opaque = x /\ bd'[Adv(head, j)].end
    BY <1>2, Zenon DEF PostedHasEnd, BD
  <2>1. CASE x = io
    <3>1. count + n - 1 \in count .. count + n - 1 /\ count + n - 1 \in 0 .. count' - 1
      BY <1>2, <1>5
    <3> QED BY <2>1, <3>1, <1>4
  <2>2. CASE x # io
    <3>1. st[x] = "posted"
      BY <2>2, <1>1 DEF TypeOK
    <3>2. PICK j \in 0 .. count - 1 : BD(j).opaque = x /\ BD(j).end
      BY <3>1 DEF RingInv, PostedHasEnd
    <3>3. j \in 0 .. count' - 1
      BY <1>2, <1>5
    <3>4. bd'[Adv(head, j)] = bd[Adv(head, j)]
      BY <1>3
    <3> QED BY <3>2, <3>3, <3>4 DEF BD
  <2> QED BY <2>1, <2>2
<1> QED BY <1>6, <1>7, <1>9, <1>10, <1>11 DEF RingInv

\* A step that leaves the ring, the hardware and the phase alone and posts nothing.
LEMMA IoStepInv ==
    ASSUME RingInv, UNCHANGED <<ringVars, hwVars, phase>>,
           st' \in [IO -> {"free", "posted", "done", "leaked"}],
           \A io \in IO : st'[io] = "posted" <=> st[io] = "posted"
    PROVE  RingInv'
<1>1. /\ bd' = bd /\ head' = head /\ tail' = tail /\ count' = count
      /\ hwCur' = hwCur /\ hwLeft' = hwLeft /\ phase' = phase
  BY DEF ringVars, hwVars
<1>2. TypeOK'
  BY <1>1 DEF RingInv, TypeOK
<1>3. RingMatchesHardware' /\ EndIsLast'
  BY <1>1 DEF RingInv, RingMatchesHardware, EndIsLast, BD
<1>4. InUsePosted' /\ PostedHasEnd'
  BY <1>1 DEF RingInv, InUsePosted, PostedHasEnd, BD
<1> QED BY <1>2, <1>3, <1>4 DEF RingInv

\* What the assumptions on the kinds of channel say of this one.
LEMMA ChanFacts ==
    ASSUME ListsFit, ChanKnown
    PROVE  /\ Lens \subseteq Nat /\ MaxIov \in 1 .. N
           /\ Client \in {"qpair", "compute", "handc"}
           /\ Client = "compute" => MaxIov + 1 <= N
           /\ Client = "handc" => MaxIov = 1
BY RingAssumption DEF ChanKnown, ListsFit, Lens, MaxIov, Client

\* Iovec lists are sequences of lengths; the finish beat adds one more.
LEMMA IovListType ==
    ASSUME ListsFit, ChanKnown
    PROVE
    \A lens \in IovLists : /\ lens \in Seq(Nat) /\ Len(lens) \in 1 .. MaxIov
                           /\ Append(lens, FinLen) \in Seq(Nat)
                           /\ Len(Append(lens, FinLen)) = Len(lens) + 1
<1> SUFFICES ASSUME NEW lens \in IovLists
             PROVE  /\ lens \in Seq(Nat) /\ Len(lens) \in 1 .. MaxIov
                    /\ Append(lens, FinLen) \in Seq(Nat)
                    /\ Len(Append(lens, FinLen)) = Len(lens) + 1
  OBVIOUS
<1>1. PICK n \in 1 .. MaxIov : lens \in [1 .. n -> Lens]
  BY DEF IovLists
<1>2. n \in Nat /\ \A i \in 1 .. n : lens[i] \in Nat
  <2>1. Lens \subseteq Nat /\ MaxIov \in 1 .. N /\ N \in Nat
    BY RingAssumption, ChanFacts
  <2>2. n \in Nat
    BY <2>1
  <2>3. \A i \in 1 .. n : lens[i] \in Lens
    BY <1>1
  <2> QED BY <2>1, <2>2, <2>3
<1>3. lens \in [1 .. n -> Nat]
  BY <1>1, <1>2
<1>4. lens \in Seq(Nat) /\ Len(lens) = n
  BY <1>2, <1>3
<1>5. FinLen \in Nat
  BY RingAssumption
<1> QED BY <1>1, <1>4, <1>5

\* A submission of the upper layer, by add_buffer or by send_seg, preserves it.
LEMMA SubmitInv ==
    ASSUME ListsFit, ChanKnown, RingInv, NEW io \in IO, NEW lens \in IovLists, NEW last_data \in BOOLEAN,
           Submit(io, lens, last_data)
    PROVE  RingInv'
<1>1. phase = "active" /\ phase' = phase /\ st[io] = "free" /\ CallerMay(Len(lens))
  BY DEF Submit
<1>2. /\ lens \in Seq(Nat) /\ Len(lens) \in 1 .. MaxIov
      /\ Append(lens, FinLen) \in Seq(Nat) /\ Len(Append(lens, FinLen)) = Len(lens) + 1
  BY IovListType
<1>3. count \in 0 .. N /\ N \in Nat \ {0} /\ MaxIov \in 1 .. N /\ head \in Slot
  BY RingAssumption, ChanFacts DEF RingInv, TypeOK
<1>4. CASE Segmented
  <2> DEFINE all == IF last_data THEN Append(lens, FinLen) ELSE lens
  <2>1. Fill(io, all) /\ Posted(io, all)
    BY <1>4 DEF Submit, rte_axi_dma_send_seg
  <2>2. all \in Seq(Nat) /\ Len(all) >= 1 /\ Len(all) <= MaxIov + 1
    BY <1>2, <1>3
  <2>3. count + Len(all) <= N
    BY <1>1, <1>3, <1>4, <2>2, ChanFacts DEF Segmented, CallerMay
  <2> HIDE DEF all
  <2>4. st' = [st EXCEPT ![io] = "posted"]
    BY <2>1, Zenon DEF Posted
  <2> QED BY <1>1, <2>1, <2>2, <2>3, <2>4, FillInv
<1>5. CASE ~Segmented /\ ~channel_full
  <2>1. Fill(io, lens) /\ Posted(io, lens)
    BY <1>5 DEF Submit, rte_axi_dma_add_buffer
  <2>2. count + Len(lens) <= N
    <3>1. CASE Client = "compute"
      BY <3>1, <1>1, <1>2, <1>3 DEF CallerMay
    <3>2. CASE Client # "compute"
      <4>1. Len(lens) = 1
        <5>1. CASE Client = "qpair"
          BY <5>1, <1>1 DEF CallerMay
        <5>2. CASE Client = "handc"
          <6>1. MaxIov = 1
            BY <5>2, ChanFacts
          <6>2. Len(lens) \in 1 .. 1
            BY <6>1, <1>2
          <6> QED BY <6>2
        <5> QED BY <5>1, <5>2, <3>2, ChanFacts
      <4>2. count # N
        <5> SUFFICES ASSUME count = N PROVE FALSE
          OBVIOUS
        <5>1. tail = Adv(head, N)
          BY DEF RingInv, RingMatchesHardware
        <5>2. Adv(head, N) = head
          BY <1>3, AdvLinear DEF Slot
        <5> QED BY <5>1, <5>2, <1>3, <1>5 DEF channel_full
      <4> QED BY <4>1, <4>2, <1>3
    <3> QED BY <3>1, <3>2
  <2>3. st' = [st EXCEPT ![io] = "posted"]
    BY <2>1, Zenon DEF Posted
  <2>4. Len(lens) >= 1 /\ st[io] # "posted"
    BY <1>1, <1>2, <1>3
  <2> QED BY <1>1, <1>2, <2>1, <2>2, <2>3, <2>4, FillInv
<1>6. CASE ~Segmented /\ channel_full
  <2>1. st' = [st EXCEPT ![io] = AfterFailure] /\ UNCHANGED <<ringVars, hwVars>>
    BY <1>6 DEF Submit, rte_axi_dma_add_buffer
  <2>2. AfterFailure \in {"free", "leaked"}
    BY DEF AfterFailure
  <2>3. st \in [IO -> {"free", "posted", "done", "leaked"}]
    BY DEF RingInv, TypeOK
  <2>4. st' \in [IO -> {"free", "posted", "done", "leaked"}]
    BY <2>1, <2>2, <2>3
  <2>5. \A x \in IO : st'[x] = "posted" <=> st[x] = "posted"
    BY <1>1, <2>1, <2>2, <2>3
  <2> QED BY <1>1, <2>1, <2>4, <2>5, IoStepInv
<1> QED BY <1>4, <1>5, <1>6

\* So does the hardware when it completes the BD at curdesc.
LEMMA HwCompleteInv == ASSUME RingInv, HwComplete PROVE RingInv'
<1>1. TypeOK /\ RingMatchesHardware
  BY DEF RingInv
<1>2. PICK got : /\ got \in (IF Dir = "tx" THEN {bd[hwCur].len} ELSE 1 .. bd[hwCur].len)
                 /\ bd' = [bd EXCEPT ![hwCur] = [done |-> TRUE, opaque |-> @.opaque,
                                                end |-> @.end, len |-> @.len, got |-> got]]
  BY Zenon DEF HwComplete
<1>3. /\ head' = head /\ tail' = tail /\ count' = count /\ phase' = phase /\ st' = st
      /\ hwCur' = Adv(hwCur, 1) /\ hwLeft' = hwLeft - 1 /\ hwLeft > 0
  BY DEF HwComplete
<1>4. /\ N \in Nat \ {0} /\ count \in 0 .. N /\ hwLeft \in 1 .. count
      /\ head \in Slot /\ hwCur \in Slot /\ hwCur = Adv(head, count - hwLeft)
  BY <1>1, <1>3, RingAssumption DEF TypeOK, RingMatchesHardware
<1>5. bd[hwCur] \in BDType /\ got \in Nat
  <2>1. bd[hwCur] \in BDType
    BY <1>1, <1>4 DEF TypeOK, BDType
  <2>2. bd[hwCur].len \in Nat
    BY <2>1 DEF BDType
  <2> QED BY <2>1, <2>2, <1>2
<1> DEFINE new == [done |-> TRUE, opaque |-> bd[hwCur].opaque, end |-> bd[hwCur].end,
                   len |-> bd[hwCur].len, got |-> got]
<1>6. new \in BDType
  BY <1>5 DEF BDType
<1>7. new.done = TRUE /\ new.opaque = bd[hwCur].opaque /\ new.end = bd[hwCur].end
  OBVIOUS
<1>8. bd' = [bd EXCEPT ![hwCur] = new]
  BY <1>2
<1> HIDE DEF new
<1>9. \A i \in Slot : bd'[i] = IF i = hwCur THEN new ELSE bd[i]
  BY <1>1, <1>8 DEF TypeOK
<1>10. bd' \in [Slot -> BDType]
  BY <1>1, <1>6, <1>8 DEF TypeOK, BDType
<1>11. \A j \in 0 .. count - 1 : Adv(head, j) \in Slot
  BY <1>4, AdvType
<1>12. \A j \in 0 .. count - 1 : bd'[Adv(head, j)].opaque = bd[Adv(head, j)].opaque
                                /\ bd'[Adv(head, j)].end = bd[Adv(head, j)].end
  BY <1>7, <1>9, <1>11
<1>13. hwCur' = Adv(head, count - hwLeft + 1) /\ hwCur' \in Slot
  <2>1. count - hwLeft \in 0 .. N /\ 1 \in 0 .. N /\ (count - hwLeft) + 1 <= N
    BY <1>4
  <2>2. Adv(Adv(head, count - hwLeft), 1) = Adv(head, (count - hwLeft) + 1)
    BY <2>1, <1>4, AdvAdv
  <2> QED BY <2>1, <2>2, <1>3, <1>4, AdvType
<1>14. TypeOK'
  BY <1>1, <1>3, <1>4, <1>10, <1>13 DEF TypeOK, BDType
<1>15. RingMatchesHardware'
  <2>1. count - hwLeft + 1 = count' - hwLeft'
    BY <1>3, <1>4
  <2>2. ASSUME NEW j \in 0 .. count - 1
        PROVE  bd'[Adv(head, j)].done <=> j < count - hwLeft + 1
    <3>1. Adv(head, j) = hwCur <=> j = count - hwLeft
      BY <1>4, AdvInjective
    <3>2. CASE j = count - hwLeft
      BY <3>1, <3>2, <1>4, <1>7, <1>9
    <3>3. CASE j # count - hwLeft
      <4>1. bd'[Adv(head, j)] = bd[Adv(head, j)]
        BY <3>1, <3>3, <1>9, <1>11
      <4>2. bd[Adv(head, j)].done <=> j < count - hwLeft
        BY <1>1 DEF RingMatchesHardware
      <4> QED BY <4>1, <4>2, <3>3, <1>4
    <3> QED BY <3>2, <3>3
  <2>3. hwCur' = Adv(head', count' - hwLeft')
    BY <2>1, <1>3, <1>13
  <2>4. \A j \in 0 .. count' - 1 : bd'[Adv(head', j)].done <=> j < count' - hwLeft'
    BY <2>1, <2>2, <1>3
  <2>5. tail' = Adv(head', count') /\ hwLeft' <= count'
    BY <1>1, <1>3, <1>4 DEF RingMatchesHardware
  <2> QED BY <2>3, <2>4, <2>5 DEF RingMatchesHardware
<1>16. EndIsLast' /\ InUsePosted' /\ PostedHasEnd'
  BY <1>3, <1>12 DEF RingInv, EndIsLast, InUsePosted, PostedHasEnd, BD
<1> QED BY <1>14, <1>15, <1>16 DEF RingInv

\* What the two outcomes of a poll have in common.
LEMMA ConsumeInv ==
    ASSUME RingInv, NEW k \in 1 .. count, Consume(k),
           \A j \in 0 .. k - 1 : BD(j).done
    PROVE  /\ phase' = phase
           /\ RingMatchesHardware' /\ EndIsLast'
           /\ st' \in [IO -> {"free", "posted", "done", "leaked"}] => TypeOK'
<1>1. TypeOK /\ RingMatchesHardware
  BY DEF RingInv
<1>2. /\ bd' \in [Slot -> BDType]
      /\ head' = Adv(head, k) /\ head' \in Slot
      /\ tail' = tail /\ hwCur' = hwCur /\ hwLeft' = hwLeft
      /\ count' = count - k
  BY <1>1, ConsumeDrops
<1>3. \A j \in 0 .. count - k - 1 : bd'[Adv(head', j)] = bd[Adv(head, j + k)]
  BY <1>1, ConsumeDrops
<1>4. phase' = phase
  BY DEF Consume
<1>5. /\ N \in Nat \ {0} /\ count \in 0 .. N /\ hwLeft \in 0 .. count /\ k \in 1 .. N
      /\ head \in Slot
  BY <1>1, RingAssumption DEF TypeOK, RingMatchesHardware
<1>6. hwLeft <= count - k
  <2>1. k - 1 \in 0 .. count - 1 /\ k - 1 \in 0 .. k - 1
    BY <1>5
  <2>2. k - 1 < count - hwLeft
    BY <2>1, <1>1 DEF RingMatchesHardware, BD
  <2> QED BY <2>2, <1>5
<1>7. RingMatchesHardware'
  <2>1. Adv(head', count - k) = Adv(head, count)
    <3>1. Adv(Adv(head, k), count - k) = Adv(head, k + (count - k))
      BY <1>5, AdvAdv
    <3> QED BY <3>1, <1>2, <1>5
  <2>2. Adv(head', count - k - hwLeft) = Adv(head, count - hwLeft)
    <3>1. count - k - hwLeft \in 0 .. N /\ k + (count - k - hwLeft) = count - hwLeft
      BY <1>5, <1>6
    <3>2. Adv(Adv(head, k), count - k - hwLeft) = Adv(head, k + (count - k - hwLeft))
      BY <3>1, <1>5, AdvAdv
    <3> QED BY <3>1, <3>2, <1>2
  <2>3. ASSUME NEW j \in 0 .. count - k - 1
        PROVE  bd'[Adv(head', j)].done <=> j < count - k - hwLeft
    <3>1. j + k \in 0 .. count - 1
      BY <1>5
    <3>2. bd[Adv(head, j + k)].done <=> j + k < count - hwLeft
      BY <3>1, <1>1 DEF RingMatchesHardware
    <3> QED BY <3>2, <1>3, <1>5
  <2>4. tail' = Adv(head', count') /\ hwCur' = Adv(head', count' - hwLeft') /\ hwLeft' <= count'
    BY <2>1, <2>2, <1>1, <1>2, <1>6 DEF RingMatchesHardware
  <2> QED BY <2>3, <2>4, <1>2 DEF RingMatchesHardware
<1>8. EndIsLast'
  <2> SUFFICES ASSUME NEW i \in 0 .. count - k - 1, NEW j \in 0 .. count - k - 1,
                      i < j, bd'[Adv(head', i)].end
               PROVE  bd'[Adv(head', j)].opaque # bd'[Adv(head', i)].opaque
    BY <1>2 DEF EndIsLast, BD
  <2>1. i + k \in 0 .. count - 1 /\ j + k \in 0 .. count - 1 /\ i + k < j + k
    BY <1>5
  <2>2. bd'[Adv(head', i)] = bd[Adv(head, i + k)] /\ bd'[Adv(head', j)] = bd[Adv(head, j + k)]
    BY <1>3
  <2> QED BY <2>1, <2>2 DEF RingInv, EndIsLast, BD
<1>9. ASSUME st' \in [IO -> {"free", "posted", "done", "leaked"}]
      PROVE  TypeOK'
  <2>1. count' \in 0 .. N
    BY <1>2, <1>5
  <2> QED BY <2>1, <1>1, <1>2, <1>4, <1>9 DEF TypeOK, BDType
<1> QED BY <1>4, <1>7, <1>8, <1>9

\* So does a poll that returns an I/O object,
LEMMA PollReturnInv ==
    ASSUME RingInv, NEW k \in 1 .. count, PollReturn(k), phase # "released"
    PROVE  RingInv'
<1> DEFINE io == BD(k - 1).opaque
<1>1. TypeOK /\ RingMatchesHardware
  BY DEF RingInv
<1>2. /\ \A j \in 0 .. k - 1 : BD(j).done
      /\ \A j \in 0 .. k - 2 : ~BD(j).end
      /\ BD(k - 1).end
      /\ Consume(k)
      /\ st' = [st EXCEPT ![io] = "done"]
  BY Zenon DEF PollReturn, BD
<1>3. k \in 1 .. N /\ count \in 0 .. N /\ k - 1 \in 0 .. count - 1 /\ N \in Nat
  BY <1>1, RingAssumption DEF TypeOK
<1>4. io \in IO /\ st[io] = "posted"
  BY <1>3 DEF RingInv, InUsePosted
<1> HIDE DEF io
<1>5. st' \in [IO -> {"free", "posted", "done", "leaked"}]
  BY <1>1, <1>2 DEF TypeOK
<1>6. \A x \in IO : st'[x] = IF x = io THEN "done" ELSE st[x]
  BY <1>1, <1>2 DEF TypeOK
<1>7. TypeOK' /\ RingMatchesHardware' /\ EndIsLast' /\ phase' = phase
  BY <1>2, <1>5, ConsumeInv
<1>8. /\ head' = Adv(head, k) /\ count' = count - k
      /\ \A j \in 0 .. count - k - 1 : bd'[Adv(head', j)] = bd[Adv(head, j + k)]
  BY <1>1, <1>2, ConsumeDrops
<1>9. InUsePosted'
  <2> SUFFICES ASSUME NEW j \in 0 .. count - k - 1
               PROVE  /\ bd'[Adv(head', j)].opaque \in IO
                      /\ st'[bd'[Adv(head', j)].opaque] = "posted"
    BY <1>8 DEF InUsePosted, BD
  <2>1. j + k \in 0 .. count - 1 /\ k - 1 < j + k
    BY <1>3
  <2>2. bd'[Adv(head', j)] = BD(j + k)
    BY <1>8 DEF BD
  <2>3. BD(j + k).opaque \in IO /\ st[BD(j + k).opaque] = "posted"
    BY <2>1 DEF RingInv, InUsePosted
  <2>4. BD(j + k).opaque # io
    BY <2>1, <1>2, <1>3 DEF RingInv, EndIsLast, io
  <2> QED BY <2>2, <2>3, <2>4, <1>6
<1>10. PostedHasEnd'
  <2> SUFFICES ASSUME NEW x \in IO, st'[x] = "posted"
               PROVE  \E j \in 0 .. count - k - 1 :
                          bd'[Adv(head', j)].opaque = x /\ bd'[Adv(head', j)].end
    BY <1>7, <1>8, Zenon DEF PostedHasEnd, BD
  <2>1. x # io /\ st[x] = "posted"
    BY <1>6
  <2>2. PICK j \in 0 .. count - 1 : BD(j).opaque = x /\ BD(j).end
    BY <2>1 DEF RingInv, PostedHasEnd
  <2>3. j >= k
    <3>1. j # k - 1
      BY <2>1, <2>2 DEF io
    <3>2. j \notin 0 .. k - 2
      BY <2>2, <1>2
    <3> QED BY <3>1, <3>2, <1>3
  <2>4. j - k \in 0 .. count - k - 1 /\ (j - k) + k = j
    BY <2>3, <1>3
  <2>5. bd'[Adv(head', j - k)] = BD(j)
    BY <2>4, <1>8 DEF BD
  <2> QED BY <2>2, <2>4, <2>5
<1> QED BY <1>7, <1>9, <1>10 DEF RingInv

\* and a poll that returns NULL.
LEMMA PollNullInv ==
    ASSUME RingInv, NEW k \in 1 .. count, PollNull(k), phase # "released"
    PROVE  RingInv'
<1>1. TypeOK /\ RingMatchesHardware
  BY DEF RingInv
<1>2. /\ \A j \in 0 .. k - 1 : BD(j).done /\ ~BD(j).end
      /\ Consume(k) /\ st' = st
  BY Zenon DEF PollNull, BD
<1>3. k \in 1 .. N /\ count \in 0 .. N /\ N \in Nat
  BY <1>1, RingAssumption DEF TypeOK
<1>4. st' \in [IO -> {"free", "posted", "done", "leaked"}]
  BY <1>1, <1>2 DEF TypeOK
<1>5. TypeOK' /\ RingMatchesHardware' /\ EndIsLast' /\ phase' = phase
  BY <1>2, <1>4, ConsumeInv
<1>6. /\ head' = Adv(head, k) /\ count' = count - k
      /\ \A j \in 0 .. count - k - 1 : bd'[Adv(head', j)] = bd[Adv(head, j + k)]
  BY <1>1, <1>2, ConsumeDrops
<1>7. InUsePosted'
  <2> SUFFICES ASSUME NEW j \in 0 .. count - k - 1
               PROVE  /\ bd'[Adv(head', j)].opaque \in IO
                      /\ st'[bd'[Adv(head', j)].opaque] = "posted"
    BY <1>6 DEF InUsePosted, BD
  <2>1. j + k \in 0 .. count - 1
    BY <1>3
  <2>2. bd'[Adv(head', j)] = BD(j + k)
    BY <1>6 DEF BD
  <2>3. BD(j + k).opaque \in IO /\ st[BD(j + k).opaque] = "posted"
    BY <2>1 DEF RingInv, InUsePosted
  <2> QED BY <2>2, <2>3, <1>2
<1>8. PostedHasEnd'
  <2> SUFFICES ASSUME NEW x \in IO, st'[x] = "posted"
               PROVE  \E j \in 0 .. count - k - 1 :
                          bd'[Adv(head', j)].opaque = x /\ bd'[Adv(head', j)].end
    BY <1>5, <1>6, Zenon DEF PostedHasEnd, BD
  <2>1. PICK j \in 0 .. count - 1 : BD(j).opaque = x /\ BD(j).end
    BY <1>2 DEF RingInv, PostedHasEnd
  <2>2. j \notin 0 .. k - 1
    BY <2>1, <1>2
  <2>3. j - k \in 0 .. count - k - 1 /\ (j - k) + k = j
    BY <2>2, <1>3
  <2>4. bd'[Adv(head', j - k)] = BD(j)
    BY <2>3, <1>6 DEF BD
  <2> QED BY <2>1, <2>3, <2>4
<1> QED BY <1>5, <1>7, <1>8 DEF RingInv

\* So do rte_axi_dma_stop_channel,
LEMMA StopInv == ASSUME RingInv, rte_axi_dma_stop_channel PROVE RingInv'
<1>1. /\ phase = "active" /\ phase' = "paused"
      /\ bd' = bd /\ head' = head /\ tail' = tail /\ count' = count
      /\ hwCur' = hwCur /\ hwLeft' = hwLeft /\ st' = st
  BY DEF rte_axi_dma_stop_channel, ringVars, hwVars, ioVars
<1>2. TypeOK' /\ RingMatchesHardware' /\ EndIsLast'
  BY <1>1 DEF RingInv, TypeOK, RingMatchesHardware, EndIsLast, BD
<1>3. InUsePosted' /\ PostedHasEnd'
  BY <1>1 DEF RingInv, InUsePosted, PostedHasEnd, BD
<1> QED BY <1>2, <1>3 DEF RingInv

\* the reset of the pool when a compute channel is released,
LEMMA PoolResetInv == ASSUME RingInv, PoolReset PROVE RingInv'
<1>1. /\ phase' = "released" /\ st' = [io \in IO |-> "free"]
      /\ bd' = bd /\ head' = head /\ tail' = tail /\ count' = count
      /\ hwCur' = hwCur /\ hwLeft' = hwLeft
  BY DEF PoolReset, ringVars, hwVars
<1>2. TypeOK' /\ RingMatchesHardware' /\ EndIsLast'
  BY <1>1 DEF RingInv, TypeOK, RingMatchesHardware, EndIsLast, BD
<1>3. InUsePosted' /\ PostedHasEnd'
  BY <1>1 DEF InUsePosted, PostedHasEnd
<1> QED BY <1>2, <1>3 DEF RingInv

\* and rte_axi_dma_enable_channel, which starts from an empty ring.
LEMMA EnableInv == ASSUME RingInv, rte_axi_dma_enable_channel PROVE RingInv'
<1>1. phase = "released" /\ phase' = "active" /\ st' = st
  BY DEF rte_axi_dma_enable_channel, ioVars
<1>2. \A io \in IO : st[io] # "posted"
  BY <1>1 DEF RingInv, PostedHasEnd
<1>3. CASE head = tail /\ count = 0 /\ hwLeft = 0
  <2>1. /\ bd' = bd /\ head' = head /\ tail' = tail /\ count' = count /\ count' = 0
        /\ hwCur' = hwCur /\ hwLeft' = hwLeft
    BY <1>3 DEF rte_axi_dma_enable_channel, ringVars, hwVars
  <2>2. TypeOK' /\ RingMatchesHardware' /\ EndIsLast'
    BY <1>1, <2>1 DEF RingInv, TypeOK, RingMatchesHardware, EndIsLast, BD
  <2>3. InUsePosted' /\ PostedHasEnd'
    BY <1>1, <1>2, <2>1 DEF InUsePosted, PostedHasEnd
  <2> QED BY <2>2, <2>3 DEF RingInv
<1>4. CASE ~(head = tail /\ count = 0 /\ hwLeft = 0)
  <2>1. /\ head' = 0 /\ tail' = 0 /\ count' = 0 /\ hwCur' = 0 /\ hwLeft' = 0
        /\ bd' = IF Dir = "tx" THEN [bd EXCEPT ![0].done = FALSE] ELSE bd
    BY <1>4 DEF rte_axi_dma_enable_channel
  <2>2. 0 \in Slot /\ Adv(0, 0) = 0 /\ N \in Nat \ {0}
    BY AdvLinear, RingAssumption DEF Slot
  <2>3. TypeOK'
    <3>1. TypeOK
      BY DEF RingInv
    <3>2. bd' \in [Slot -> BDType]
      BY <3>1, <2>1, <2>2 DEF TypeOK, BDType
    <3>3. count' \in 0 .. N /\ hwLeft' \in 0 .. N
      BY <2>1, <2>2
    <3> QED BY <3>1, <3>2, <3>3, <1>1, <2>1, <2>2 DEF TypeOK, BDType
  <2>4. RingMatchesHardware' /\ EndIsLast'
    BY <2>1, <2>2 DEF RingMatchesHardware, EndIsLast
  <2>5. InUsePosted' /\ PostedHasEnd'
    BY <1>1, <1>2, <2>1 DEF InUsePosted, PostedHasEnd
  <2> QED BY <2>3, <2>4, <2>5 DEF RingInv
<1> QED BY <1>3, <1>4

\* Every step preserves the invariant.
LEMMA NextInv == ASSUME ListsFit, ChanKnown, RingInv, [Next]_vars PROVE RingInv'
<1> USE DEF RingInv
<1>0. st \in [IO -> {"free", "posted", "done", "leaked"}]
  BY DEF TypeOK
<1> HIDE DEF RingInv
<1>1. ASSUME NEW io \in IO, NEW lens \in IovLists, NEW last_data \in BOOLEAN,
             Submit(io, lens, last_data)
      PROVE  RingInv'
  BY <1>1, SubmitInv
<1>2. ASSUME NEW io \in IO, SubmitFault(io)
      PROVE  RingInv'
  <2>1. /\ st[io] = "free" /\ UNCHANGED <<ringVars, hwVars, phase>>
        /\ st' = [st EXCEPT ![io] = IF Dir = "rx" THEN "free" ELSE "leaked"]
    BY <1>2 DEF SubmitFault
  <2>2. st' \in [IO -> {"free", "posted", "done", "leaked"}]
        /\ \A x \in IO : st'[x] = "posted" <=> st[x] = "posted"
    BY <2>1, <1>0
  <2> QED BY <2>1, <2>2, IoStepInv
<1>3. CASE HwComplete
  BY <1>3, HwCompleteInv
<1>4. CASE Poll
  <2>1. phase # "released"
    BY <1>4 DEF Poll
  <2>2. PICK k \in 1 .. count : PollReturn(k) \/ PollNull(k)
    BY <1>4 DEF Poll
  <2> QED BY <2>1, <2>2, PollReturnInv, PollNullInv
<1>5. ASSUME NEW io \in IO, spdk_axi_dma_io_free(io)
      PROVE  RingInv'
  <2>1. /\ st[io] = "done" /\ UNCHANGED <<ringVars, hwVars, phase>>
        /\ st' = [st EXCEPT ![io] = "free"]
    BY <1>5 DEF spdk_axi_dma_io_free
  <2>2. st' \in [IO -> {"free", "posted", "done", "leaked"}]
        /\ \A x \in IO : st'[x] = "posted" <=> st[x] = "posted"
    BY <2>1, <1>0
  <2> QED BY <2>1, <2>2, IoStepInv
<1>6. CASE rte_axi_dma_stop_channel
  BY <1>6, StopInv
<1>7. CASE PoolReset
  BY <1>7, PoolResetInv
<1>8. CASE rte_axi_dma_enable_channel
  BY <1>8, EnableInv
<1>9. CASE UNCHANGED vars
  BY <1>0, <1>9, IoStepInv DEF vars, ioVars
<1> QED BY <1>1, <1>2, <1>3, <1>4, <1>5, <1>6, <1>7, <1>8, <1>9 DEF Next

-----------------------------------------------------------------------------
\* The inductive invariant implies the properties the runs check.
LEMMA InvImplies == RingInv => ReturnedAfterFinal /\ NeverLost
<1> SUFFICES ASSUME RingInv PROVE ReturnedAfterFinal /\ NeverLost
  OBVIOUS
<1>1. ReturnedAfterFinal
  BY DEF RingInv, InUsePosted, ReturnedAfterFinal, Region, BD
<1>2. ASSUME NEW io \in IO, st[io] = "posted"
      PROVE  \E i \in Region : /\ bd[i].opaque = io /\ bd[i].end
                               /\ \A j \in Region : bd[j].opaque = io /\ bd[j].end => j = i
  <2>0. count \in Nat
    BY RingAssumption DEF RingInv, TypeOK
  <2>1. PICK a \in 0 .. count - 1 : BD(a).opaque = io /\ BD(a).end
    BY <1>2 DEF RingInv, PostedHasEnd
  <2>2. ASSUME NEW b \in 0 .. count - 1, BD(b).opaque = io, BD(b).end
        PROVE  b = a
    <3>1. ~(a < b) /\ ~(b < a)
      BY <2>1, <2>2 DEF RingInv, EndIsLast
    <3> QED BY <3>1, <2>0
  <2>3. Adv(head, a) \in Region
    BY DEF Region
  <2>4. \A j \in Region : bd[j].opaque = io /\ bd[j].end => j = Adv(head, a)
    BY <2>2 DEF Region, BD
  <2> QED BY <2>1, <2>3, <2>4 DEF BD
<1> QED BY <1>1, <1>2 DEF NeverLost

\* The kind of a channel never changes.
LEMMA InitChan == Init => ChanKnown
BY DEF Init, ChanKnown
\* Every step keeps a channel on record.
LEMMA NextChan == ChanKnown /\ [Next]_vars => ChanKnown'
<1>1. [Next]_vars => chan' = chan
  BY DEF Next, Submit, SubmitFault, HwComplete, Poll, spdk_axi_dma_io_free,
         rte_axi_dma_stop_channel, PoolReset, rte_axi_dma_enable_channel, vars
<1> QED BY <1>1 DEF ChanKnown

\* Type correctness of a channel and the agreement of its ring with the hardware,
\* for every ring size: rte_axi_dma_poll_complete, add_buffer, send_seg and
\* enable_channel keep head, tail and count in step with curdesc and taildesc.
THEOREM RingConsistent ==
    ASSUME ListsFit PROVE Spec => []TypeOK /\ []RingMatchesHardware
<1>1. ChanKnown /\ RingInv /\ [Next]_vars => RingInv'
  BY NextInv
<1>2. RingInv => TypeOK /\ RingMatchesHardware
  BY DEF RingInv
<1> QED BY InitInv, InitChan, NextChan, <1>1, <1>2, PTL DEF Spec

\* poll_complete returns an I/O object only after its final descriptor, so that no
\* BD in use names an object that was returned or is back in the pool.
THEOREM ReturnOnlyAfterFinal ==
    ASSUME ListsFit PROVE Spec => []ReturnedAfterFinal
<1>1. ChanKnown /\ RingInv /\ [Next]_vars => RingInv'
  BY NextInv
<1> QED BY InitInv, InitChan, NextChan, <1>1, InvImplies, PTL DEF Spec

\* A submission that add_buffer or send_seg accepted keeps exactly one BD with
\* request_end until poll_complete returns it or the channel is released.
THEOREM NoSubmissionLost ==
    ASSUME ListsFit PROVE Spec => []NeverLost
<1>1. ChanKnown /\ RingInv /\ [Next]_vars => RingInv'
  BY NextInv
<1> QED BY InitInv, InitChan, NextChan, <1>1, InvImplies, PTL DEF Spec
=============================================================================
