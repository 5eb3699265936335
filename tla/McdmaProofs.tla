----------------------------- MODULE McdmaProofs -----------------------------
(****************************************************************************)
(* Proofs about McdmaTransport: request objects, receive entries and copy   *)
(* buffers are conserved, and every request has one callback to come.       *)
(****************************************************************************)
EXTENDS McdmaTransport, FiniteSetTheorems, TLAPS

\* Most leaves are first-order reasoning over sets and functions, which Zenon finds at
\* once; the leaves with arithmetic, records or sequences name SMT.
USE Zenon

(* Sequences without repetition, by the set of their elements.              *)
Elems(q) == {q[i] : i \in DOMAIN q}
Distinct(q) == \A i, j \in DOMAIN q : q[i] = q[j] => i = j
Reqs(m) == {m[i].req : i \in DOMAIN m}
DistinctReqs(m) == \A i, j \in DOMAIN m : m[i].req = m[j].req => i = j

Kind == {"mgmt", "plain", "rw", "first", "second", "slm2", "slmN", "fill", "copy3",
         "exec0", "exec2", "execN"}
Packet == [tag : Tag, kind : Kind, n : 0..DataPkts]
Request == [st : States, tag : Tag \cup {None}, kind : Kind \cup {None},
            fsm : {"NON_OP", "FETCH_PRP", "FETCH_DATA", "END_FETCH_DATA",
                   "OPERATOR_SOURCE_RANGES"},
            left : Nat]
Message == [to : {"handc", "compute"}, req : Slot]

TypeInv ==
    /\ qp \in {"admin", "io"} /\ host \in [Tag -> Kind \cup {None}] /\ cqe \in [Tag -> Nat]
    /\ wire \in Seq(Packet) /\ inc \in Seq(Packet) /\ recvs \in Nat
    /\ free \in Seq(Slot) /\ cur \in Slot \cup {None} /\ first \in Slot \cup {None}
    /\ rq \in [Slot -> Request]
    /\ hq \in Seq(Slot) /\ ring \in Seq(Slot) /\ msgs \in Seq(Message)
    /\ bdev \in SUBSET Slot /\ comp \in SUBSET Slot /\ tx \in SUBSET Slot
    /\ refused \in SUBSET Slot /\ bufs \in Int

(* Where a request is: its place decides its state.                         *)
Busy(s) == s \in Elems(hq) \/ s \in Elems(ring) \/ s \in Reqs(msgs) \/ s \in bdev \/ s \in comp
OnePlace(s) ==
    /\ s \in Elems(hq) => s \notin Elems(ring) /\ s \notin Reqs(msgs) /\ s \notin bdev /\ s \notin comp
    /\ s \in Elems(ring) => s \notin Reqs(msgs) /\ s \notin bdev /\ s \notin comp
    /\ s \in Reqs(msgs) => s \notin bdev /\ s \notin comp
    /\ s \in bdev => s \notin comp
SlotInv(s) ==
    /\ OnePlace(s)
    /\ Busy(s) <=> rq[s].st = "EXECUTING" /\ s \notin refused
    /\ s \in tx <=> rq[s].st = "COMPLETING" /\ s \notin refused
    /\ s \in refused => rq[s].st \in {"EXECUTING", "COMPLETING"}
    /\ rq[s].st = "READY_TO_EXECUTE" <=> first = s
    /\ rq[s].st = "READY_TO_EXECUTE" => rq[s].kind = "first"
    /\ rq[s].st # "NEW"
    /\ s \in Elems(free) <=> rq[s].st = "FREE"
    /\ IF rq[s].st = "FREE" THEN rq[s].tag = None ELSE rq[s].tag \in Tag
    /\ rq[s].left > 0 <=> rq[s].kind = "copy3" /\ s \in bdev
    /\ rq[s].st = "TRANSFERRING" => s = cur /\ rq[s].kind = "mgmt"
SeqInv == Distinct(free) /\ Distinct(hq) /\ Distinct(ring) /\ DistinctReqs(msgs)

Copying == {s \in Slot : rq[s].left > 0}
SumInv ==
    /\ recvs + Len(inc) + Cardinality(Live) = Recvs
    /\ bufs + 2 * Cardinality(Copying) = Bufs

Inv == TypeInv /\ SeqInv /\ (\A s \in Slot : SlotInv(s)) /\ SumInv

-----------------------------------------------------------------------------
(* Sequences without repetition.                                            *)

\* An element that is not there yet goes to the end of a queue.
LEMMA AppendIs ==
    ASSUME NEW S, NEW q \in Seq(S), NEW x \in S
    PROVE  /\ Append(q, x) \in Seq(S) /\ Elems(Append(q, x)) = Elems(q) \cup {x}
           /\ Distinct(q) /\ x \notin Elems(q) => Distinct(Append(q, x))
<1>1. /\ Len(q) \in Nat /\ DOMAIN q = 1..Len(q) /\ DOMAIN Append(q, x) = 1..(Len(q) + 1)
      /\ \A i \in 1..Len(q) : Append(q, x)[i] = q[i]
      /\ Append(q, x)[Len(q) + 1] = x
  BY SMT
<1>2. Elems(Append(q, x)) = Elems(q) \cup {x}
  <2>1. \A i \in 1..(Len(q) + 1) : i \in 1..Len(q) \/ i = Len(q) + 1
    BY <1>1, SMT
  <2>. QED BY <1>1, <2>1, SMT DEF Elems
<1>3. ASSUME Distinct(q), x \notin Elems(q) PROVE Distinct(Append(q, x))
  BY <1>1, <1>3, SMT DEF Elems, Distinct
<1>. QED BY <1>2, <1>3, SMT

\* The head leaves a queue.
LEMMA TailIs ==
    ASSUME NEW S, NEW q \in Seq(S), q # <<>>, Distinct(q)
    PROVE  /\ Head(q) \in S /\ Tail(q) \in Seq(S) /\ Head(q) \in Elems(q)
           /\ Elems(Tail(q)) = Elems(q) \ {Head(q)} /\ Distinct(Tail(q))
<1>1. /\ Len(q) \in Nat /\ Len(q) >= 1 /\ DOMAIN q = 1..Len(q) /\ Head(q) = q[1]
      /\ Tail(q) \in Seq(S) /\ Head(q) \in S /\ DOMAIN Tail(q) = 1..(Len(q) - 1)
      /\ \A i \in 1..(Len(q) - 1) : Tail(q)[i] = q[i + 1]
  BY SMT
<1>2. Distinct(Tail(q))
  BY <1>1, SMT DEF Distinct
<1>3. Head(q) \in Elems(q)
  BY <1>1, SMT DEF Elems
<1>4. ASSUME NEW x \in Elems(Tail(q)) PROVE x \in Elems(q) \ {Head(q)}
  BY <1>1, SMT DEF Elems, Distinct
<1>5. ASSUME NEW x \in Elems(q), x # Head(q) PROVE x \in Elems(Tail(q))
  <2>1. PICK i \in 1..Len(q) : q[i] = x
    BY <1>1 DEF Elems
  <2>2. i - 1 \in 1..(Len(q) - 1) /\ Tail(q)[i - 1] = x
    BY <1>1, <1>5, <2>1, SMT
  <2>. QED BY <1>1, <2>2 DEF Elems
<1>. QED BY <1>1, <1>2, <1>3, <1>4, <1>5

\* An element that is not there yet goes to the front.
LEMMA PushIs ==
    ASSUME NEW S, NEW q \in Seq(S), NEW x \in S, x \notin Elems(q), Distinct(q)
    PROVE  /\ <<x>> \o q \in Seq(S) /\ Elems(<<x>> \o q) = Elems(q) \cup {x}
           /\ Distinct(<<x>> \o q)
<1>1. /\ Len(q) \in Nat /\ DOMAIN q = 1..Len(q) /\ DOMAIN (<<x>> \o q) = 1..(Len(q) + 1)
      /\ \A i \in 2..(Len(q) + 1) : (<<x>> \o q)[i] = q[i - 1]
      /\ (<<x>> \o q)[1] = x /\ <<x>> \o q \in Seq(S)
  BY SMT
<1>2. Distinct(<<x>> \o q)
  BY <1>1, SMT DEF Elems, Distinct
<1>3. ASSUME NEW y \in Elems(q) PROVE y \in Elems(<<x>> \o q)
  <2>1. PICK i \in 1..Len(q) : q[i] = y
    BY <1>1 DEF Elems
  <2>2. i + 1 \in 1..(Len(q) + 1) /\ (<<x>> \o q)[i + 1] = y
    BY <1>1, <2>1, SMT
  <2>. QED BY <1>1, <2>2 DEF Elems
<1>4. x \in Elems(<<x>> \o q)
  BY <1>1, SMT DEF Elems
<1>5. ASSUME NEW y \in Elems(<<x>> \o q), y # x PROVE y \in Elems(q)
  BY <1>1, <1>5, SMT DEF Elems
<1>. QED BY <1>1, <1>2, <1>3, <1>4, <1>5

\* The same for the requests of a queue of messages.
LEMMA MessageAppended ==
    ASSUME NEW m \in Seq(Message), NEW x \in Message
    PROVE  /\ Append(m, x) \in Seq(Message) /\ Reqs(Append(m, x)) = Reqs(m) \cup {x.req}
           /\ DistinctReqs(m) /\ x.req \notin Reqs(m) => DistinctReqs(Append(m, x))
<1>1. /\ Len(m) \in Nat /\ DOMAIN m = 1..Len(m) /\ DOMAIN Append(m, x) = 1..(Len(m) + 1)
      /\ \A i \in 1..Len(m) : Append(m, x)[i] = m[i]
      /\ Append(m, x)[Len(m) + 1] = x
  BY SMT
<1>2. Reqs(Append(m, x)) = Reqs(m) \cup {x.req}
  <2>1. \A i \in 1..(Len(m) + 1) : i \in 1..Len(m) \/ i = Len(m) + 1
    BY <1>1, SMT
  <2>. QED BY <1>1, <2>1, SMT DEF Reqs
<1>3. ASSUME DistinctReqs(m), x.req \notin Reqs(m) PROVE DistinctReqs(Append(m, x))
  BY <1>1, <1>3, SMT DEF Reqs, DistinctReqs
<1>. QED BY <1>2, <1>3, SMT

\* And when the first message is taken.
LEMMA MessageTaken ==
    ASSUME NEW m \in Seq(Message), m # <<>>, DistinctReqs(m)
    PROVE  /\ Head(m) \in Message /\ Tail(m) \in Seq(Message) /\ Head(m).req \in Reqs(m)
           /\ Reqs(Tail(m)) = Reqs(m) \ {Head(m).req} /\ DistinctReqs(Tail(m))
<1>1. /\ Len(m) \in Nat /\ Len(m) >= 1 /\ DOMAIN m = 1..Len(m) /\ Head(m) = m[1]
      /\ Tail(m) \in Seq(Message) /\ Head(m) \in Message /\ DOMAIN Tail(m) = 1..(Len(m) - 1)
      /\ \A i \in 1..(Len(m) - 1) : Tail(m)[i] = m[i + 1]
  BY SMT
<1>2. DistinctReqs(Tail(m))
  BY <1>1, SMT DEF DistinctReqs
<1>3. Head(m).req \in Reqs(m)
  BY <1>1, SMT DEF Reqs
<1>4. ASSUME NEW x \in Reqs(Tail(m)) PROVE x \in Reqs(m) \ {Head(m).req}
  BY <1>1, SMT DEF Reqs, DistinctReqs
<1>5. ASSUME NEW x \in Reqs(m), x # Head(m).req PROVE x \in Reqs(Tail(m))
  <2>1. PICK i \in 1..Len(m) : m[i].req = x
    BY <1>1 DEF Reqs
  <2>2. i - 1 \in 1..(Len(m) - 1) /\ Tail(m)[i - 1].req = x
    BY <1>1, <1>5, <2>1, SMT
  <2>. QED BY <1>1, <2>2 DEF Reqs
<1>. QED BY <1>1, <1>2, <1>3, <1>4, <1>5

-----------------------------------------------------------------------------
(* A pass of nvmf_mcdma_request_process.                                    *)

\* What a pass leaves: the requests A are answered, with or without success, the
\* others are as r has them; H goes to the copy engine, C to the scheduler, and the
\* block device has b.
Answered(x, y) == x.st = "COMPLETING" /\ x.tag = y.tag /\ x.kind = None /\ x.left = 0
Settled(r, H, b, C, A) ==
    /\ rq' \in [Slot -> Request]
    /\ \A s \in Slot : IF s \in A THEN Answered(rq'[s], r[s]) ELSE rq'[s] = r[s]
    /\ hq' \in Seq(Slot) /\ Distinct(hq') /\ Elems(hq') = Elems(hq) \cup H
    /\ bdev' = b /\ comp' = comp \cup C
    /\ tx' \in SUBSET Slot /\ refused' \in SUBSET Slot
    /\ \A s \in Slot : s \in tx' \/ s \in refused' <=> s \in tx \/ s \in refused \/ s \in A
    /\ \A s \in Slot \ A : (s \in tx' <=> s \in tx) /\ (s \in refused' <=> s \in refused)
    /\ \A s \in A : s \notin tx /\ s \notin refused => ~(s \in tx' /\ s \in refused')
    /\ cqe' \in [Tag -> Nat]

\* The Slots are finitely many.
LEMMA SlotsFinite == ASSUME NEW S \in SUBSET Slot PROVE IsFiniteSet(S) /\ Cardinality(S) \in Nat
<1>1. 1 \in Int /\ Depth \in Int
  BY McdmaConstants, SMT
<1>2. IsFiniteSet(Slot)
  BY <1>1, FS_Interval DEF Slot
<1>. QED BY <1>2, FS_Subset, FS_CardinalityType

\* The empty record is a request.
LEMMA NoReqIs ==
    /\ NoReq \in Request
    /\ \A t \in Tag \cup {None} :
          LET x == [NoReq EXCEPT !.st = "COMPLETING", !.tag = t] IN
          x \in Request /\ x.st = "COMPLETING" /\ x.tag = t /\ x.kind = None /\ x.left = 0
<1>1. NoReq \in Request
  BY DEF NoReq, Request, States
<1>2. ASSUME NEW t \in Tag \cup {None}
      PROVE  LET x == [NoReq EXCEPT !.st = "COMPLETING", !.tag = t] IN
             x \in Request /\ x.st = "COMPLETING" /\ x.tag = t /\ x.kind = None /\ x.left = 0
  <2>. DEFINE y == [NoReq EXCEPT !.st = "COMPLETING"]
  <2>1. "COMPLETING" \in States
    BY DEF States
  <2>2. y \in Request /\ y.st = "COMPLETING" /\ y.kind = None /\ y.left = 0
    BY <1>1, <2>1 DEF NoReq, Request
  <2>. HIDE DEF y
  <2>3. /\ [y EXCEPT !.tag = t] \in Request
        /\ [y EXCEPT !.tag = t].st = "COMPLETING" /\ [y EXCEPT !.tag = t].tag = t
        /\ [y EXCEPT !.tag = t].kind = None /\ [y EXCEPT !.tag = t].left = 0
    BY <2>2 DEF Request
  <2>. QED BY <2>3 DEF y
<1>. QED BY <1>1, <1>2

\* What Pass says, without its choice of the responses that were sent.
LEMMA PassIs ==
    ASSUME hq \in Seq(Slot), Distinct(hq), tx \in SUBSET Slot, refused \in SUBSET Slot,
           cqe \in [Tag -> Nat],
           NEW r \in [Slot -> Request], NEW h, NEW H, NEW b, NEW c, NEW A \in SUBSET Slot,
           \/ h = <<>> /\ H = {}
           \/ \E s \in Slot : h = <<s>> /\ H = {s} /\ s \notin Elems(hq),
           Pass(r, h, b, c, A)
    PROVE  Settled(r, H, b, c, A)
<1>1. PICK sent \in SUBSET A :
         /\ rq' = [s \in Slot |-> IF s \in A THEN [NoReq EXCEPT !.st = "COMPLETING", !.tag = r[s].tag]
                              ELSE r[s]]
         /\ tx' = tx \cup sent /\ refused' = refused \cup (A \ sent)
         /\ cqe' = [t \in Tag |-> cqe[t] + Cardinality({s \in sent : r[s].tag = t})]
         /\ hq' = hq \o h /\ bdev' = b /\ comp' = comp \cup c
  BY DEF Pass
<1>2. rq' \in [Slot -> Request] /\
      \A s \in Slot : IF s \in A THEN Answered(rq'[s], r[s]) ELSE rq'[s] = r[s]
  <2>1. \A s \in Slot : r[s].tag \in Tag \cup {None} /\ r[s] \in Request
    BY DEF Request
  <2>2. \A s \in Slot : rq'[s] \in Request /\ (s \notin A => rq'[s] = r[s])
    BY <1>1, <2>1, NoReqIs
  <2>3. ASSUME NEW s \in A PROVE Answered(rq'[s], r[s])
    <3>1. rq'[s] = [NoReq EXCEPT !.st = "COMPLETING", !.tag = r[s].tag] /\ r[s].tag \in Tag \cup {None}
      BY <1>1, <2>1
    <3>. QED BY <3>1, NoReqIs DEF Answered
  <2>. QED BY <1>1, <2>2, <2>3
<1>3. hq' \in Seq(Slot) /\ Distinct(hq') /\ Elems(hq') = Elems(hq) \cup H
  <2>0. hq' = hq \o h
    BY <1>1
  <2>1. CASE h = <<>> /\ H = {}
    <3>1. hq' = hq
      BY <2>0, <2>1, SMT
    <3>. QED BY <2>1, <3>1
  <2>2. ASSUME NEW s \in Slot, h = <<s>>, H = {s}, s \notin Elems(hq)
        PROVE  hq' \in Seq(Slot) /\ Distinct(hq') /\ Elems(hq') = Elems(hq) \cup H
    <3>1. hq' = Append(hq, s)
      BY <2>0, <2>2, SMT
    <3>. QED BY <2>2, <3>1, AppendIs, SMT
  <2>. QED BY <2>1, <2>2
<1>4. cqe' \in [Tag -> Nat]
  <2>1. \A t \in Tag : Cardinality({s \in sent : r[s].tag = t}) \in Nat
    BY SlotsFinite
  <2>2. cqe' = [t \in Tag |-> cqe[t] + Cardinality({s \in sent : r[s].tag = t})]
    BY <1>1
  <2>. QED BY <2>1, <2>2, SMT
<1>5. tx' = tx \cup sent /\ refused' = refused \cup (A \ sent) /\ bdev' = b /\ comp' = comp \cup c
  BY <1>1
<1>. QED BY <1>2, <1>3, <1>4, <1>5 DEF Settled

-----------------------------------------------------------------------------
(* Packets and the host.                                                    *)
SlotInvs == \A s \in Slot : SlotInv(s)

\* A step that moves no request.
LEMMA SlotsKept ==
    ASSUME SeqInv, SlotInvs, UNCHANGED <<free, cur, rq, first, hq, ring, msgs, bdev, comp, tx, refused>>
    PROVE  SeqInv' /\ SlotInvs' /\ Live' = Live /\ Copying' = Copying
<1>1. SeqInv'
  BY DEF SeqInv
<1>2. SlotInvs'
  BY SMT DEF SlotInvs, SlotInv, OnePlace, Busy
<1>. QED BY <1>1, <1>2 DEF Live, Copying

\* A packet takes an entry of recv_pool with it, or is dropped.
LEMMA PacketArrives ==
    ASSUME inc \in Seq(Packet), recvs \in Nat, NEW p \in Packet, QeRecvCmpl(p)
    PROVE  inc' \in Seq(Packet) /\ recvs' \in Nat /\ recvs' + Len(inc') = recvs + Len(inc)
<1>1. CASE recvs > 0
  <2>1. recvs' = recvs - 1 /\ inc' = Append(inc, p)
    BY <1>1 DEF QeRecvCmpl
  <2>. QED BY <1>1, <2>1, SMT
<1>2. CASE ~(recvs > 0)
  BY <1>2 DEF QeRecvCmpl
<1>. QED BY <1>1, <1>2

\* The host and the wire keep the invariant.
LEMMA HostKeeps ==
    ASSUME Inv, (\E t \in Tag : HostSend(t) \/ HostReceive(t)) \/ DataArrives
    PROVE  Inv'
<1>. USE DEF Inv
<1>1. SeqInv' /\ SlotInvs' /\ Live' = Live /\ Copying' = Copying
  <2>1. UNCHANGED <<free, cur, rq, first, hq, ring, msgs, bdev, comp, tx, refused>>
    BY DEF HostSend, HostReceive, DataArrives
  <2>. QED BY <2>1, SlotsKept DEF SlotInvs
<1>2. /\ UNCHANGED <<qp, free, cur, rq, first, hq, ring, msgs, bdev, comp, tx, refused, bufs>>
  BY DEF HostSend, HostReceive, DataArrives
<1>3. Cardinality(Live) \in Nat /\ Cardinality(Copying) \in Nat
  BY SlotsFinite DEF Live, Copying
<1>4. ASSUME NEW t \in Tag, HostSend(t) PROVE Inv'
  <2>1. PICK k \in Kinds(qp) :
           /\ host' = [host EXCEPT ![t] = k]
           /\ wire' = IF HasData(k) THEN [n \in 1..DataPkts |-> [tag |-> t, kind |-> k, n |-> n]]
                      ELSE <<>>
           /\ QeRecvCmpl([tag |-> t, kind |-> k, n |-> 0])
    BY <1>4 DEF HostSend
  <2>2. k \in Kind
    BY DEF Kinds, Kind, TypeInv
  <2>3. \A n \in 0..DataPkts : [tag |-> t, kind |-> k, n |-> n] \in Packet
    BY <2>2 DEF Packet
  <2>4. [tag |-> t, kind |-> k, n |-> 0] \in Packet
    BY <2>3, McdmaConstants, SMT
  <2>5. wire' \in Seq(Packet)
    <3>1. \A n \in 1..DataPkts : [tag |-> t, kind |-> k, n |-> n] \in Packet
      BY <2>3, McdmaConstants, SMT
    <3>. QED BY <2>1, <3>1, McdmaConstants, SMT
  <2>6. inc' \in Seq(Packet) /\ recvs' \in Nat /\ recvs' + Len(inc') = recvs + Len(inc)
    BY <2>1, <2>4, PacketArrives DEF TypeInv
  <2>7. host' \in [Tag -> Kind \cup {None}] /\ cqe' = cqe
    BY <1>4, <2>1, <2>2 DEF TypeInv, HostSend
  <2>8. TypeInv'
    BY <1>2, <2>5, <2>6, <2>7 DEF TypeInv
  <2>9. SumInv'
    BY <1>1, <1>2, <1>3, <2>6 DEF SumInv, TypeInv
  <2>. QED BY <1>1, <2>8, <2>9 DEF SlotInvs
<1>5. ASSUME DataArrives PROVE Inv'
  <2>1. wire # <<>> /\ wire' = Tail(wire) /\ QeRecvCmpl(Head(wire)) /\ UNCHANGED <<host, cqe>>
    BY <1>5 DEF DataArrives
  <2>2. Head(wire) \in Packet /\ wire' \in Seq(Packet)
    BY <2>1, SMT DEF TypeInv
  <2>3. inc' \in Seq(Packet) /\ recvs' \in Nat /\ recvs' + Len(inc') = recvs + Len(inc)
    BY <2>1, <2>2, PacketArrives DEF TypeInv
  <2>4. TypeInv'
    BY <1>2, <2>1, <2>2, <2>3 DEF TypeInv
  <2>5. SumInv'
    BY <1>1, <1>2, <1>3, <2>3 DEF SumInv, TypeInv
  <2>. QED BY <1>1, <2>4, <2>5 DEF SlotInvs
<1>6. ASSUME NEW t \in Tag, HostReceive(t) PROVE Inv'
  <2>1. /\ cqe[t] > 0 /\ cqe' = [cqe EXCEPT ![t] = cqe[t] - 1] /\ host' = [host EXCEPT ![t] = None]
        /\ UNCHANGED <<wire, inc, recvs>>
    BY <1>6 DEF HostReceive
  <2>2. TypeInv'
    BY <1>2, <2>1, SMT DEF TypeInv
  <2>3. SumInv'
    BY <1>1, <1>2, <2>1 DEF SumInv
  <2>. QED BY <1>1, <2>2, <2>3 DEF SlotInvs
<1>. QED BY <1>4, <1>5, <1>6

-----------------------------------------------------------------------------
(* The copy engine, the scheduler and the send channel.                     *)

\* The counts are numbers.
LEMMA CountsAre == Cardinality(Live) \in Nat /\ Cardinality(Copying) \in Nat
BY SlotsFinite DEF Live, Copying

\* A copy goes to the DMA channel, or is refused by it.
LEMMA HandcOpKeeps == ASSUME Inv, ComputeHandcOp PROVE Inv'
<1>. USE DEF Inv
<1>. DEFINE s == Head(hq)
<1>1. /\ hq # <<>> /\ hq' = Tail(hq)
      /\ \/ ring' = Append(ring, s) /\ refused' = refused
         \/ refused' = refused \cup {s} /\ ring' = ring
      /\ UNCHANGED <<qp, host, wire, inc, recvs, free, cur, rq, first, msgs, bdev, comp, tx, cqe, bufs>>
  BY DEF ComputeHandcOp
<1>2. /\ s \in Slot /\ Tail(hq) \in Seq(Slot) /\ s \in Elems(hq)
      /\ Elems(Tail(hq)) = Elems(hq) \ {s} /\ Distinct(Tail(hq))
  BY <1>1, TailIs DEF TypeInv, SeqInv
<1>3. s \notin Elems(ring)
  BY <1>2 DEF SlotInv, OnePlace
<1>. HIDE DEF s
<1>4. /\ ring' \in Seq(Slot) /\ Distinct(ring') /\ refused' \in SUBSET Slot
      /\ \/ Elems(ring') = Elems(ring) \cup {s} /\ refused' = refused
         \/ Elems(ring') = Elems(ring) /\ refused' = refused \cup {s}
  <2>1. ring \in Seq(Slot) /\ Distinct(ring) /\ refused \in SUBSET Slot
    BY DEF TypeInv, SeqInv
  <2>2. /\ Append(ring, s) \in Seq(Slot) /\ Elems(Append(ring, s)) = Elems(ring) \cup {s}
        /\ Distinct(Append(ring, s))
    BY <1>2, <1>3, <2>1, AppendIs, SMT
  <2>3. \/ ring' = Append(ring, s) /\ refused' = refused
        \/ refused' = refused \cup {s} /\ ring' = ring
    BY <1>1
  <2>. QED BY <1>2, <2>1, <2>2, <2>3
<1>5. hq' \in Seq(Slot) /\ Distinct(hq') /\ Elems(hq') = Elems(hq) \ {s}
  BY <1>1, <1>2
<1>6. TypeInv' /\ SeqInv'
  BY <1>1, <1>4, <1>5 DEF TypeInv, SeqInv
<1>7. ASSUME NEW x \in Slot PROVE SlotInv(x)'
  <2>1. SlotInv(x) /\ SlotInv(s)
    BY <1>2
  <2>2. (Elems(hq))' = Elems(hq') /\ (Elems(ring))' = Elems(ring')
    BY DEF Elems
  <2>. QED BY <1>1, <1>2, <1>4, <1>5, <2>1, <2>2 DEF SlotInv, OnePlace, Busy
<1>8. SumInv'
  BY <1>1 DEF SumInv, Live, Copying
<1>. QED BY <1>6, <1>7, <1>8

\* A copy has arrived.
LEMMA HandcRxKeeps == ASSUME Inv, ComputeHandcRx PROVE Inv'
<1>. USE DEF Inv
<1>. DEFINE s == Head(ring)
            m == [to |-> "handc", req |-> s]
<1>1. /\ ring # <<>> /\ ring' = Tail(ring) /\ msgs' = Append(msgs, m)
      /\ UNCHANGED <<qp, host, wire, inc, recvs, free, cur, rq, first, hq, refused, bdev, comp, tx,
                     cqe, bufs>>
  BY DEF ComputeHandcRx
<1>2. /\ s \in Slot /\ ring' \in Seq(Slot) /\ s \in Elems(ring)
      /\ Elems(ring') = Elems(ring) \ {s} /\ Distinct(ring')
  BY <1>1, TailIs DEF TypeInv, SeqInv
<1>3. s \notin Reqs(msgs)
  BY <1>2 DEF SlotInv, OnePlace
<1>4. m \in Message /\ m.req = s
  BY <1>2 DEF Message
<1>. HIDE DEF s, m
<1>5. msgs' \in Seq(Message) /\ DistinctReqs(msgs') /\ Reqs(msgs') = Reqs(msgs) \cup {s}
  BY <1>1, <1>3, <1>4, MessageAppended DEF TypeInv, SeqInv
<1>6. TypeInv' /\ SeqInv'
  BY <1>1, <1>2, <1>5 DEF TypeInv, SeqInv
<1>7. ASSUME NEW x \in Slot PROVE SlotInv(x)'
  <2>1. SlotInv(x) /\ SlotInv(s)
    BY <1>2
  <2>. QED BY <1>1, <1>2, <1>5, <2>1 DEF SlotInv, OnePlace, Busy
<1>8. SumInv'
  BY <1>1 DEF SumInv, Live, Copying
<1>. QED BY <1>6, <1>7, <1>8

\* The scheduler is done with a request.
LEMMA ReqCallbackKeeps == ASSUME Inv, NEW s \in Slot, ReqCallback(s) PROVE Inv'
<1>. USE DEF Inv
<1>. DEFINE m == [to |-> "compute", req |-> s]
<1>1. /\ s \in comp /\ comp' = comp \ {s} /\ msgs' = Append(msgs, m)
      /\ UNCHANGED <<qp, host, wire, inc, recvs, free, cur, rq, first, hq, ring, refused, bdev, tx,
                     cqe, bufs>>
  BY DEF ReqCallback
<1>3. s \notin Reqs(msgs)
  BY <1>1 DEF SlotInv, OnePlace
<1>4. m \in Message /\ m.req = s
  BY DEF Message
<1>. HIDE DEF m
<1>5. msgs' \in Seq(Message) /\ DistinctReqs(msgs') /\ Reqs(msgs') = Reqs(msgs) \cup {s}
  BY <1>1, <1>3, <1>4, MessageAppended DEF TypeInv, SeqInv
<1>6. TypeInv' /\ SeqInv'
  BY <1>1, <1>5 DEF TypeInv, SeqInv
<1>7. ASSUME NEW x \in Slot PROVE SlotInv(x)'
  <2>1. SlotInv(x) /\ SlotInv(s)
    OBVIOUS
  <2>. QED BY <1>1, <1>5, <2>1 DEF SlotInv, OnePlace, Busy
<1>8. SumInv'
  BY <1>1 DEF SumInv, Live, Copying
<1>. QED BY <1>6, <1>7, <1>8

\* The response has been sent: the request and its recv entry go back.
LEMMA QeSendCmplKeeps == ASSUME Inv, NEW s \in Slot, QeSendCmpl(s) PROVE Inv'
<1>. USE DEF Inv
<1>1. /\ s \in tx /\ tx' = tx \ {s} /\ rq' = [rq EXCEPT ![s] = NoReq]
      /\ free' = <<s>> \o free /\ recvs' = recvs + 1
      /\ UNCHANGED <<qp, host, wire, inc, cur, first, hq, ring, msgs, refused, bdev, comp, cqe, bufs>>
  BY DEF QeSendCmpl
<1>2. rq[s].st = "COMPLETING" /\ s \notin Elems(free) /\ s \notin bdev
  BY <1>1 DEF SlotInv, Busy
<1>3. free' \in Seq(Slot) /\ Elems(free') = Elems(free) \cup {s} /\ Distinct(free')
  BY <1>1, <1>2, PushIs, SMT DEF TypeInv, SeqInv
<1>4. /\ rq' \in [Slot -> Request] /\ rq'[s].st = "FREE" /\ rq'[s].tag = None /\ rq'[s].left = 0
      /\ rq'[s].kind = None /\ \A x \in Slot \ {s} : rq'[x] = rq[x]
  <2>1. NoReq.st = "FREE" /\ NoReq.tag = None /\ NoReq.left = 0 /\ NoReq.kind = None
    BY DEF NoReq
  <2>2. rq \in [Slot -> Request]
    BY DEF TypeInv
  <2>. QED BY <1>1, <2>1, <2>2, NoReqIs
<1>5. TypeInv' /\ SeqInv'
  BY <1>1, <1>3, <1>4, SMTT(30) DEF TypeInv, SeqInv
<1>6. ASSUME NEW x \in Slot PROVE SlotInv(x)'
  <2>1. SlotInv(x) /\ SlotInv(s)
    OBVIOUS
  <2>2. CASE x = s
    BY <1>1, <1>3, <1>4, <2>1, <2>2, SMT DEF SlotInv, OnePlace, Busy
  <2>3. CASE x # s
    BY <1>1, <1>3, <1>4, <2>1, <2>3 DEF SlotInv, OnePlace, Busy
  <2>. QED BY <2>2, <2>3
<1>7. SumInv'
  <2>1. Live' = Live \ {s} /\ s \in Live
    BY <1>2, <1>4 DEF Live
  <2>2. Copying' = Copying
    BY <1>2, <1>4, SMT DEF Copying, SlotInv
  <2>3. Cardinality(Live') = Cardinality(Live) - 1
    BY <2>1, SlotsFinite, FS_RemoveElement DEF Live
  <2>. QED BY <1>1, <2>2, <2>3, CountsAre, SMT DEF SumInv, TypeInv
<1>. QED BY <1>5, <1>6, <1>7

-----------------------------------------------------------------------------
(* The state machine moves a request.                                       *)

\* q is r but for the state, fetch state or ranges left of s.
Like(q, r, s) ==
    /\ q \in [Slot -> Request]
    /\ \A x \in Slot \ {s} : q[x] = r[x]
    /\ q[s].tag = r[s].tag /\ q[s].kind = r[s].kind

\* Only the requests M have moved.
Rest(M) ==
    /\ rq' \in [Slot -> Request] /\ hq' \in Seq(Slot) /\ Distinct(hq')
    /\ bdev' \in SUBSET Slot /\ comp' \in SUBSET Slot
    /\ tx' \in SUBSET Slot /\ refused' \in SUBSET Slot /\ cqe' \in [Tag -> Nat]
    /\ \A x \in Slot \ M :
          /\ rq'[x] = rq[x]
          /\ x \in Elems(hq') <=> x \in Elems(hq)
          /\ x \in bdev' <=> x \in bdev
          /\ x \in comp' <=> x \in comp
          /\ x \in tx' <=> x \in tx
          /\ x \in refused' <=> x \in refused

\* Where s goes: it is answered, it executes in one place, it waits for a SECOND or
\* for its data.
Nowhere(s) == s \notin Elems(hq') /\ s \notin bdev' /\ s \notin comp'
GetsAnswer(s) ==
    /\ rq'[s].st = "COMPLETING" /\ rq'[s].tag \in Tag /\ rq'[s].left = 0 /\ Nowhere(s)
    /\ s \in tx' <=> s \notin refused'
GoesOn(s) ==
    /\ rq'[s].st = "EXECUTING" /\ rq'[s].tag \in Tag
    /\ s \notin tx' /\ s \notin refused'
    /\ \/ s \in Elems(hq') /\ s \notin bdev' /\ s \notin comp'
       \/ s \notin Elems(hq') /\ s \in bdev' /\ s \notin comp'
       \/ s \notin Elems(hq') /\ s \notin bdev' /\ s \in comp'
    /\ rq'[s].left > 0 <=> rq'[s].kind = "copy3" /\ s \in bdev'
Waits(s) ==
    /\ \/ rq'[s].st = "READY_TO_EXECUTE" /\ first' = s /\ rq'[s].kind = "first"
       \/ rq'[s].st = "TRANSFERRING" /\ first' # s /\ cur' = s /\ rq'[s].kind = "mgmt"
    /\ rq'[s].tag \in Tag /\ rq'[s].left = 0 /\ Nowhere(s) /\ s \notin tx' /\ s \notin refused'

\* A request that has moved is where its state says.
LEMMA MovedIs ==
    ASSUME NEW s \in Slot, s \notin Elems(ring'), s \notin Reqs(msgs'), s \notin Elems(free'),
           ((GetsAnswer(s) \/ GoesOn(s)) /\ first' # s) \/ Waits(s)
    PROVE  SlotInv(s)'
<1>1. CASE GetsAnswer(s) /\ first' # s
  BY <1>1, SMT DEF GetsAnswer, Nowhere, SlotInv, OnePlace, Busy
<1>2. CASE GoesOn(s) /\ first' # s
  BY <1>2 DEF GoesOn, SlotInv, OnePlace, Busy
<1>3. CASE Waits(s)
  BY <1>3, SMT DEF Waits, Nowhere, SlotInv, OnePlace, Busy
<1>. QED BY <1>1, <1>2, <1>3

\* A request that has not.
LEMMA OthersKeep ==
    ASSUME NEW M, Rest(M), NEW x \in Slot, x \notin M, SlotInv(x),
           x \in Elems(ring') <=> x \in Elems(ring), x \in Reqs(msgs') <=> x \in Reqs(msgs),
           x \in Elems(free') <=> x \in Elems(free), first' = x <=> first = x,
           cur' = cur \/ rq[x].st # "TRANSFERRING"
    PROVE  SlotInv(x)'
<1>1. /\ rq'[x] = rq[x]
      /\ x \in Elems(hq') <=> x \in Elems(hq)
      /\ x \in bdev' <=> x \in bdev
      /\ x \in comp' <=> x \in comp
      /\ x \in tx' <=> x \in tx
      /\ x \in refused' <=> x \in refused
  BY DEF Rest
<1>. QED BY <1>1 DEF SlotInv, OnePlace, Busy

\* The block device, the copy engine, the scheduler or the host is done with a
\* request: it goes on or is answered.
LEMMA MovesOn ==
    ASSUME Inv, NEW s \in Slot, rq[s].st \in {"EXECUTING", "TRANSFERRING"}, s \notin Elems(ring),
           Rest({s}), GetsAnswer(s) \/ GoesOn(s),
           UNCHANGED <<qp, host, wire, ring, free, first, cur>>,
           inc' \in Seq(Packet), recvs' \in Nat, recvs' + Len(inc') = recvs + Len(inc),
           msgs' \in Seq(Message), DistinctReqs(msgs'), Reqs(msgs') = Reqs(msgs) \ {s},
           bufs' \in Int, bufs' + 2 * Cardinality(Copying') = Bufs
    PROVE  Inv'
<1>. USE DEF Inv
<1>2. TypeInv'
  BY DEF TypeInv, Rest
<1>3. SeqInv'
  BY DEF SeqInv, Rest
<1>4. s \notin Elems(free) /\ first # s
  BY DEF SlotInv
<1>5. SlotInv(s)'
  BY <1>4, MovedIs
<1>6. ASSUME NEW x \in Slot, x # s PROVE SlotInv(x)'
  <2>1. SlotInv(x) /\ (x \in Reqs(msgs') <=> x \in Reqs(msgs)) /\ x \notin {s}
    BY <1>6
  <2>. QED BY <2>1, OthersKeep
<1>7. Live' = Live
  <2>1. rq'[s].st # "FREE"
    BY DEF GetsAnswer, GoesOn
  <2>. QED BY <2>1 DEF Rest, Live
<1>8. SumInv'
  <2>1. Len(inc) \in Nat /\ Len(inc') \in Nat /\ recvs \in Nat
    BY SMTT(30) DEF TypeInv
  <2>2. Cardinality(Live) \in Nat
    BY SlotsFinite DEF Live
  <2>. QED BY <1>7, <2>1, <2>2 DEF SumInv
<1>. QED BY <1>2, <1>3, <1>5, <1>6, <1>8

\* The copies from storage in progress, when one request has moved.
LEMMA CopyingIs ==
    ASSUME NEW s \in Slot, \A x \in Slot \ {s} : rq'[x] = rq[x]
    PROVE  /\ rq'[s].left > 0 => Copying' = Copying \cup {s}
           /\ ~(rq'[s].left > 0) => Copying' = Copying \ {s}
           /\ IsFiniteSet(Copying) /\ Cardinality(Copying) \in Nat
           /\ s \notin Copying => Cardinality(Copying \cup {s}) = Cardinality(Copying) + 1
           /\ s \in Copying => Cardinality(Copying \ {s}) = Cardinality(Copying) - 1
<1>2. IsFiniteSet(Copying) /\ Cardinality(Copying) \in Nat
  BY SlotsFinite DEF Copying
<1>3. /\ s \notin Copying => Cardinality(Copying \cup {s}) = Cardinality(Copying) + 1
      /\ s \in Copying => Cardinality(Copying \ {s}) = Cardinality(Copying) - 1
  BY <1>2, FS_AddElement, FS_RemoveElement
<1>. QED BY <1>2, <1>3, SMT DEF Copying
\* The block device completes a request.
LEMMA RequestCompleteKeeps == ASSUME Inv, NEW s \in Slot, RequestComplete(s) PROVE Inv'
<1>1. /\ s \in bdev /\ UNCHANGED <<qp, host, wire, inc, recvs, free, cur, first, ring, msgs>>
  BY DEF RequestComplete
<1>2. /\ rq[s].st = "EXECUTING" /\ s \notin refused /\ s \notin Elems(hq) /\ s \notin Elems(ring)
      /\ s \notin Reqs(msgs) /\ s \notin comp /\ s \notin tx
  BY <1>1 DEF Inv, SlotInv, OnePlace, Busy
<1>3. rq[s].left > 0 <=> rq[s].kind = "copy3"
  BY <1>1 DEF Inv, SlotInv
<1>4. /\ rq \in [Slot -> Request] /\ hq \in Seq(Slot) /\ Distinct(hq) /\ tx \in SUBSET Slot
      /\ refused \in SUBSET Slot /\ cqe \in [Tag -> Nat] /\ bdev \in SUBSET Slot /\ bufs \in Int
      /\ comp \in SUBSET Slot
  BY DEF Inv, TypeInv, SeqInv
<1>0. inc' \in Seq(Packet) /\ recvs' \in Nat /\ recvs' + Len(inc') = recvs + Len(inc) /\ rq[s].tag \in Tag
  BY <1>1, <1>2 DEF Inv, TypeInv, SlotInv
<1>5. msgs' \in Seq(Message) /\ DistinctReqs(msgs') /\ Reqs(msgs') = Reqs(msgs) \ {s}
  BY <1>1, <1>2 DEF Inv, TypeInv, SeqInv
<1>6. bufs + 2 * Cardinality(Copying) = Bufs /\ rq[s].left \in Nat
  BY <1>4 DEF Inv, SumInv, Request
<1>7. s \in Copying <=> rq[s].left > 0
  BY DEF Copying
<1>8. CASE MoreRanges(s)
  <2>. DEFINE r == [rq EXCEPT ![s].left = rq[s].left - 1]
  <2>1. rq[s].kind = "copy3" /\ rq[s].left > 1 /\ rq[s].left - 1 \in Nat
    BY <1>6, <1>8, SMT DEF MoreRanges
  <2>2. Pass(r, <<>>, bdev, {}, {}) /\ bufs' = bufs
    BY <1>8 DEF RequestComplete
  <2>3. Like(r, rq, s) /\ r[s].st = "EXECUTING" /\ r[s].left = rq[s].left - 1
    <3>1. Like(r, rq, s)
      BY <1>4, <2>1 DEF Like, Request
    <3>. QED BY <1>2, <1>4, <3>1, SMT DEF Request
  <2>. HIDE DEF r
  <2>4. r \in [Slot -> Request] /\ r[s].kind = "copy3" /\ r[s].left > 0
    BY <1>6, <2>1, <2>3, SMT DEF Like
  <2>5. Settled(r, {}, bdev, {}, {})
    BY <1>4, <2>2, <2>4, PassIs
  <2>6. Rest({s})
    BY <1>4, <2>3, <2>5 DEF Settled, Like, Rest
  <2>7. GoesOn(s)
    BY <1>0, <1>1, <1>2, <2>3, <2>4, <2>5 DEF Settled, Like, GoesOn, Answered, Nowhere
  <2>8. Copying' = Copying
    <3>1. rq'[s].left > 0 /\ s \in Copying /\ \A x \in Slot \ {s} : rq'[x] = rq[x]
      BY <1>3, <1>7, <2>1, <2>4, <2>5, <2>6 DEF Settled, Rest
    <3>. QED BY <3>1, CopyingIs, ZenonT(30)
  <2>. QED BY <1>0, <1>1, <1>2, <1>4, <1>5, <1>6, <2>2, <2>6, <2>7, <2>8, MovesOn
<1>9. CASE ~MoreRanges(s)
  <2>. DEFINE r == [rq EXCEPT ![s].left = 0]
  <2>1. Pass(r, <<>>, bdev \ {s}, {}, {s}) /\ bufs' = bufs + Returned(s)
    BY <1>9 DEF RequestComplete
  <2>2. Like(r, rq, s)
    BY <1>4 DEF Like, Request
  <2>. HIDE DEF r
  <2>3. r \in [Slot -> Request]
    BY <2>2 DEF Like
  <2>4. Settled(r, {}, bdev \ {s}, {}, {s})
    BY <1>4, <2>1, <2>3, PassIs
  <2>5. Rest({s})
    BY <1>4, <2>2, <2>4 DEF Settled, Like, Rest
  <2>6. GetsAnswer(s)
    BY <1>0, <1>2, <2>2, <2>4 DEF Settled, Like, GetsAnswer, Answered, Nowhere
  <2>7. Copying' = Copying \ {s}
    <3>1. ~(rq'[s].left > 0) /\ \A x \in Slot \ {s} : rq'[x] = rq[x]
      BY <2>5, <2>6, SMT DEF Rest, GetsAnswer
    <3>. QED BY <3>1, CopyingIs
  <2>8. bufs' \in Int /\ bufs' + 2 * Cardinality(Copying') = Bufs
    <3>0. IsFiniteSet(Copying) /\ Cardinality(Copying) \in Nat
      BY SlotsFinite DEF Copying
    <3>1. CASE rq[s].kind = "copy3"
      <4>1. bufs' = bufs + 2
        BY <2>1, <3>1 DEF Returned
      <4>2. Cardinality(Copying') = Cardinality(Copying) - 1
        BY <1>3, <1>7, <2>7, <3>0, <3>1, FS_RemoveElement
      <4>. QED BY <1>4, <1>6, <3>0, <4>1, <4>2, McdmaConstants, SMT
    <3>2. CASE rq[s].kind # "copy3"
      <4>1. bufs' = bufs
        BY <1>4, <2>1, <3>2, SMT DEF Returned
      <4>2. Copying' = Copying
        BY <1>3, <1>7, <2>7, <3>2
      <4>. QED BY <1>4, <1>6, <4>1, <4>2
    <3>. QED BY <3>1, <3>2
  <2>. QED BY <1>0, <1>1, <1>2, <1>5, <2>5, <2>6, <2>8, MovesOn
<1>. QED BY <1>8, <1>9

\* The poll group thread takes a message.
LEMMA TakeMessageKeeps == ASSUME Inv, TakeMessage PROVE Inv'
<1>. DEFINE s == Head(msgs).req
<1>1. /\ msgs # <<>> /\ msgs' = Tail(msgs)
      /\ UNCHANGED <<qp, host, wire, inc, recvs, free, cur, first, ring>>
  BY DEF TakeMessage
<1>2. \/ Pass(rq, <<>>, bdev, {}, {s}) /\ bufs' = bufs
      \/ FetchData(s) /\ bufs' = bufs
      \/ ContextsFetched(s)
      \/ RangesFetched(s)
      \/ DataFetched(s)
  BY DEF TakeMessage
<1>3. /\ s \in Slot /\ s \in Reqs(msgs) /\ msgs' \in Seq(Message) /\ DistinctReqs(msgs')
      /\ Reqs(msgs') = Reqs(msgs) \ {s}
  BY <1>1, MessageTaken DEF Inv, TypeInv, SeqInv, Message
<1>. HIDE DEF s
<1>4. /\ rq \in [Slot -> Request] /\ hq \in Seq(Slot) /\ Distinct(hq) /\ tx \in SUBSET Slot
      /\ refused \in SUBSET Slot /\ cqe \in [Tag -> Nat] /\ bdev \in SUBSET Slot /\ bufs \in Int
      /\ comp \in SUBSET Slot
  BY DEF Inv, TypeInv, SeqInv
<1>5. SlotInv(s)
  BY <1>3 DEF Inv
<1>6. /\ rq[s].st = "EXECUTING" /\ s \notin refused /\ s \notin Elems(hq) /\ s \notin Elems(ring)
      /\ s \notin bdev /\ s \notin comp /\ s \notin tx /\ ~(rq[s].left > 0)
  BY <1>3, <1>5 DEF SlotInv, OnePlace, Busy
<1>0. inc' \in Seq(Packet) /\ recvs' \in Nat /\ recvs' + Len(inc') = recvs + Len(inc) /\ rq[s].tag \in Tag
  BY <1>1, <1>3, <1>5, <1>6 DEF Inv, TypeInv, SlotInv
<1>7. bufs + 2 * Cardinality(Copying) = Bufs /\ s \notin Copying
  BY <1>6 DEF Inv, SumInv, Copying
<1>8. ASSUME Rest({s}), GetsAnswer(s) \/ (GoesOn(s) /\ ~(rq'[s].left > 0)), bufs' = bufs PROVE Inv'
  <2>1. ~(rq'[s].left > 0) /\ \A x \in Slot \ {s} : rq'[x] = rq[x]
    BY <1>8, SMT DEF Rest, GetsAnswer
  <2>2. Copying' = Copying
    <3>1. Copying' = Copying \ {s}
      BY <1>3, <2>1, CopyingIs
    <3>. QED BY <1>7, <3>1
  <2>. QED BY <1>0, <1>1, <1>3, <1>4, <1>6, <1>7, <1>8, <2>2, MovesOn
<1>9. CASE Pass(rq, <<>>, bdev, {}, {s}) /\ bufs' = bufs
  <2>1. Settled(rq, {}, bdev, {}, {s})
    BY <1>3, <1>4, <1>9, PassIs
  <2>2. Rest({s})
    BY <1>4, <2>1 DEF Settled, Rest
  <2>3. GetsAnswer(s)
    <3>1. Answered(rq'[s], rq[s])
      BY <1>3, <2>1 DEF Settled, Like, Answered
    <3>2. s \notin Elems(hq') /\ s \notin bdev' /\ s \notin comp'
      BY <1>3, <1>6, <2>1 DEF Settled
    <3>3. s \in tx' <=> s \notin refused'
      BY <1>3, <1>6, <2>1 DEF Settled
    <3>. QED BY <1>0, <3>1, <3>2, <3>3 DEF GetsAnswer, Nowhere, Answered
  <2>. QED BY <1>8, <1>9, <2>2, <2>3
<1>10. CASE FetchData(s) /\ bufs' = bufs
  <2>. DEFINE r == [rq EXCEPT ![s].fsm = "FETCH_DATA"]
  <2>1. Pass(r, <<s>>, bdev, {}, {}) /\ bufs' = bufs
    BY <1>10 DEF FetchData
  <2>2. Like(r, rq, s) /\ r[s].st = "EXECUTING" /\ ~(r[s].left > 0)
    <3>1. Like(r, rq, s)
      BY <1>3, <1>4 DEF Like, Request
    <3>. QED BY <1>3, <1>4, <1>6, <3>1, SMT DEF Request
  <2>. HIDE DEF r
  <2>3. r \in [Slot -> Request]
    BY <2>2 DEF Like
  <2>4. Settled(r, {s}, bdev, {}, {})
    BY <1>3, <1>4, <1>6, <2>1, <2>3, PassIs
  <2>5. Rest({s})
    BY <1>3, <1>4, <2>2, <2>4 DEF Settled, Like, Rest
  <2>6. GoesOn(s) /\ ~(rq'[s].left > 0)
    BY <1>0, <1>3, <1>6, <2>2, <2>4 DEF Settled, Like, GoesOn, Answered, Nowhere
  <2>. QED BY <1>8, <2>1, <2>5, <2>6
<1>11. CASE ContextsFetched(s)
  <2>. DEFINE r == [rq EXCEPT ![s].fsm = "NON_OP"]
  <2>1. Pass(r, <<>>, bdev, {s}, {}) /\ bufs' = bufs
    BY <1>11 DEF ContextsFetched
  <2>2. Like(r, rq, s) /\ r[s].st = "EXECUTING" /\ ~(r[s].left > 0)
    <3>1. Like(r, rq, s)
      BY <1>3, <1>4 DEF Like, Request
    <3>. QED BY <1>3, <1>4, <1>6, <3>1, SMT DEF Request
  <2>. HIDE DEF r
  <2>3. r \in [Slot -> Request]
    BY <2>2 DEF Like
  <2>4. Settled(r, {}, bdev, {s}, {})
    BY <1>3, <1>4, <1>6, <2>1, <2>3, PassIs
  <2>5. Rest({s})
    BY <1>3, <1>4, <2>2, <2>4 DEF Settled, Like, Rest
  <2>6. GoesOn(s) /\ ~(rq'[s].left > 0)
    BY <1>0, <1>3, <1>6, <2>2, <2>4 DEF Settled, Like, GoesOn, Answered, Nowhere
  <2>. QED BY <1>8, <2>1, <2>5, <2>6
<1>12. CASE RangesFetched(s)
  <2>1. rq[s].kind = "copy3" /\ bufs' = bufs - 2
    BY <1>12 DEF RangesFetched
  <2>2. PICK n \in 1..MaxRanges :
           Pass([rq EXCEPT ![s].fsm = "OPERATOR_SOURCE_RANGES", ![s].left = n],
                <<>>, bdev \cup {s}, {}, {})
    BY <1>12 DEF RangesFetched
  <2>. DEFINE q == [rq EXCEPT ![s].fsm = "OPERATOR_SOURCE_RANGES"]
              r == [q EXCEPT ![s].left = n]
  <2>3. Like(q, rq, s) /\ q[s].st = "EXECUTING"
    <3>1. Like(q, rq, s)
      BY <1>3, <1>4 DEF Like, Request
    <3>. QED BY <1>3, <1>4, <1>6, <3>1, SMT DEF Request
  <2>4. Pass(r, <<>>, bdev \cup {s}, {}, {})
    BY <2>2
  <2>5. n \in Nat /\ n > 0
    BY McdmaConstants, SMT
  <2>. HIDE DEF q
  <2>6. Like(r, q, s) /\ r[s].st = "EXECUTING" /\ r[s].left = n
    BY <1>3, <2>3, <2>5 DEF Like, Request
  <2>. HIDE DEF r
  <2>7. Like(r, rq, s) /\ r \in [Slot -> Request]
    BY <2>3, <2>6 DEF Like
  <2>8. Settled(r, {}, bdev \cup {s}, {}, {})
    BY <1>3, <1>4, <2>4, <2>7, PassIs
  <2>9. Rest({s})
    BY <1>3, <1>4, <2>7, <2>8 DEF Settled, Like, Rest
  <2>10. rq'[s].left > 0 /\ rq'[s].kind = "copy3" /\ rq'[s].tag \in Tag /\ rq'[s].st = "EXECUTING"
    BY <1>0, <1>3, <2>1, <2>5, <2>6, <2>7, <2>8 DEF Settled, Like
  <2>11. GoesOn(s)
    BY <1>0, <1>3, <1>6, <2>8, <2>10 DEF Settled, Like, GoesOn, Answered, Nowhere
  <2>12. Cardinality(Copying') = Cardinality(Copying) + 1 /\ Cardinality(Copying) \in Nat
    <3>1. \A x \in Slot \ {s} : rq'[x] = rq[x]
      BY <2>9 DEF Rest
    <3>. QED BY <1>3, <1>7, <2>10, <3>1, CopyingIs
  <2>13. bufs' \in Int /\ bufs' + 2 * Cardinality(Copying') = Bufs
    BY <1>4, <1>7, <2>1, <2>12, McdmaConstants, SMT
  <2>. QED BY <1>0, <1>1, <1>3, <1>6, <2>9, <2>11, <2>13, MovesOn
<1>13. CASE DataFetched(s)
  <2>. DEFINE r == [rq EXCEPT ![s].fsm = "END_FETCH_DATA"]
  <2>1. Pass(r, <<>>, bdev, {}, {s}) /\ bufs' = bufs
    BY <1>13 DEF DataFetched
  <2>2. Like(r, rq, s)
    BY <1>3, <1>4 DEF Like, Request
  <2>. HIDE DEF r
  <2>3. r \in [Slot -> Request]
    BY <2>2 DEF Like
  <2>4. Settled(r, {}, bdev, {}, {s})
    BY <1>3, <1>4, <2>1, <2>3, PassIs
  <2>5. Rest({s})
    BY <1>3, <1>4, <2>2, <2>4 DEF Settled, Like, Rest
  <2>6. GetsAnswer(s)
    <3>1. Answered(rq'[s], rq[s])
      BY <1>3, <2>2, <2>4 DEF Settled, Like, Answered
    <3>2. s \notin Elems(hq') /\ s \notin bdev' /\ s \notin comp'
      BY <1>3, <1>6, <2>4 DEF Settled
    <3>3. s \in tx' <=> s \notin refused'
      BY <1>3, <1>6, <2>4 DEF Settled
    <3>. QED BY <1>0, <3>1, <3>2, <3>3 DEF GetsAnswer, Nowhere, Answered
  <2>. QED BY <1>8, <2>1, <2>5, <2>6
<1>. QED BY <1>2, <1>9, <1>10, <1>11, <1>12, <1>13

-----------------------------------------------------------------------------
(* The state machine takes a packet.                                        *)

\* A data packet: its entry goes back, and the last one makes the request ready.
LEMMA ProcessDataKeeps == ASSUME Inv, ProcessData PROVE Inv'
<1>1. /\ inc # <<>> /\ AwaitsData /\ inc' = Tail(inc) /\ recvs' = recvs + 1
      /\ UNCHANGED <<qp, host, wire, free, cur, first, ring, msgs, bufs>>
      /\ ReadyToExecute(rq, cur, {}) \/ UNCHANGED <<rq, hq, bdev, comp, tx, cqe, refused>>
  BY DEF ProcessData, TakeData
<1>2. cur \in Slot /\ rq[cur].st = "TRANSFERRING"
  BY <1>1 DEF AwaitsData, Inv, TypeInv
<1>3. PICK s \in Slot : s = cur
  BY <1>2
<1>4. /\ rq[s].kind = "mgmt" /\ s \notin refused /\ s \notin Elems(hq) /\ s \notin Elems(ring)
      /\ s \notin Reqs(msgs) /\ s \notin bdev /\ s \notin comp /\ s \notin tx
      /\ ~(rq[s].left > 0) /\ rq[s].tag \in Tag
  BY <1>2, <1>3 DEF Inv, SlotInv, Busy
<1>5. /\ rq \in [Slot -> Request] /\ hq \in Seq(Slot) /\ Distinct(hq) /\ tx \in SUBSET Slot
      /\ refused \in SUBSET Slot /\ cqe \in [Tag -> Nat] /\ bdev \in SUBSET Slot /\ bufs \in Int
      /\ comp \in SUBSET Slot
  BY DEF Inv, TypeInv, SeqInv
<1>6. inc' \in Seq(Packet) /\ recvs' \in Nat /\ recvs' + Len(inc') = recvs + Len(inc)
  BY <1>1, SMT DEF Inv, TypeInv
<1>7. CASE UNCHANGED <<rq, hq, bdev, comp, tx, cqe, refused>>
  <2>1. SeqInv' /\ SlotInvs' /\ Live' = Live /\ Copying' = Copying
    BY <1>1, <1>7, SlotsKept DEF Inv, SlotInvs
  <2>2. TypeInv'
    BY <1>1, <1>6, <1>7 DEF Inv, TypeInv
  <2>3. Cardinality(Live) \in Nat /\ Len(inc) \in Nat /\ Len(inc') \in Nat /\ recvs \in Nat
    BY <1>6, SlotsFinite, SMTT(30) DEF Live, Inv, TypeInv
  <2>4. SumInv'
    BY <1>1, <1>6, <2>1, <2>3 DEF SumInv, Inv
  <2>. QED BY <2>1, <2>2, <2>4 DEF Inv, SlotInvs
<1>8. CASE ReadyToExecute(rq, cur, {})
  <2>1. Pass(rq, <<>>, bdev, {}, {s})
    <3>1. Fsm("mgmt") = "NON_OP" /\ {} \cup {s} = {s}
      BY DEF Fsm
    <3>. QED BY <1>3, <1>4, <1>8, <3>1 DEF ReadyToExecute
  <2>2. Settled(rq, {}, bdev, {}, {s})
    BY <1>5, <2>1, PassIs
  <2>3. Rest({s})
    BY <1>5, <2>2 DEF Settled, Rest
  <2>4. GetsAnswer(s)
    <3>1. Answered(rq'[s], rq[s])
      BY <2>2 DEF Settled
    <3>2. s \notin Elems(hq') /\ s \notin bdev' /\ s \notin comp'
      BY <1>4, <2>2 DEF Settled
    <3>3. s \in tx' <=> s \notin refused'
      BY <1>4, <2>2 DEF Settled
    <3>. QED BY <1>4, <3>1, <3>2, <3>3 DEF GetsAnswer, Nowhere, Answered
  <2>5. Copying' = Copying
    <3>1. ~(rq'[s].left > 0) /\ \A x \in Slot \ {s} : rq'[x] = rq[x]
      BY <2>3, <2>4, SMT DEF Rest, GetsAnswer
    <3>. QED BY <1>4, <3>1 DEF Copying
  <2>6. msgs' \in Seq(Message) /\ DistinctReqs(msgs') /\ Reqs(msgs') = Reqs(msgs) \ {s}
    BY <1>1, <1>4 DEF Inv, TypeInv, SeqInv
  <2>7. bufs' \in Int /\ bufs' + 2 * Cardinality(Copying') = Bufs
    BY <1>1, <1>5, <2>5 DEF Inv, SumInv
  <2>. QED BY <1>1, <1>2, <1>3, <1>4, <1>6, <2>3, <2>4, <2>6, <2>7, MovesOn
<1>. QED BY <1>1, <1>7, <1>8

\* A command takes a request: the request s taken and the FIRST f that waited have moved.
LEMMA CommandTaken ==
    ASSUME Inv, NEW s \in Slot, free # <<>>, inc # <<>>, ~AwaitsData, s = Head(free),
           free' = Tail(free), inc' = Tail(inc), cur' \in {s, None}, first' \in {s, None},
           UNCHANGED <<qp, host, wire, recvs, ring, msgs, bufs>>,
           Rest({s, first}), ~(rq'[s].left > 0),
           ((GetsAnswer(s) \/ GoesOn(s)) /\ first' # s) \/ Waits(s),
           first # None => (GetsAnswer(first) \/ GoesOn(first)) /\ ~(rq'[first].left > 0)
    PROVE  Inv'
<1>. USE DEF Inv
<1>1. /\ s \in Elems(free) /\ free' \in Seq(Slot) /\ Elems(free') = Elems(free) \ {s} /\ Distinct(free')
  BY TailIs DEF TypeInv, SeqInv
<1>2. /\ rq[s].st = "FREE" /\ s \notin Elems(ring) /\ s \notin Reqs(msgs) /\ s \notin bdev /\ first # s
      /\ ~(rq[s].left > 0)
  BY <1>1 DEF SlotInv, Busy
<1>3. inc' \in Seq(Packet) /\ Len(inc') = Len(inc) - 1 /\ Len(inc) \in Nat
  BY SMT DEF TypeInv
<1>4. TypeInv'
  BY <1>1, <1>3 DEF TypeInv, Rest
<1>5. SeqInv'
  BY <1>1 DEF SeqInv, Rest
<1>6. SlotInv(s)'
  <2>1. s \notin Elems(ring') /\ s \notin Reqs(msgs') /\ s \notin Elems(free')
    BY <1>1, <1>2
  <2>. QED BY <2>1, MovedIs
<1>7. first # None => first \in Slot /\ rq[first].st = "READY_TO_EXECUTE"
  BY DEF TypeInv, SlotInv
<1>8. ASSUME NEW f \in Slot, f = first PROVE SlotInv(f)' /\ rq[f].st # "FREE" /\ rq'[f].st # "FREE"
                                          /\ ~(rq[f].left > 0) /\ ~(rq'[f].left > 0)
  <2>1. SlotInv(f) /\ rq[f].st = "READY_TO_EXECUTE" /\ f # None /\ f # s
    BY <1>2, <1>7, <1>8, McdmaConstants DEF Slot
  <2>2. /\ f \notin Elems(ring) /\ f \notin Reqs(msgs) /\ f \notin bdev /\ f \notin Elems(free)
        /\ ~(rq[f].left > 0)
    BY <2>1 DEF SlotInv, Busy
  <2>3. (GetsAnswer(f) \/ GoesOn(f)) /\ ~(rq'[f].left > 0) /\ first' # f
    BY <1>8, <2>1
  <2>4. f \notin Elems(ring') /\ f \notin Reqs(msgs') /\ f \notin Elems(free')
    BY <1>1, <2>2
  <2>5. rq'[f].st # "FREE"
    BY <2>3 DEF GetsAnswer, GoesOn
  <2>. QED BY <2>1, <2>2, <2>3, <2>4, <2>5, MovedIs
<1>9. ASSUME NEW x \in Slot, x # s, x # first PROVE SlotInv(x)'
  <2>1. SlotInv(x) /\ x \notin {s, first} /\ (x \in Elems(free') <=> x \in Elems(free))
    BY <1>1, <1>9
  <2>2. rq[x].st # "TRANSFERRING"
    BY <2>1, McdmaConstants DEF SlotInv, AwaitsData, Slot
  <2>3. first' = x <=> first = x
    BY <1>9, McdmaConstants DEF Slot
  <2>. QED BY <2>1, <2>2, <2>3, OthersKeep
<1>10. SlotInvs'
  BY <1>6, <1>8, <1>9 DEF SlotInvs
<1>11. Live' = Live \cup {s} /\ s \notin Live
  <2>1. rq'[s].st # "FREE"
    BY DEF GetsAnswer, GoesOn, Waits
  <2>2. \A x \in Slot : x # s /\ x # first => rq'[x].st = rq[x].st
    BY DEF Rest
  <2>. QED BY <1>2, <1>8, <2>1, <2>2 DEF Live
<1>12. Copying' = Copying
  <2>1. \A x \in Slot : x # s /\ x # first => rq'[x].left = rq[x].left
    BY DEF Rest
  <2>. QED BY <1>2, <1>8, <2>1 DEF Copying
<1>13. SumInv'
  <2>1. IsFiniteSet(Live) /\ Cardinality(Live) \in Nat
    BY SlotsFinite DEF Live
  <2>2. Cardinality(Live') = Cardinality(Live) + 1
    BY <1>11, <2>1, FS_AddElement
  <2>3. recvs \in Nat
    BY DEF TypeInv
  <2>. QED BY <1>3, <1>12, <2>1, <2>2, <2>3, SMT DEF SumInv
<1>. QED BY <1>4, <1>5, <1>10, <1>13 DEF SlotInvs

\* The requests with a command in s.
Taken(q, s, k) ==
    /\ q \in [Slot -> Request] /\ q[s].tag \in Tag /\ q[s].kind = k /\ q[s].left = 0
    /\ \A x \in Slot \ {s} : q[x] = rq[x]

\* A FIRST that waited when a command other than a SECOND was taken is answered.
LEMMA OrphanFails ==
    ASSUME Inv, NEW s \in Slot, first # s, NEW q, NEW k, Taken(q, s, k), k # "second",
           NEW H, NEW b, NEW C, NEW A, Settled(q, H, b, C, A),
           \A x \in Slot \ {s} : x \in A <=> x \in Orphan(k),
           \A x \in Slot \ {s} : x \notin H /\ x \notin C /\ (x \in b <=> x \in bdev),
           b \in SUBSET Slot, C \in SUBSET Slot
    PROVE  /\ Rest({s, first})
           /\ first # None => (GetsAnswer(first) \/ GoesOn(first)) /\ ~(rq'[first].left > 0)
<1>1. \A x \in Slot : x # s /\ x # first => x \notin A
  BY DEF Orphan
<1>2. Rest({s, first})
  <2>1. \A x \in Slot \ {s, first} : rq'[x] = rq[x]
    BY <1>1 DEF Settled, Taken
  <2>2. \A x \in Slot \ {s, first} :
          /\ x \in Elems(hq') <=> x \in Elems(hq)
          /\ x \in bdev' <=> x \in bdev
          /\ x \in comp' <=> x \in comp
    BY <1>1 DEF Settled
  <2>3. \A x \in Slot \ {s, first} : (x \in tx' <=> x \in tx) /\ (x \in refused' <=> x \in refused)
    BY <1>1 DEF Settled
  <2>4. comp \in SUBSET Slot
    BY DEF Inv, TypeInv
  <2>5. /\ rq' \in [Slot -> Request] /\ hq' \in Seq(Slot) /\ Distinct(hq')
        /\ bdev' \in SUBSET Slot /\ comp' \in SUBSET Slot
        /\ tx' \in SUBSET Slot /\ refused' \in SUBSET Slot /\ cqe' \in [Tag -> Nat]
    BY <2>4 DEF Settled
  <2>. QED BY <2>1, <2>2, <2>3, <2>5 DEF Rest
<1>3. ASSUME NEW f \in Slot, f = first PROVE GetsAnswer(f) /\ ~(rq'[f].left > 0)
  <2>1. f # None /\ f # s /\ f \in A
    BY <1>3, McdmaConstants DEF Orphan, Slot
  <2>2. SlotInv(f) /\ rq[f].st = "READY_TO_EXECUTE"
    BY <1>3 DEF Inv, SlotInv
  <2>3. /\ f \notin Elems(hq) /\ f \notin bdev /\ f \notin comp /\ f \notin tx /\ f \notin refused
        /\ rq[f].tag \in Tag
    BY <2>2 DEF SlotInv, Busy
  <2>4. Answered(rq'[f], rq[f])
    BY <2>1 DEF Settled, Taken
  <2>5. f \notin Elems(hq') /\ f \notin bdev' /\ f \notin comp'
    BY <2>1, <2>3 DEF Settled
  <2>6. f \in tx' <=> f \notin refused'
    BY <2>1, <2>3 DEF Settled
  <2>. QED BY <2>3, <2>4, <2>5, <2>6, SMTT(30) DEF GetsAnswer, Nowhere, Answered
<1>4. first # None => first \in Slot
  BY DEF Inv, TypeInv
<1>. QED BY <1>2, <1>3, <1>4

Fresh(s, t, k) == [rq EXCEPT ![s] = [NoReq EXCEPT !.tag = t, !.kind = k, !.st = "NEW"]]
InState(r, s, v) == [r EXCEPT ![s].st = v]

\* The request taken, before the state machine has seen it.
LEMMA FreshIs ==
    ASSUME rq \in [Slot -> Request], NEW s \in Slot, NEW t \in Tag, NEW k \in Kind
    PROVE  /\ Taken(Fresh(s, t, k), s, k)
           /\ Fresh(s, t, k)[s].st = "NEW" /\ Fresh(s, t, k)[s].tag = t
<1>. DEFINE a == [NoReq EXCEPT !.tag = t]
            b == [a EXCEPT !.kind = k]
            c == [b EXCEPT !.st = "NEW"]
            r == Fresh(s, t, k)
<1>1. a \in Request /\ a.tag = t /\ a.left = 0
  BY DEF NoReq, Request, States
<1>. HIDE DEF a
<1>2. b \in Request /\ b.tag = t /\ b.left = 0 /\ b.kind = k
  BY <1>1 DEF Request
<1>. HIDE DEF b
<1>3. c \in Request /\ c.tag = t /\ c.left = 0 /\ c.kind = k /\ c.st = "NEW"
  BY <1>2 DEF Request, States
<1>4. r = [rq EXCEPT ![s] = c]
  BY DEF a, b, Fresh
<1>. HIDE DEF c, r
<1>5. r \in [Slot -> Request] /\ r[s] = c /\ \A x \in Slot \ {s} : r[x] = rq[x]
  BY <1>3, <1>4
<1>6. Taken(r, s, k) /\ r[s].st = "NEW" /\ r[s].tag = t
  BY <1>3, <1>5 DEF Taken
<1>. QED BY <1>6 DEF r

\* Its state changes.
LEMMA StateSet ==
    ASSUME NEW r, NEW s \in Slot, NEW k, Taken(r, s, k), NEW v \in States
    PROVE  Taken(InState(r, s, v), s, k) /\ InState(r, s, v)[s].st = v
<1>. DEFINE q == [r EXCEPT ![s].st = v]
<1>1. r \in [Slot -> Request] /\ r[s] \in Request
  BY DEF Taken
<1>2. q \in [Slot -> Request] /\ q[s].st = v /\ \A x \in Slot \ {s} : q[x] = r[x]
  BY <1>1 DEF Request
<1>3. q[s].tag = r[s].tag /\ q[s].kind = r[s].kind /\ q[s].left = r[s].left
  BY <1>1 DEF Request
<1>4. InState(r, s, v) = q
  BY DEF InState
<1>. HIDE DEF q
<1>. QED BY <1>2, <1>3, <1>4 DEF Taken

\* It starts to execute.
LEMMA ExecutingIs ==
    ASSUME NEW r, NEW s \in Slot, NEW k, Taken(r, s, k)
    PROVE  Taken(Executing(r, s), s, k) /\ Executing(r, s)[s].st = "EXECUTING"
<1>. DEFINE q == InState(r, s, "EXECUTING")
            e == [q EXCEPT ![s].fsm = Fsm(r[s].kind)]
<1>1. Taken(q, s, k) /\ q[s].st = "EXECUTING"
  BY StateSet DEF States
<1>2. Executing(r, s) = e
  BY DEF Executing, InState
<1>. HIDE DEF q
<1>3. q \in [Slot -> Request] /\ q[s] \in Request
  BY <1>1 DEF Taken
<1>4. Fsm(r[s].kind) \in {"NON_OP", "FETCH_PRP", "FETCH_DATA"}
  BY DEF Fsm
<1>5. e \in [Slot -> Request] /\ \A x \in Slot \ {s} : e[x] = q[x]
  BY <1>3, <1>4 DEF Request
<1>6. e[s].tag = q[s].tag /\ e[s].kind = q[s].kind /\ e[s].left = q[s].left /\ e[s].st = q[s].st
  BY <1>3 DEF Request
<1>. QED BY <1>1, <1>2, <1>5, <1>6 DEF Taken

\* A command: it takes a request, and the FIRST that waits is executed or failed.
LEMMA ProcessCommandKeeps == ASSUME Inv, ProcessCommand PROVE Inv'
<1>1. /\ free # <<>> /\ inc # <<>> /\ ~AwaitsData
      /\ free' = Tail(free) /\ inc' = Tail(inc)
      /\ UNCHANGED <<qp, host, wire, recvs, ring, msgs, bufs>>
  BY DEF ProcessCommand
<1>2. Head(free) \in Slot /\ Head(free) \in Elems(free)
  BY <1>1, TailIs DEF Inv, TypeInv, SeqInv
<1>3. PICK s \in Slot : s = Head(free)
  BY <1>2
<1>4. Head(inc) \in Packet
  BY <1>1, SMT DEF Inv, TypeInv
<1>5. PICK k \in Kind : k = Head(inc).kind
  BY <1>4 DEF Packet
<1>6. PICK t \in Tag : t = Head(inc).tag
  BY <1>4 DEF Packet
<1>7. PICK r : r = Fresh(s, t, k)
  OBVIOUS
<1>8. /\ cur' = IF HasData(k) THEN s ELSE None
      /\ first' = FirstAfter(s, k)
      /\ IF k \in {"first", "second"} THEN ReadyFused(r, s)
         ELSE IF HasData(k)
         THEN Pass([r EXCEPT ![s].st = "TRANSFERRING"], <<>>, bdev, {}, Orphan(k))
         ELSE ReadyToExecute(r, s, Orphan(k))
  BY <1>3, <1>5, <1>6, <1>7 DEF ProcessCommand, Fresh
<1>9. /\ rq \in [Slot -> Request] /\ hq \in Seq(Slot) /\ Distinct(hq) /\ tx \in SUBSET Slot
      /\ refused \in SUBSET Slot /\ cqe \in [Tag -> Nat] /\ bdev \in SUBSET Slot
      /\ comp \in SUBSET Slot /\ first \in Slot \cup {None}
  BY DEF Inv, TypeInv, SeqInv
<1>10. Taken(r, s, k) /\ r[s].st = "NEW" /\ r[s].tag = t
  BY <1>7, <1>9, FreshIs
<1>11. /\ rq[s].st = "FREE" /\ s \notin Elems(hq) /\ s \notin bdev /\ s \notin comp
       /\ s \notin tx /\ s \notin refused /\ first # s
  BY <1>2, <1>3 DEF Inv, SlotInv, Busy
<1>12. cur' \in {s, None} /\ first' \in {s, None} /\ (first' = s <=> k = "first")
  BY <1>8, McdmaConstants DEF FirstAfter, Slot
<1>13. /\ r \in [Slot -> Request] /\ r[s].kind = k /\ r[s].left = 0
  BY <1>10 DEF Taken
<1>14. ASSUME Rest({s, first}), ~(rq'[s].left > 0),
              ((GetsAnswer(s) \/ GoesOn(s)) /\ first' # s) \/ Waits(s),
              first # None => (GetsAnswer(first) \/ GoesOn(first)) /\ ~(rq'[first].left > 0)
       PROVE  Inv'
  BY <1>1, <1>3, <1>12, <1>14, CommandTaken
<1>15. Orphan(k) \in SUBSET Slot /\ s \notin Orphan(k)
  BY <1>9, <1>11 DEF Orphan
<1>16. ASSUME k = "first", Pass([r EXCEPT ![s].st = "READY_TO_EXECUTE"], <<>>, bdev, {}, Orphan("first"))
       PROVE  Inv'
  <2>1. PICK q : q = InState(r, s, "READY_TO_EXECUTE")
    OBVIOUS
  <2>2. Taken(q, s, k) /\ q[s].st = "READY_TO_EXECUTE"
    BY <1>10, <2>1, StateSet DEF States
  <2>3. q \in [Slot -> Request] /\ Orphan("first") = Orphan(k)
    BY <1>16, <2>2 DEF Taken
  <2>4. Settled(q, {}, bdev, {}, Orphan(k))
    BY <1>9, <1>15, <1>16, <2>1, <2>3, PassIs, ZenonT(30) DEF InState
  <2>5. /\ Rest({s, first})
        /\ first # None => (GetsAnswer(first) \/ GoesOn(first)) /\ ~(rq'[first].left > 0)
    <3>1. k # "second"
      BY <1>16
    <3>. QED BY <1>9, <1>11, <2>2, <2>4, <3>1, OrphanFails, SMTT(30)
  <2>6. Waits(s) /\ ~(rq'[s].left > 0)
    <3>1. rq'[s] = q[s]
      BY <1>15, <2>4 DEF Settled
    <3>2. s \notin Elems(hq') /\ s \notin bdev' /\ s \notin comp' /\ s \notin tx' /\ s \notin refused'
      BY <1>11, <1>15, <2>4 DEF Settled
    <3>. QED BY <1>12, <1>16, <2>2, <3>1, <3>2, SMTT(30) DEF Waits, Taken, Nowhere
  <2>. QED BY <1>14, <2>5, <2>6
<1>17. ASSUME k = "second", first # None,
              Pass([r EXCEPT ![first].st = "EXECUTING", ![s].st = "EXECUTING"],
                   <<>>, bdev \cup {first, s}, {}, {})
       PROVE  Inv'
  <2>1. PICK f \in Slot : f = first
    BY <1>9, <1>17
  <2>2. PICK p : p = [r EXCEPT ![f].st = "EXECUTING"]
    OBVIOUS
  <2>3. PICK q : q = [p EXCEPT ![s].st = "EXECUTING"]
    OBVIOUS
  <2>4. Pass(q, <<>>, bdev \cup {f, s}, {}, {})
    BY <1>17, <2>1, <2>2, <2>3
  <2>5. /\ rq[f].st = "READY_TO_EXECUTE" /\ rq[f].kind = "first" /\ rq[f].tag \in Tag
        /\ ~(rq[f].left > 0) /\ f \notin Elems(hq) /\ f \notin comp /\ f \notin tx /\ f \notin refused
    <3>1. SlotInv(f)
      BY DEF Inv
    <3>. QED BY <2>1, <3>1 DEF SlotInv, Busy
  <2>6. p \in [Slot -> Request] /\ p[f].st = "EXECUTING" /\ \A x \in Slot \ {f} : p[x] = r[x]
    BY <1>13, <2>2, SMT DEF Request, States
  <2>7. p[f].tag = r[f].tag /\ p[f].kind = r[f].kind /\ p[f].left = r[f].left
    BY <1>13, <2>2 DEF Request
  <2>8. r[f] = rq[f] /\ s # f
    BY <1>10, <1>11, <2>1 DEF Taken
  <2>9. q \in [Slot -> Request] /\ q[s].st = "EXECUTING" /\ \A x \in Slot \ {s} : q[x] = p[x]
    BY <2>3, <2>6, SMT DEF Request, States
  <2>10. q[s].tag = r[s].tag /\ q[s].kind = r[s].kind /\ q[s].left = r[s].left
    BY <2>3, <2>6, <2>8 DEF Request
  <2>11. Settled(q, {}, bdev \cup {f, s}, {}, {})
    BY <1>9, <2>4, <2>9, PassIs
  <2>12. \A x \in Slot \ {s, f} : q[x] = rq[x]
    BY <1>10, <2>6, <2>9 DEF Taken
  <2>13. Rest({s, f})
    BY <1>9, <2>11, <2>12 DEF Settled, Rest
  <2>14. rq'[s] = q[s] /\ rq'[f] = q[f] /\ q[f] = p[f]
    BY <2>8, <2>9, <2>11 DEF Settled
  <2>15. /\ s \notin Elems(hq') /\ s \in bdev' /\ s \notin comp' /\ s \notin tx' /\ s \notin refused'
         /\ f \notin Elems(hq') /\ f \in bdev' /\ f \notin comp' /\ f \notin tx' /\ f \notin refused'
    BY <1>11, <2>5, <2>11 DEF Settled
  <2>16. GoesOn(s) /\ ~(rq'[s].left > 0)
    BY <1>10, <1>13, <1>17, <2>9, <2>10, <2>14, <2>15, SMT DEF GoesOn
  <2>17. GoesOn(f) /\ ~(rq'[f].left > 0)
    BY <2>5, <2>6, <2>7, <2>8, <2>14, <2>15 DEF GoesOn
  <2>. QED BY <1>12, <1>14, <1>17, <2>1, <2>13, <2>16, <2>17
<1>18. ASSUME k = "second", first = None, Pass(r, <<>>, bdev, {}, {s}) PROVE Inv'
  <2>1. Settled(r, {}, bdev, {}, {s})
    BY <1>9, <1>13, <1>18, PassIs
  <2>2. Rest({s, first})
    BY <1>9, <1>10, <2>1 DEF Settled, Taken, Rest
  <2>3. GetsAnswer(s) /\ ~(rq'[s].left > 0)
    <3>1. Answered(rq'[s], r[s])
      BY <2>1 DEF Settled
    <3>2. s \notin Elems(hq') /\ s \notin bdev' /\ s \notin comp'
      BY <1>11, <2>1 DEF Settled
    <3>3. s \in tx' <=> s \notin refused'
      BY <1>11, <2>1 DEF Settled
    <3>. QED BY <1>10, <3>1, <3>2, <3>3, SMTT(30) DEF GetsAnswer, Nowhere, Answered
  <2>. QED BY <1>12, <1>14, <1>18, <2>2, <2>3
<1>19. ASSUME k = "mgmt", Pass([r EXCEPT ![s].st = "TRANSFERRING"], <<>>, bdev, {}, Orphan(k))
       PROVE  Inv'
  <2>1. PICK q : q = InState(r, s, "TRANSFERRING")
    OBVIOUS
  <2>2. Taken(q, s, k) /\ q[s].st = "TRANSFERRING"
    BY <1>10, <2>1, StateSet DEF States
  <2>3. q \in [Slot -> Request]
    BY <2>2 DEF Taken
  <2>4. Settled(q, {}, bdev, {}, Orphan(k))
    BY <1>9, <1>15, <1>19, <2>1, <2>3, PassIs, ZenonT(30) DEF InState
  <2>5. /\ Rest({s, first})
        /\ first # None => (GetsAnswer(first) \/ GoesOn(first)) /\ ~(rq'[first].left > 0)
    <3>1. k # "second"
      BY <1>19
    <3>. QED BY <1>9, <1>11, <2>2, <2>4, <3>1, OrphanFails, SMTT(30)
  <2>6. Waits(s) /\ ~(rq'[s].left > 0)
    <3>1. rq'[s] = q[s]
      BY <1>15, <2>4 DEF Settled
    <3>2. s \notin Elems(hq') /\ s \notin bdev' /\ s \notin comp' /\ s \notin tx' /\ s \notin refused'
      BY <1>11, <1>15, <2>4 DEF Settled
    <3>3. cur' = s /\ first' # s
      BY <1>8, <1>12, <1>19 DEF HasData
    <3>. QED BY <1>19, <2>2, <3>1, <3>2, <3>3, SMTT(30) DEF Waits, Taken, Nowhere
  <2>. QED BY <1>14, <2>5, <2>6
<1>20. ASSUME k \notin {"first", "second"}, Pass(r, <<>>, bdev, {}, Orphan(k) \cup {s}) PROVE Inv'
  <2>1. Settled(r, {}, bdev, {}, Orphan(k) \cup {s})
    BY <1>9, <1>13, <1>15, <1>20, PassIs, ZenonT(30)
  <2>2. /\ Rest({s, first})
        /\ first # None => (GetsAnswer(first) \/ GoesOn(first)) /\ ~(rq'[first].left > 0)
    <3>1. k # "second" /\ \A x \in Slot \ {s} : x \in Orphan(k) \cup {s} <=> x \in Orphan(k)
      BY <1>20
    <3>. QED BY <1>9, <1>10, <1>11, <2>1, <3>1, OrphanFails, SMTT(30)
  <2>3. GetsAnswer(s) /\ ~(rq'[s].left > 0)
    <3>1. Answered(rq'[s], r[s])
      BY <2>1 DEF Settled
    <3>2. s \notin Elems(hq') /\ s \notin bdev' /\ s \notin comp'
      BY <1>11, <2>1 DEF Settled
    <3>3. s \in tx' <=> s \notin refused'
      BY <1>11, <2>1 DEF Settled
    <3>. QED BY <1>10, <3>1, <3>2, <3>3, SMTT(30) DEF GetsAnswer, Nowhere, Answered
  <2>. QED BY <1>12, <1>14, <1>20, <2>2, <2>3
<1>21. ASSUME Fsm(k) # "NON_OP", Pass(Executing(r, s), <<s>>, bdev, {}, Orphan(k))
       PROVE  Inv'
  <2>1. Taken(Executing(r, s), s, k) /\ Executing(r, s)[s].st = "EXECUTING"
    BY <1>10, ExecutingIs
  <2>2. Executing(r, s) \in [Slot -> Request]
    BY <2>1 DEF Taken
  <2>3. Settled(Executing(r, s), {s}, bdev, {}, Orphan(k))
    BY <1>9, <1>11, <1>15, <1>21, <2>2, PassIs
  <2>4. k \notin {"first", "second"}
    BY <1>21 DEF Fsm
  <2>5. /\ Rest({s, first})
        /\ first # None => (GetsAnswer(first) \/ GoesOn(first)) /\ ~(rq'[first].left > 0)
    BY <1>9, <1>11, <2>1, <2>3, <2>4, OrphanFails, SMTT(30)
  <2>6. GoesOn(s) /\ ~(rq'[s].left > 0)
    <3>1. rq'[s] = Executing(r, s)[s]
      BY <1>15, <2>3 DEF Settled
    <3>2. s \notin tx' /\ s \notin refused'
      BY <1>11, <1>15, <2>3 DEF Settled
    <3>3. s \in Elems(hq') /\ s \notin bdev' /\ s \notin comp'
      BY <1>11, <2>3 DEF Settled
    <3>. QED BY <2>1, <2>4, <3>1, <3>2, <3>3, SMTT(30) DEF GoesOn, Taken
  <2>. QED BY <1>12, <1>14, <2>4, <2>5, <2>6
<1>22. ASSUME k = "exec0", Pass(Executing(r, s), <<>>, bdev, {s}, Orphan(k))
       PROVE  Inv'
  <2>1. Taken(Executing(r, s), s, k) /\ Executing(r, s)[s].st = "EXECUTING"
    BY <1>10, ExecutingIs
  <2>2. Executing(r, s) \in [Slot -> Request]
    BY <2>1 DEF Taken
  <2>3. Settled(Executing(r, s), {}, bdev, {s}, Orphan(k))
    BY <1>9, <1>11, <1>15, <1>22, <2>2, PassIs
  <2>4. k \notin {"first", "second"}
    BY <1>22 DEF Fsm
  <2>5. /\ Rest({s, first})
        /\ first # None => (GetsAnswer(first) \/ GoesOn(first)) /\ ~(rq'[first].left > 0)
    BY <1>9, <1>11, <2>1, <2>3, <2>4, OrphanFails, SMTT(30)
  <2>6. GoesOn(s) /\ ~(rq'[s].left > 0)
    <3>1. rq'[s] = Executing(r, s)[s]
      BY <1>15, <2>3 DEF Settled
    <3>2. s \notin tx' /\ s \notin refused'
      BY <1>11, <1>15, <2>3 DEF Settled
    <3>3. s \notin Elems(hq') /\ s \notin bdev' /\ s \in comp'
      BY <1>11, <2>3 DEF Settled
    <3>. QED BY <2>1, <2>4, <3>1, <3>2, <3>3, SMTT(30) DEF GoesOn, Taken
  <2>. QED BY <1>12, <1>14, <2>4, <2>5, <2>6
<1>23. ASSUME k = "rw", Pass(Executing(r, s), <<>>, bdev \cup {s}, {}, Orphan(k))
       PROVE  Inv'
  <2>1. Taken(Executing(r, s), s, k) /\ Executing(r, s)[s].st = "EXECUTING"
    BY <1>10, ExecutingIs
  <2>2. Executing(r, s) \in [Slot -> Request]
    BY <2>1 DEF Taken
  <2>3. Settled(Executing(r, s), {}, bdev \cup {s}, {}, Orphan(k))
    BY <1>9, <1>11, <1>15, <1>23, <2>2, PassIs
  <2>4. k \notin {"first", "second"} /\ k # "copy3"
    BY <1>23 DEF Fsm
  <2>5. /\ Rest({s, first})
        /\ first # None => (GetsAnswer(first) \/ GoesOn(first)) /\ ~(rq'[first].left > 0)
    BY <1>9, <1>11, <2>1, <2>3, <2>4, OrphanFails, SMTT(30)
  <2>6. GoesOn(s) /\ ~(rq'[s].left > 0)
    <3>1. rq'[s] = Executing(r, s)[s]
      BY <1>15, <2>3 DEF Settled
    <3>2. s \notin tx' /\ s \notin refused'
      BY <1>11, <1>15, <2>3 DEF Settled
    <3>3. s \notin Elems(hq') /\ s \in bdev' /\ s \notin comp'
      BY <1>11, <2>3 DEF Settled
    <3>. QED BY <2>1, <2>4, <3>1, <3>2, <3>3, SMTT(30) DEF GoesOn, Taken
  <2>. QED BY <1>12, <1>14, <2>4, <2>5, <2>6
<1>24. CASE k \in {"first", "second"}
  <2>1. ReadyFused(r, s)
    BY <1>8, <1>24
  <2>. QED BY <1>13, <1>16, <1>17, <1>18, <2>1 DEF ReadyFused
<1>25. CASE k \notin {"first", "second"} /\ ~HasData(k)
  <2>1. ReadyToExecute(r, s, Orphan(k))
    BY <1>8, <1>25
  <2>. QED BY <1>13, <1>20, <1>21, <1>22, <1>23, <1>25, <2>1 DEF ReadyToExecute
<1>26. CASE HasData(k)
  BY <1>8, <1>19, <1>26 DEF HasData
<1>. QED BY <1>24, <1>25, <1>26

-----------------------------------------------------------------------------
(* The invariant.                                                           *)

\* A queue pair starts with all its requests free and all its entries there.
LEMMA InitInv == Init => Inv
<1>. SUFFICES ASSUME Init PROVE Inv
  OBVIOUS
<1>1. /\ free \in Seq(Slot) /\ DOMAIN free = Slot /\ \A i \in Slot : free[i] = i
  BY McdmaConstants, SMT DEF Init, Slot
<1>2. Elems(free) = Slot /\ Distinct(free)
  BY <1>1 DEF Elems, Distinct
<1>3. Elems(hq) = {} /\ Elems(ring) = {} /\ Reqs(msgs) = {} /\ Distinct(hq) /\ Distinct(ring)
      /\ DistinctReqs(msgs)
  BY SMT DEF Init, Elems, Reqs, Distinct, DistinctReqs
<1>4. /\ rq \in [Slot -> Request]
      /\ \A s \in Slot : /\ rq[s].st = "FREE" /\ rq[s].tag = None /\ rq[s].left = 0
                         /\ rq[s].kind = None
  <2>1. NoReq.st = "FREE" /\ NoReq.tag = None /\ NoReq.left = 0 /\ NoReq.kind = None
    BY DEF NoReq
  <2>. QED BY <2>1, NoReqIs DEF Init
<1>5. TypeInv
  BY <1>1, <1>4, McdmaConstants, SMT DEF Init, TypeInv
<1>6. SeqInv
  BY <1>2, <1>3 DEF SeqInv
<1>7. ASSUME NEW s \in Slot PROVE SlotInv(s)
  <2>1. first # s /\ bdev = {} /\ comp = {} /\ tx = {} /\ refused = {}
    BY McdmaConstants DEF Init, Slot
  <2>. QED BY <1>2, <1>3, <1>4, <2>1, SMT DEF SlotInv, OnePlace, Busy
<1>8. SumInv
  <2>1. Live = {} /\ Copying = {}
    BY <1>4, SMT DEF Live, Copying
  <2>2. recvs = Recvs /\ Len(inc) = 0 /\ bufs = Bufs
    BY DEF Init
  <2>. QED BY <2>1, <2>2, FS_EmptySet, McdmaConstants, SMT DEF SumInv
<1>. QED BY <1>5, <1>6, <1>7, <1>8 DEF Inv

\* A step that changes nothing.
LEMMA StutterInv == ASSUME Inv, UNCHANGED vars PROVE Inv'
<1>1. UNCHANGED <<qp, host, wire, inc, recvs, free, cur, rq, first, hq, ring, msgs, bdev, comp, tx,
                  cqe, refused, bufs>>
  BY DEF vars
<1>2. SeqInv' /\ SlotInvs' /\ Live' = Live /\ Copying' = Copying
  BY <1>1, SlotsKept DEF Inv, SlotInvs
<1>3. TypeInv'
  BY <1>1 DEF Inv, TypeInv
<1>4. SumInv'
  BY <1>1, <1>2 DEF Inv, SumInv
<1>. QED BY <1>2, <1>3, <1>4 DEF Inv, SlotInvs

\* Requests, entries and buffers stay accounted for: the invariant of the queue pair.
THEOREM QueuePairInvariant == Spec => []Inv
<1>1. ASSUME Inv, [Next]_vars PROVE Inv'
  BY <1>1, HostKeeps, HandcOpKeeps, HandcRxKeeps, ReqCallbackKeeps, QeSendCmplKeeps,
     RequestCompleteKeeps, TakeMessageKeeps, ProcessDataKeeps, ProcessCommandKeeps, StutterInv
     DEF Next, PollerPoll
<1>. QED BY InitInv, <1>1, PTL DEF Spec

\* A set of indices with at most one member.
LEMMA AtMostOne ==
    ASSUME NEW I, \A i, j \in I : i = j
    PROVE  IsFiniteSet(I) /\ Cardinality(I) = IF I = {} THEN 0 ELSE 1
<1>1. CASE I = {}
  BY <1>1, FS_EmptySet
<1>2. CASE I # {}
  <2>1. PICK i \in I : TRUE
    BY <1>2
  <2>2. I = {i}
    BY <2>1
  <2>3. IsFiniteSet({i}) /\ Cardinality({i}) = 1
    BY FS_Singleton
  <2>. QED BY <1>2, <2>2, <2>3
<1>. QED BY <1>1, <1>2

\* How often a queue without repetition holds an element.
LEMMA PlacesIs ==
    ASSUME NEW q, Distinct(q), NEW x
    PROVE  Places(q, x) = IF x \in Elems(q) THEN 1 ELSE 0
<1>. DEFINE I == {i \in DOMAIN q : q[i] = x}
<1>1. \A i, j \in I : i = j
  BY DEF Distinct
<1>2. I = {} <=> x \notin Elems(q)
  BY DEF Elems
<1>3. Places(q, x) = Cardinality(I)
  BY DEF Places
<1>. HIDE DEF I
<1>. QED BY <1>1, <1>2, <1>3, AtMostOne

\* Request objects, receive entries and copy buffers are conserved: every one that
\* left its pool is held by a packet, a request or a copy, and comes back once.
THEOREM PoolsAreConserved == Spec => []PoolsConserved
<1>1. ASSUME Inv PROVE PoolsConserved
  <2>1. ASSUME NEW s \in Slot PROVE Places(free, s) = IF rq[s].st = "FREE" THEN 1 ELSE 0
    <3>1. Distinct(free) /\ (s \in Elems(free) <=> rq[s].st = "FREE")
      BY <1>1 DEF Inv, SeqInv, SlotInv
    <3>2. Places(free, s) = IF s \in Elems(free) THEN 1 ELSE 0
      BY <3>1, PlacesIs
    <3>. QED BY <3>1, <3>2
  <2>2. recvs + Len(inc) + Cardinality(Live) = Recvs
    BY <1>1 DEF Inv, SumInv
  <2>3. bufs + 2 * Cardinality({s \in Slot : rq[s].left > 0}) = Bufs
    BY <1>1 DEF Inv, SumInv, Copying
  <2>. QED BY <2>1, <2>2, <2>3 DEF PoolsConserved
<1>. QED BY <1>1, QueuePairInvariant, PTL

\* Every request the state machine handed on has one callback to come, and a request
\* that is free, answered or waiting has none: no callback finds a request that has
\* been given to another command.
THEOREM ExactlyOneCallback == Spec => []OneCallback
<1>1. ASSUME Inv, NEW s \in Slot
      PROVE  Callbacks(s) = IF rq[s].st = "EXECUTING" /\ s \notin refused THEN 1 ELSE 0
  <2>1. Distinct(hq) /\ Distinct(ring) /\ DistinctReqs(msgs) /\ SlotInv(s)
    BY <1>1 DEF Inv, SeqInv
  <2>2. Places(hq, s) = IF s \in Elems(hq) THEN 1 ELSE 0
    BY <2>1, PlacesIs
  <2>3. Places(ring, s) = IF s \in Elems(ring) THEN 1 ELSE 0
    BY <2>1, PlacesIs
  <2>4. Cardinality({i \in DOMAIN msgs : msgs[i].req = s}) = IF s \in Reqs(msgs) THEN 1 ELSE 0
    <3>. DEFINE I == {i \in DOMAIN msgs : msgs[i].req = s}
    <3>1. \A i, j \in I : i = j
      BY <2>1 DEF DistinctReqs
    <3>2. I = {} <=> s \notin Reqs(msgs)
      BY DEF Reqs
    <3>. HIDE DEF I
    <3>3. Cardinality(I) = IF s \in Reqs(msgs) THEN 1 ELSE 0
      BY <3>1, <3>2, AtMostOne
    <3>. QED BY <3>3 DEF I
  <2>5. Cardinality({X \in {<<1, bdev>>, <<2, comp>>} : s \in X[2]})
           = IF s \in bdev \/ s \in comp THEN 1 ELSE 0
    <3>. DEFINE I == {X \in {<<1, bdev>>, <<2, comp>>} : s \in X[2]}
    <3>1. ~(s \in bdev /\ s \in comp)
      BY <2>1 DEF SlotInv, OnePlace
    <3>2. \A i, j \in I : i = j
      BY <3>1, SMT
    <3>3. I = {} <=> ~(s \in bdev \/ s \in comp)
      <4>1. <<1, bdev>>[2] = bdev /\ <<2, comp>>[2] = comp
        OBVIOUS
      <4>2. s \in bdev => <<1, bdev>> \in I
        BY <4>1
      <4>3. s \in comp => <<2, comp>> \in I
        BY <4>1
      <4>4. ASSUME NEW X \in I PROVE s \in bdev \/ s \in comp
        BY <4>1
      <4>. HIDE DEF I
      <4>. QED BY <4>2, <4>3, <4>4
    <3>. HIDE DEF I
    <3>4. Cardinality(I) = IF s \in bdev \/ s \in comp THEN 1 ELSE 0
      BY <3>2, <3>3, AtMostOne
    <3>. QED BY <3>4 DEF I
  <2>6. /\ OnePlace(s)
        /\ Busy(s) <=> rq[s].st = "EXECUTING" /\ s \notin refused
    BY <2>1 DEF SlotInv
  <2>. HIDE DEF Elems, Reqs
  <2>. QED BY <2>2, <2>3, <2>4, <2>5, <2>6, SMT DEF Callbacks, OnePlace, Busy
<1>2. ASSUME Inv PROVE OneCallback
  BY <1>1, <1>2 DEF OneCallback, Inv, SlotInv
<1>. QED BY <1>2, QueuePairInvariant, PTL
=============================================================================
