------------------------- MODULE McdmaCommandProofs -------------------------
(****************************************************************************)
(* Proofs about McdmaTransport, continued: as long as no packet is dropped, *)
(* a command is in one place until it is answered, and packets are taken    *)
(* for what they are. With enough receive entries no packet is dropped.     *)
(****************************************************************************)
EXTENDS McdmaProofs

\* Most leaves are first-order reasoning over sets and functions, which Zenon finds at
\* once; the leaves with arithmetic, records or sequences name SMT.
USE Zenon

(* As long as no packet finds the receive pool empty: the packets that have *)
(* arrived and those still to come are commands with all their data.        *)
Final(x) == HasData(x.kind) => x.n = DataPkts
Follows(x, y) == IF Final(x) THEN y.n = 0 ELSE y.n = x.n + 1 /\ y.tag = x.tag /\ y.kind = x.kind
Chain(q) ==
    /\ \A i \in 1..(Len(q) - 1) : Follows(q[i], q[i + 1])
    /\ \A i \in 1..Len(q) : q[i].n > 0 => HasData(q[i].kind)
    /\ q # <<>> => Final(q[Len(q)])
Expected(x) == IF AwaitsData THEN x.n > 0 /\ x.tag = rq[cur].tag ELSE x.n = 0
Stream == inc \o wire
StreamInv ==
    /\ Chain(Stream)
    /\ IF Stream = <<>> THEN ~AwaitsData ELSE Expected(Head(Stream))
    /\ \A i \in 1..Len(wire) : wire[i].n > 0

\* Where the command of a tag is: among the packets (C), in a request (U), or in c
\* completion entries; h is what the host has outstanding.
InOnePlace(C, U, c, h) ==
    /\ \A i, j \in C : i = j
    /\ \A s, u \in U : s = u
    /\ C # {} => U = {} /\ c = 0
    /\ U # {} => c = 0
    /\ c <= 1
    /\ h = None <=> C = {} /\ U = {} /\ c = 0
CmdIn(q, t) == {i \in DOMAIN q : q[i].tag = t /\ q[i].n = 0}
TagInv(t) == InOnePlace(CmdIn(inc, t), Unanswered(t), cqe[t], host[t])
CmdInv == StreamInv /\ \A t \in Tag : TagInv(t)

-----------------------------------------------------------------------------
\* A packet that finds the receive pool empty is dropped.
Dropped == recvs = 0 /\ (DataArrives \/ \E t \in Tag : HostSend(t))

\* The first packet of a queue is taken.
LEMMA FirstTaken ==
    ASSUME NEW p \in Seq(Packet), NEW q \in Seq(Packet), p # <<>>
    PROVE  /\ p \o q \in Seq(Packet) /\ p \o q # <<>> /\ Head(p \o q) = Head(p)
           /\ Tail(p) \o q = Tail(p \o q)
<1>1. /\ Len(p) \in Nat /\ Len(q) \in Nat /\ Len(p) >= 1 /\ Tail(p) \in Seq(Packet)
      /\ p \o q \in Seq(Packet) /\ Len(p \o q) = Len(p) + Len(q)
      /\ Len(Tail(p)) = Len(p) - 1 /\ Len(Tail(p) \o q) = Len(p) - 1 + Len(q)
      /\ Tail(p) \o q \in Seq(Packet)
  BY SMT
<1>2. p \o q # <<>> /\ Head(p \o q) = Head(p)
  BY <1>1, SMT
<1>3. Tail(p \o q) \in Seq(Packet) /\ Len(Tail(p \o q)) = Len(p) - 1 + Len(q)
  BY <1>1, <1>2, SMT
<1>4. ASSUME NEW i \in 1..(Len(p) - 1 + Len(q)) PROVE (Tail(p) \o q)[i] = Tail(p \o q)[i]
  <2>1. Tail(p \o q)[i] = (p \o q)[i + 1]
    BY <1>1, <1>2, <1>3, SMT
  <2>2. CASE i <= Len(p) - 1
    BY <1>1, <2>1, <2>2, SMT
  <2>3. CASE i > Len(p) - 1
    BY <1>1, <2>1, <2>3, SMT
  <2>. QED BY <1>1, <2>2, <2>3, SMT
<1>. QED BY <1>1, <1>2, <1>3, <1>4, SMT

\* The first packet of wire arrives.
LEMMA PacketMoves ==
    ASSUME NEW p \in Seq(Packet), NEW q \in Seq(Packet), q # <<>>
    PROVE  Append(p, Head(q)) \o Tail(q) = p \o q
<1>1. /\ Len(p) \in Nat /\ Len(q) \in Nat /\ Len(q) >= 1 /\ Tail(q) \in Seq(Packet) /\ Head(q) \in Packet
      /\ p \o q \in Seq(Packet) /\ Len(p \o q) = Len(p) + Len(q) /\ Append(p, Head(q)) \in Seq(Packet)
      /\ Len(Append(p, Head(q))) = Len(p) + 1 /\ Len(Tail(q)) = Len(q) - 1 /\ Head(q) = q[1]
  BY SMT
<1>2. /\ Append(p, Head(q)) \o Tail(q) \in Seq(Packet)
      /\ Len(Append(p, Head(q)) \o Tail(q)) = Len(p) + Len(q)
  BY <1>1, SMT
<1>3. ASSUME NEW i \in 1..(Len(p) + Len(q)) PROVE (Append(p, Head(q)) \o Tail(q))[i] = (p \o q)[i]
  <2>1. CASE i <= Len(p)
    BY <1>1, <2>1, SMT
  <2>2. CASE i = Len(p) + 1
    BY <1>1, <2>2, SMT
  <2>3. CASE i > Len(p) + 1
    <3>1. (p \o q)[i] = q[i - Len(p)]
      BY <1>1, <2>3, SMT
    <3>2. (Append(p, Head(q)) \o Tail(q))[i] = Tail(q)[i - Len(p) - 1]
      BY <1>1, <2>3, SMT
    <3>3. Tail(q)[i - Len(p) - 1] = q[i - Len(p)]
      BY <1>1, <2>3, SMT
    <3>. QED BY <3>1, <3>2, <3>3
  <2>. QED BY <1>1, <2>1, <2>2, <2>3, SMT
<1>. QED BY <1>1, <1>2, <1>3, SMT

\* What is left of the stream when its first packet is taken.
LEMMA ChainTaken ==
    ASSUME NEW q \in Seq(Packet), q # <<>>, Chain(q)
    PROVE  /\ Tail(q) \in Seq(Packet) /\ Chain(Tail(q)) /\ Head(q) \in Packet
           /\ Tail(q) # <<>> => Follows(Head(q), Head(Tail(q)))
           /\ Tail(q) = <<>> => Final(Head(q))
           /\ Head(q).n > 0 => HasData(Head(q).kind)
<1>1. /\ Len(q) \in Nat /\ Len(q) >= 1 /\ Tail(q) \in Seq(Packet) /\ Len(Tail(q)) = Len(q) - 1
      /\ Head(q) = q[1] /\ Head(q) \in Packet
      /\ \A i \in 1..(Len(q) - 1) : Tail(q)[i] = q[i + 1]
  BY SMT
<1>2. ASSUME NEW i \in 1..(Len(Tail(q)) - 1) PROVE Follows(Tail(q)[i], Tail(q)[i + 1])
  <2>1. Tail(q)[i] = q[i + 1] /\ Tail(q)[i + 1] = q[i + 1 + 1] /\ i + 1 \in 1..(Len(q) - 1)
    BY <1>1, SMT
  <2>. QED BY <2>1 DEF Chain
<1>3. ASSUME NEW i \in 1..Len(Tail(q)), Tail(q)[i].n > 0 PROVE HasData(Tail(q)[i].kind)
  <2>1. Tail(q)[i] = q[i + 1] /\ i + 1 \in 1..Len(q)
    BY <1>1, SMT
  <2>. QED BY <1>3, <2>1 DEF Chain
<1>4. Tail(q) # <<>> => Len(q) > 1 /\ Tail(q)[Len(Tail(q))] = q[Len(q)] /\ Head(Tail(q)) = q[2]
  BY <1>1, SMT
<1>5. Tail(q) = <<>> => Len(q) = 1
  BY <1>1, SMT
<1>6. Chain(Tail(q))
  BY <1>2, <1>3, <1>4 DEF Chain
<1>7. Tail(q) # <<>> => Follows(Head(q), Head(Tail(q)))
  <2>1. Tail(q) # <<>> => 1 \in 1..(Len(q) - 1) /\ 1 + 1 = 2
    BY <1>1, <1>4, SMT
  <2>. QED BY <1>1, <1>4, <2>1 DEF Chain
<1>8. 1 \in 1..Len(q)
  BY <1>1, SMT
<1>. QED BY <1>1, <1>5, <1>6, <1>7, <1>8 DEF Chain

\* A pass answers the command of a request it completes, and no other: the command is
\* in a completion entry then.
LEMMA PassAnswers ==
    ASSUME Inv, NEW r \in [Slot -> Request], NEW h, NEW b, NEW c, NEW A \in SUBSET Slot,
           Pass(r, h, b, c, A), A \cap tx = {}, NEW t \in Tag, NEW C, NEW g,
           InOnePlace(C, {s \in Slot : r[s].tag = t /\ s \notin tx}, cqe[t], g)
    PROVE  InOnePlace(C, Unanswered(t)', cqe'[t], g)
<1>1. PICK sent \in SUBSET A :
         /\ rq' = [s \in Slot |-> IF s \in A THEN [NoReq EXCEPT !.st = "COMPLETING", !.tag = r[s].tag]
                              ELSE r[s]]
         /\ tx' = tx \cup sent
         /\ cqe' = [u \in Tag |-> cqe[u] + Cardinality({s \in sent : r[s].tag = u})]
  BY DEF Pass
<1>. DEFINE U == {s \in Slot : r[s].tag = t /\ s \notin tx}
            D == {s \in sent : r[s].tag = t}
<1>2. \A s \in Slot : rq'[s].tag = r[s].tag
  <2>1. \A s \in Slot : r[s].tag \in Tag \cup {None}
    BY DEF Request
  <2>2. ASSUME NEW s \in Slot, s \in A PROVE rq'[s].tag = r[s].tag
    <3>1. PICK u \in Tag \cup {None} : u = r[s].tag
      BY <2>1
    <3>2. rq'[s] = [NoReq EXCEPT !.st = "COMPLETING", !.tag = u]
      BY <1>1, <2>2, <3>1
    <3>. QED BY <3>1, <3>2, NoReqIs
  <2>3. ASSUME NEW s \in Slot, s \notin A PROVE rq'[s].tag = r[s].tag
    BY <1>1, <2>3
  <2>. QED BY <2>2, <2>3
<1>3. Unanswered(t)' = U \ D
  <2>1. Unanswered(t)' = {s \in Slot : rq'[s].tag = t /\ s \notin tx'}
    BY DEF Unanswered
  <2>. QED BY <1>1, <1>2, <2>1
<1>4. D \subseteq U
  BY <1>1
<1>5. cqe[t] \in Nat /\ cqe'[t] = cqe[t] + Cardinality(D)
  BY <1>1 DEF Inv, TypeInv
<1>. HIDE DEF U, D
<1>6. InOnePlace(C, U, cqe[t], g)
  BY DEF U
<1>7. Cardinality(D) = IF D = {} THEN 0 ELSE 1
  BY <1>4, <1>6, AtMostOne, SMT DEF InOnePlace
<1>8. CASE D = {}
  <2>1. U \ D = U /\ cqe'[t] = cqe[t]
    BY <1>5, <1>7, <1>8, SMT
  <2>. QED BY <1>3, <1>6, <2>1
<1>9. CASE D # {}
  <2>1. U \ D = {} /\ U # {}
    BY <1>4, <1>6, <1>9 DEF InOnePlace
  <2>2. C = {} /\ cqe[t] = 0 /\ g # None
    BY <1>6, <2>1 DEF InOnePlace
  <2>3. cqe'[t] = 1
    BY <1>5, <1>7, <1>9, <2>2, SMT
  <2>. QED BY <1>3, <2>1, <2>2, <2>3, SMT DEF InOnePlace
<1>. QED BY <1>8, <1>9

\* The next packet is expected by the same request as before.
LEMMA StreamKept ==
    ASSUME Inv, StreamInv, UNCHANGED <<inc, wire, cur>>,
           \A x \in Slot : /\ rq'[x].st = "TRANSFERRING" <=> rq[x].st = "TRANSFERRING"
                           /\ rq[x].st = "TRANSFERRING" => rq'[x].tag = rq[x].tag
    PROVE  StreamInv'
<1>1. cur \in Slot \cup {None}
  BY DEF Inv, TypeInv
<1>2. AwaitsData' <=> AwaitsData
  BY <1>1 DEF AwaitsData
<1>3. AwaitsData => rq'[cur].tag = rq[cur].tag
  BY <1>1 DEF AwaitsData
<1>4. Stream' = Stream
  BY DEF Stream
<1>5. Chain(Stream)' <=> Chain(Stream)
  BY <1>4 DEF Chain, Follows, Final
<1>6. Stream # <<>> => (Expected(Head(Stream))' <=> Expected(Head(Stream)))
  BY <1>2, <1>3, <1>4 DEF Expected
<1>. QED BY <1>2, <1>4, <1>5, <1>6 DEF StreamInv

\* A pass over requests whose commands have arrived.
LEMMA QuietPass ==
    ASSUME Inv, CmdInv, NEW r \in [Slot -> Request], NEW h, NEW b, NEW c, NEW A \in SUBSET Slot,
           Pass(r, h, b, c, A), UNCHANGED <<inc, wire, host, cur>>,
           \A x \in Slot : r[x].tag = rq[x].tag /\ r[x].st = rq[x].st,
           \A x \in A : rq[x].st = "EXECUTING"
    PROVE  CmdInv'
<1>1. \A x \in A : x \notin tx
  BY DEF Inv, SlotInv
<1>2. ASSUME NEW t \in Tag PROVE TagInv(t)'
  <2>1. {s \in Slot : r[s].tag = t /\ s \notin tx} = Unanswered(t)
    BY DEF Unanswered
  <2>2. InOnePlace(CmdIn(inc, t), {s \in Slot : r[s].tag = t /\ s \notin tx}, cqe[t], host[t])
    BY <2>1 DEF CmdInv, TagInv
  <2>3. A \cap tx = {}
    BY <1>1
  <2>4. InOnePlace(CmdIn(inc, t), Unanswered(t)', cqe'[t], host[t])
    BY <2>2, <2>3, PassAnswers
  <2>5. CmdIn(inc, t)' = CmdIn(inc, t)
    BY DEF CmdIn
  <2>. QED BY <2>4, <2>5 DEF TagInv, InOnePlace
<1>3. \A x \in Slot : /\ rq'[x].st = "TRANSFERRING" <=> rq[x].st = "TRANSFERRING"
                      /\ rq[x].st = "TRANSFERRING" => rq'[x].tag = rq[x].tag
  <2>1. PICK sent \in SUBSET A :
           rq' = [s \in Slot |-> IF s \in A THEN [NoReq EXCEPT !.st = "COMPLETING", !.tag = r[s].tag]
                                ELSE r[s]]
    BY DEF Pass
  <2>2. \A x \in Slot : r[x].tag \in Tag \cup {None}
    BY DEF Request
  <2>3. ASSUME NEW x \in Slot, x \in A PROVE rq'[x].st = "COMPLETING"
    <3>1. PICK t \in Tag \cup {None} : t = r[x].tag
      BY <2>2
    <3>2. rq'[x] = [NoReq EXCEPT !.st = "COMPLETING", !.tag = t]
      BY <2>1, <2>3, <3>1
    <3>. QED BY <3>2, SMTT(20) DEF NoReq
  <2>4. ASSUME NEW x \in Slot, x \notin A PROVE rq'[x] = r[x]
    BY <2>1, <2>4
  <2>. QED BY <2>3, <2>4
<1>4. StreamInv'
  BY <1>3, StreamKept DEF CmdInv
<1>. QED BY <1>2, <1>4 DEF CmdInv

\* Steps that leave the commands where they are.
LEMMA ElsewhereKeepsCmd ==
    ASSUME Inv, CmdInv, UNCHANGED <<inc, wire, host, cur, rq, tx, cqe>>
    PROVE  CmdInv'
<1>1. StreamInv'
  BY StreamKept DEF CmdInv
<1>2. ASSUME NEW t \in Tag PROVE TagInv(t)'
  <2>1. CmdIn(inc, t)' = CmdIn(inc, t) /\ Unanswered(t)' = Unanswered(t)
    BY DEF CmdIn, Unanswered
  <2>. QED BY <2>1 DEF CmdInv, TagInv, InOnePlace
<1>. QED BY <1>1, <1>2 DEF CmdInv

\* The block device completes a request.
LEMMA RequestCompleteKeepsCmd ==
    ASSUME Inv, CmdInv, NEW s \in Slot, RequestComplete(s) PROVE CmdInv'
<1>1. s \in bdev /\ UNCHANGED <<inc, wire, host, cur>>
  BY DEF RequestComplete
<1>2. rq[s].st = "EXECUTING" /\ rq \in [Slot -> Request] /\ rq[s].left \in Nat
  BY <1>1 DEF Inv, TypeInv, SlotInv, Busy, Request
<1>3. CASE MoreRanges(s)
  <2>1. PICK r : r = [rq EXCEPT ![s].left = rq[s].left - 1]
    OBVIOUS
  <2>2. Pass(r, <<>>, bdev, {}, {})
    BY <1>3, <2>1 DEF RequestComplete
  <2>3. rq[s].left - 1 \in Nat
    BY <1>2, <1>3, SMT DEF MoreRanges
  <2>4. r \in [Slot -> Request] /\ \A x \in Slot : r[x].tag = rq[x].tag /\ r[x].st = rq[x].st
    BY <1>2, <2>1, <2>3, SMT DEF Request
  <2>. QED BY <1>1, <2>2, <2>4, QuietPass, SMT
<1>4. CASE ~MoreRanges(s)
  <2>1. PICK r : r = [rq EXCEPT ![s].left = 0]
    OBVIOUS
  <2>2. Pass(r, <<>>, bdev \ {s}, {}, {s})
    BY <1>4, <2>1 DEF RequestComplete
  <2>3. r \in [Slot -> Request] /\ \A x \in Slot : r[x].tag = rq[x].tag /\ r[x].st = rq[x].st
    BY <1>2, <2>1, SMT DEF Request
  <2>. QED BY <1>1, <1>2, <2>2, <2>3, QuietPass
<1>. QED BY <1>3, <1>4

\* A message is taken.
LEMMA TakeMessageKeepsCmd == ASSUME Inv, CmdInv, TakeMessage PROVE CmdInv'
<1>1. msgs # <<>> /\ UNCHANGED <<inc, wire, host, cur>>
  BY DEF TakeMessage
<1>2. Head(msgs).req \in Slot /\ Head(msgs).req \in Reqs(msgs)
  BY <1>1, MessageTaken DEF Inv, TypeInv, SeqInv, Message
<1>3. PICK s \in Slot : s = Head(msgs).req
  BY <1>2
<1>4. rq[s].st = "EXECUTING" /\ rq \in [Slot -> Request]
  BY <1>2, <1>3 DEF Inv, TypeInv, SlotInv, Busy
<1>5. PICK r, h, b, c, A :
         /\ Pass(r, h, b, c, A) /\ A \in {{}, {s}}
         /\ \/ r = rq
            \/ \E v \in {"NON_OP", "FETCH_DATA", "END_FETCH_DATA"} : r = [rq EXCEPT ![s].fsm = v]
            \/ \E n \in 1..MaxRanges : r = [rq EXCEPT ![s].fsm = "OPERATOR_SOURCE_RANGES", ![s].left = n]
  <2>1. CASE Pass(rq, <<>>, bdev, {}, {s})
    BY <2>1
  <2>2. CASE FetchData(s)
    BY <2>2 DEF FetchData
  <2>3. CASE ContextsFetched(s)
    BY <2>3 DEF ContextsFetched
  <2>4. CASE RangesFetched(s)
    BY <2>4 DEF RangesFetched
  <2>5. CASE DataFetched(s)
    BY <2>5 DEF DataFetched
  <2>. QED BY <1>3, <2>1, <2>2, <2>3, <2>4, <2>5 DEF TakeMessage
<1>6. r \in [Slot -> Request] /\ \A x \in Slot : r[x].tag = rq[x].tag /\ r[x].st = rq[x].st
  <2>1. CASE r = rq
    BY <1>4, <2>1
  <2>2. ASSUME NEW v \in {"NON_OP", "FETCH_DATA", "END_FETCH_DATA"}, r = [rq EXCEPT ![s].fsm = v]
        PROVE  r \in [Slot -> Request] /\ \A x \in Slot : r[x].tag = rq[x].tag /\ r[x].st = rq[x].st
    BY <1>4, <2>2 DEF Request
  <2>3. ASSUME NEW n \in 1..MaxRanges,
               r = [rq EXCEPT ![s].fsm = "OPERATOR_SOURCE_RANGES", ![s].left = n]
        PROVE  r \in [Slot -> Request] /\ \A x \in Slot : r[x].tag = rq[x].tag /\ r[x].st = rq[x].st
    <3>1. PICK q : q = [rq EXCEPT ![s].fsm = "OPERATOR_SOURCE_RANGES"]
      OBVIOUS
    <3>2. q \in [Slot -> Request] /\ \A x \in Slot : q[x].tag = rq[x].tag /\ q[x].st = rq[x].st
      BY <1>4, <3>1 DEF Request
    <3>3. n \in Nat /\ r = [q EXCEPT ![s].left = n]
      BY <2>3, <3>1, McdmaConstants, SMT
    <3>4. r \in [Slot -> Request] /\ \A x \in Slot : r[x].tag = q[x].tag /\ r[x].st = q[x].st
      BY <3>2, <3>3, SMT DEF Request
    <3>. QED BY <3>2, <3>4
  <2>. QED BY <1>5, <2>1, <2>2, <2>3
<1>7. A \in SUBSET Slot /\ \A x \in A : rq[x].st = "EXECUTING"
  BY <1>4, <1>5
<1>. QED BY <1>1, <1>5, <1>6, <1>7, QuietPass

\* A response has been sent.
LEMMA QeSendCmplKeepsCmd == ASSUME Inv, CmdInv, NEW s \in Slot, QeSendCmpl(s) PROVE CmdInv'
<1>1. /\ s \in tx /\ tx' = tx \ {s} /\ rq' = [rq EXCEPT ![s] = NoReq]
      /\ UNCHANGED <<inc, wire, host, cur, cqe>>
  BY DEF QeSendCmpl
<1>2. rq[s].st = "COMPLETING" /\ rq \in [Slot -> Request]
  BY <1>1 DEF Inv, TypeInv, SlotInv
<1>3. rq'[s].st = "FREE" /\ rq'[s].tag = None /\ \A x \in Slot \ {s} : rq'[x] = rq[x]
  <2>1. NoReq.st = "FREE" /\ NoReq.tag = None
    BY DEF NoReq
  <2>. QED BY <1>1, <1>2, <2>1
<1>4. StreamInv'
  <2>1. \A x \in Slot : /\ rq'[x].st = "TRANSFERRING" <=> rq[x].st = "TRANSFERRING"
                        /\ rq[x].st = "TRANSFERRING" => rq'[x].tag = rq[x].tag
    BY <1>2, <1>3
  <2>. QED BY <1>1, <2>1, StreamKept DEF CmdInv
<1>5. ASSUME NEW t \in Tag PROVE TagInv(t)'
  <2>1. None # t
    BY McdmaConstants
  <2>2. Unanswered(t)' = Unanswered(t)
    BY <1>1, <1>3, <2>1 DEF Unanswered
  <2>3. CmdIn(inc, t)' = CmdIn(inc, t)
    BY <1>1 DEF CmdIn
  <2>. QED BY <1>1, <2>2, <2>3 DEF CmdInv, TagInv, InOnePlace
<1>. QED BY <1>4, <1>5 DEF CmdInv

\* The host takes a completion entry.
LEMMA HostReceiveKeepsCmd == ASSUME Inv, CmdInv, NEW t \in Tag, HostReceive(t) PROVE CmdInv'
<1>1. /\ cqe[t] > 0 /\ cqe' = [cqe EXCEPT ![t] = @ - 1] /\ host' = [host EXCEPT ![t] = None]
      /\ UNCHANGED <<inc, wire, cur, rq, tx>>
  BY DEF HostReceive
<1>2. StreamInv'
  BY <1>1, StreamKept DEF CmdInv
<1>3. cqe \in [Tag -> Nat] /\ DOMAIN host = Tag
  BY DEF Inv, TypeInv
<1>4. ASSUME NEW u \in Tag PROVE TagInv(u)'
  <2>1. CmdIn(inc, u)' = CmdIn(inc, u) /\ Unanswered(u)' = Unanswered(u)
    BY <1>1 DEF CmdIn, Unanswered
  <2>2. InOnePlace(CmdIn(inc, u), Unanswered(u), cqe[u], host[u])
    BY DEF CmdInv, TagInv
  <2>3. CASE u # t
    BY <1>1, <1>3, <2>1, <2>2, <2>3 DEF TagInv
  <2>4. CASE u = t
    <3>1. CmdIn(inc, u) = {} /\ Unanswered(u) = {} /\ cqe[u] = 1
      BY <1>1, <1>3, <2>2, <2>4, SMT DEF InOnePlace
    <3>2. cqe'[u] = 0 /\ host'[u] = None
      BY <1>1, <1>3, <2>4, <3>1, SMT
    <3>. QED BY <2>1, <3>1, <3>2, SMT DEF TagInv, InOnePlace
  <2>. QED BY <2>3, <2>4
<1>. QED BY <1>2, <1>4 DEF CmdInv

\* A data packet of the last command arrives.
LEMMA DataArrivesKeepsCmd == ASSUME Inv, CmdInv, DataArrives, recvs > 0 PROVE CmdInv'
<1>1. /\ wire # <<>> /\ wire' = Tail(wire) /\ inc' = Append(inc, Head(wire))
      /\ UNCHANGED <<host, cur, rq, tx, cqe>>
  BY DEF DataArrives, QeRecvCmpl
<1>2. inc \in Seq(Packet) /\ wire \in Seq(Packet) /\ cur \in Slot \cup {None}
  BY DEF Inv, TypeInv
<1>3. Stream' = Stream
  BY <1>1, <1>2, PacketMoves DEF Stream
<1>4. AwaitsData' <=> AwaitsData
  BY <1>1 DEF AwaitsData
<1>5. Chain(Stream)' <=> Chain(Stream)
  BY <1>3 DEF Chain, Follows, Final
<1>6. Expected(Head(Stream))' <=> Expected(Head(Stream))
  BY <1>1, <1>3, <1>4 DEF Expected
<1>7. /\ Len(wire) \in Nat /\ Len(wire) >= 1 /\ Len(wire') = Len(wire) - 1 /\ Head(wire) = wire[1]
      /\ \A i \in 1..(Len(wire) - 1) : wire'[i] = wire[i + 1]
  BY <1>1, <1>2, SMT
<1>8. \A i \in 1..Len(wire) : wire[i].n > 0
  BY DEF CmdInv, StreamInv
<1>9. (\A i \in 1..Len(wire) : wire[i].n > 0)' /\ Head(wire).n # 0
  <2>1. ASSUME NEW i \in 1..(Len(wire) - 1) PROVE wire'[i].n > 0
    <3>1. i + 1 \in 1..Len(wire) /\ wire'[i] = wire[i + 1]
      BY <1>7, SMT
    <3>. QED BY <1>8, <3>1
  <2>2. 1 \in 1..Len(wire)
    BY <1>7, SMT
  <2>. QED BY <1>7, <1>8, <2>1, <2>2, SMT
<1>10. StreamInv'
  BY <1>3, <1>4, <1>5, <1>6, <1>9 DEF StreamInv, CmdInv
<1>11. ASSUME NEW t \in Tag PROVE TagInv(t)'
  <2>1. Len(inc) \in Nat /\ DOMAIN inc = 1..Len(inc) /\ DOMAIN inc' = 1..(Len(inc) + 1)
        /\ inc'[Len(inc) + 1] = Head(wire) /\ \A i \in 1..Len(inc) : inc'[i] = inc[i]
    BY <1>1, <1>2, SMT
  <2>2. CmdIn(inc, t)' = CmdIn(inc, t)
    BY <1>9, <2>1, SMT DEF CmdIn
  <2>3. Unanswered(t)' = Unanswered(t)
    BY <1>1 DEF Unanswered
  <2>. QED BY <1>1, <2>2, <2>3 DEF CmdInv, TagInv, InOnePlace
<1>. QED BY <1>10, <1>11 DEF CmdInv

\* The host sends a command.
LEMMA HostSendKeepsCmd == ASSUME Inv, CmdInv, NEW t \in Tag, HostSend(t), recvs > 0 PROVE CmdInv'
<1>1. host[t] = None /\ wire = <<>> /\ UNCHANGED <<cur, rq, tx, cqe>>
  BY DEF HostSend
<1>2. PICK k \in Kinds(qp) :
         /\ host' = [host EXCEPT ![t] = k]
         /\ wire' = IF HasData(k) THEN [n \in 1..DataPkts |-> [tag |-> t, kind |-> k, n |-> n]]
                    ELSE <<>>
         /\ inc' = Append(inc, [tag |-> t, kind |-> k, n |-> 0])
  BY DEF HostSend, QeRecvCmpl
<1>3. k \in Kind /\ k # None
  <2>1. k \in Kind
    BY DEF Kinds, Kind
  <2>2. qp \in {"admin", "io"}
    BY DEF Inv, TypeInv
  <2>3. k \in Kinds("admin") \cup Kinds("io")
    BY <2>2
  <2>. QED BY <2>1, <2>3, McdmaConstants
<1>4. PICK p \in Packet : p = [tag |-> t, kind |-> k, n |-> 0]
  <2>1. 0 \in 0..DataPkts
    BY McdmaConstants, SMT
  <2>2. [tag |-> t, kind |-> k, n |-> 0] \in Packet
    BY <1>3, <2>1 DEF Packet
  <2>. QED BY <2>2
<1>5. p.tag = t /\ p.kind = k /\ p.n = 0 /\ inc' = Append(inc, p)
  BY <1>2, <1>4
<1>6. inc \in Seq(Packet) /\ host \in [Tag -> Kind \cup {None}]
  BY DEF Inv, TypeInv
<1>7. /\ Len(inc) \in Nat /\ inc' \in Seq(Packet) /\ Len(inc') = Len(inc) + 1 /\ inc'[Len(inc) + 1] = p
      /\ \A i \in 1..Len(inc) : inc'[i] = inc[i]
  BY <1>5, <1>6, SMT
<1>8. Stream = inc
  BY <1>1, <1>6, SMT DEF Stream
<1>9. AwaitsData' <=> AwaitsData
  BY <1>1 DEF AwaitsData
<1>10. Chain(inc) /\ (IF inc = <<>> THEN ~AwaitsData ELSE Expected(inc[1]))
  BY <1>6, <1>8, SMT DEF CmdInv, StreamInv
<1>11. \A i \in 1..Len(inc) : Follows(inc'[i], inc'[i + 1])
  <2>1. ASSUME NEW i \in 1..Len(inc), i # Len(inc) PROVE Follows(inc'[i], inc'[i + 1])
    <3>1. i \in 1..(Len(inc) - 1) /\ inc'[i] = inc[i] /\ inc'[i + 1] = inc[i + 1]
      BY <1>7, <2>1, SMT
    <3>. QED BY <1>10, <3>1 DEF Chain
  <2>2. ASSUME Len(inc) >= 1 PROVE Follows(inc'[Len(inc)], inc'[Len(inc) + 1])
    <3>1. inc # <<>> /\ inc'[Len(inc)] = inc[Len(inc)]
      BY <1>7, <2>2, SMT
    <3>. QED BY <1>5, <1>7, <1>10, <3>1 DEF Chain, Follows
  <2>. QED BY <1>7, <2>1, <2>2, SMT
<1>12. \A i \in 1..Len(inc') : inc'[i].n > 0 => HasData(inc'[i].kind)
  BY <1>5, <1>7, <1>10, SMT DEF Chain
<1>13. IF AwaitsData' THEN inc'[1].n > 0 /\ inc'[1].tag = rq'[cur'].tag ELSE inc'[1].n = 0
  <2>1. CASE inc = <<>>
    <3>1. inc'[1] = p
      BY <1>7, <2>1, SMT
    <3>. QED BY <1>5, <1>9, <1>10, <2>1, <3>1 DEF Expected
  <2>2. CASE inc # <<>>
    <3>1. inc'[1] = inc[1]
      BY <1>6, <1>7, <2>2, SMT
    <3>2. IF AwaitsData THEN inc[1].n > 0 /\ inc[1].tag = rq[cur].tag ELSE inc[1].n = 0
      BY <1>10, <2>2 DEF Expected
    <3>. QED BY <1>1, <1>9, <3>1, <3>2
  <2>. QED BY <2>1, <2>2
<1>14. ASSUME ~HasData(k) PROVE StreamInv'
  <2>1. wire' = <<>> /\ Stream' = inc' /\ inc' # <<>> /\ Head(inc') = inc'[1]
    BY <1>2, <1>7, <1>14, SMT DEF Stream
  <2>2. Final(p)
    BY <1>5, <1>14 DEF Final
  <2>3. Chain(inc')
    BY <1>7, <1>11, <1>12, <2>2, SMT DEF Chain
  <2>4. Chain(Stream)'
    BY <2>1, <2>3 DEF Chain, Follows, Final
  <2>5. Expected(Head(Stream))' /\ Stream' # <<>>
    BY <1>13, <2>1 DEF Expected
  <2>6. (\A i \in 1..Len(wire) : wire[i].n > 0)'
    BY <2>1, SMT
  <2>. QED BY <2>4, <2>5, <2>6 DEF StreamInv
<1>15. ASSUME HasData(k) PROVE StreamInv'
  <2>. DEFINE S == inc' \o wire'
              L == Len(inc) + 1
  <2>1. wire' = [n \in 1..DataPkts |-> [tag |-> t, kind |-> k, n |-> n]] /\ DataPkts \in Nat \ {0}
    BY <1>2, <1>15, McdmaConstants
  <2>2. wire' \in Seq(Packet) /\ Len(wire') = DataPkts
    BY <1>3, <2>1, SMT DEF Packet
  <2>3. \A n \in 1..DataPkts : wire'[n].tag = t /\ wire'[n].kind = k /\ wire'[n].n = n
    BY <2>1
  <2>4. /\ S \in Seq(Packet) /\ Len(S) = L + DataPkts /\ L \in Nat /\ L >= 1
        /\ \A i \in 1..L : S[i] = inc'[i]
        /\ \A n \in 1..DataPkts : S[L + n] = wire'[n]
    BY <1>7, <2>2, SMT
  <2>5. S # <<>> /\ Head(S) = inc'[1]
    <3>1. Len(S) > 0 /\ 1 \in 1..L
      BY <2>1, <2>4, SMT
    <3>. QED BY <2>4, <3>1, SMT
  <2>6. ASSUME NEW i \in 1..(Len(S) - 1) PROVE Follows(S[i], S[i + 1])
    <3>1. CASE i < L
      <4>1. S[i] = inc'[i] /\ S[i + 1] = inc'[i + 1] /\ i \in 1..Len(inc)
        BY <1>7, <2>4, <3>1, SMT
      <4>. QED BY <1>11, <4>1
    <3>2. CASE i = L
      <4>1. S[i] = p /\ S[i + 1] = wire'[1] /\ 1 \in 1..DataPkts
        BY <1>7, <2>1, <2>4, <3>2, SMTT(30)
      <4>2. ~Final(p)
        BY <1>5, <1>15, <2>1 DEF Final
      <4>. QED BY <1>5, <2>3, <4>1, <4>2, SMT DEF Follows
    <3>3. CASE i > L
      <4>1. PICK n \in 1..(DataPkts - 1) : i = L + n
        <5>1. i - L \in 1..(DataPkts - 1) /\ i = L + (i - L)
          BY <2>1, <2>4, <3>3, SMTT(30)
        <5>. QED BY <5>1
      <4>2. n \in 1..DataPkts /\ n + 1 \in 1..DataPkts /\ i + 1 = L + (n + 1)
        BY <2>1, <2>4, <4>1, SMT
      <4>3. S[i] = wire'[n] /\ S[i + 1] = wire'[n + 1]
        BY <2>4, <4>1, <4>2
      <4>4. ~Final(S[i])
        BY <1>15, <2>1, <2>3, <4>1, <4>2, <4>3, SMTT(30) DEF Final
      <4>. QED BY <2>3, <4>2, <4>3, <4>4, SMTT(30) DEF Follows
    <3>. QED BY <2>1, <2>4, <3>1, <3>2, <3>3, SMT
  <2>7. ASSUME NEW i \in 1..Len(S), S[i].n > 0 PROVE HasData(S[i].kind)
    <3>1. CASE i <= L
      BY <1>7, <1>12, <2>4, <2>7, <3>1, SMTT(30)
    <3>2. CASE i > L
      <4>1. i - L \in 1..DataPkts /\ S[i] = wire'[i - L]
        BY <2>1, <2>4, <3>2, SMT
      <4>. QED BY <1>15, <2>3, <4>1
    <3>. QED BY <2>4, <3>1, <3>2, SMT
  <2>8. Final(S[Len(S)])
    <3>1. DataPkts \in 1..DataPkts /\ S[Len(S)] = wire'[DataPkts]
      BY <2>1, <2>4, SMT
    <3>. QED BY <2>3, <3>1 DEF Final
  <2>9. Chain(S)
    BY <2>6, <2>7, <2>8 DEF Chain
  <2>10. Stream' = S
    BY DEF Stream
  <2>. HIDE DEF S
  <2>11. Chain(Stream)'
    BY <2>9, <2>10 DEF Chain, Follows, Final
  <2>12. (\A i \in 1..Len(wire) : wire[i].n > 0)'
    BY <2>2, <2>3, SMT
  <2>13. Expected(Head(Stream))' /\ Stream' # <<>>
    BY <1>13, <2>5, <2>10 DEF Expected
  <2>. QED BY <2>11, <2>12, <2>13 DEF StreamInv
<1>16. ASSUME NEW u \in Tag PROVE TagInv(u)'
  <2>1. Unanswered(u)' = Unanswered(u)
    BY <1>1 DEF Unanswered
  <2>2. InOnePlace(CmdIn(inc, u), Unanswered(u), cqe[u], host[u])
    BY DEF CmdInv, TagInv
  <2>3. DOMAIN inc = 1..Len(inc) /\ DOMAIN inc' = 1..(Len(inc) + 1)
    BY <1>6, <1>7, SMT
  <2>4. CASE u # t
    <3>1. CmdIn(inc, u)' = CmdIn(inc, u)
      BY <1>5, <1>7, <2>3, <2>4, SMT DEF CmdIn
    <3>2. host'[u] = host[u]
      BY <1>2, <1>6, <2>4
    <3>. QED BY <1>1, <2>1, <2>2, <3>1, <3>2 DEF TagInv
  <2>5. CASE u = t
    <3>1. CmdIn(inc, u) = {} /\ Unanswered(u) = {} /\ cqe[u] = 0
      BY <1>1, <2>2, <2>5 DEF InOnePlace
    <3>2. CmdIn(inc, u)' = {Len(inc) + 1}
      BY <1>5, <1>7, <2>3, <2>5, <3>1, SMTT(30) DEF CmdIn
    <3>3. host'[u] # None
      BY <1>2, <1>3, <1>6, <2>5
    <3>. QED BY <1>1, <2>1, <3>1, <3>2, <3>3, SMTT(30) DEF TagInv, InOnePlace
  <2>. QED BY <2>4, <2>5
<1>. QED BY <1>14, <1>15, <1>16 DEF CmdInv

\* The commands of a queue of packets whose first packet is taken.
LEMMA CmdInTaken ==
    ASSUME NEW q \in Seq(Packet), q # <<>>, NEW t \in Tag, \A i, j \in CmdIn(q, t) : i = j
    PROVE  /\ \A i, j \in CmdIn(Tail(q), t) : i = j
           /\ ~(Head(q).tag = t /\ Head(q).n = 0) => (CmdIn(Tail(q), t) = {} <=> CmdIn(q, t) = {})
           /\ Head(q).tag = t /\ Head(q).n = 0 => CmdIn(q, t) # {} /\ CmdIn(Tail(q), t) = {}
<1>1. /\ Len(q) \in Nat /\ Len(q) >= 1 /\ DOMAIN q = 1..Len(q) /\ Head(q) = q[1]
      /\ DOMAIN Tail(q) = 1..(Len(q) - 1)
      /\ \A i \in 1..(Len(q) - 1) : Tail(q)[i] = q[i + 1]
  BY SMT
<1>2. ASSUME NEW i \in CmdIn(Tail(q), t) PROVE i \in 1..(Len(q) - 1) /\ i + 1 \in CmdIn(q, t)
  BY <1>1, SMT DEF CmdIn
<1>3. ASSUME NEW i \in CmdIn(q, t), i # 1 PROVE i - 1 \in CmdIn(Tail(q), t)
  <2>1. i \in 1..Len(q) /\ q[i].tag = t /\ q[i].n = 0
    BY <1>1 DEF CmdIn
  <2>2. i - 1 \in 1..(Len(q) - 1) /\ Tail(q)[i - 1] = q[(i - 1) + 1] /\ (i - 1) + 1 = i
    BY <1>1, <1>3, <2>1, SMT
  <2>. QED BY <1>1, <2>1, <2>2 DEF CmdIn
<1>4. 1 \in CmdIn(q, t) <=> Head(q).tag = t /\ Head(q).n = 0
  BY <1>1, SMT DEF CmdIn
<1>5. \A i, j \in CmdIn(Tail(q), t) : i = j
  <2>1. ASSUME NEW i \in CmdIn(Tail(q), t), NEW j \in CmdIn(Tail(q), t) PROVE i = j
    <3>1. i + 1 = j + 1 /\ i \in 1..(Len(q) - 1) /\ j \in 1..(Len(q) - 1)
      BY <1>2
    <3>. QED BY <3>1, SMT
  <2>. QED BY <2>1
<1>6. ASSUME 1 \in CmdIn(q, t) PROVE CmdIn(Tail(q), t) = {}
  <2>1. ASSUME NEW i \in CmdIn(Tail(q), t) PROVE FALSE
    <3>1. i + 1 = 1 /\ i \in 1..(Len(q) - 1)
      BY <1>2, <1>6
    <3>. QED BY <3>1, SMT
  <2>. QED BY <2>1
<1>7. ASSUME 1 \notin CmdIn(q, t) PROVE CmdIn(Tail(q), t) = {} <=> CmdIn(q, t) = {}
  BY <1>2, <1>3, <1>7
<1>. QED BY <1>4, <1>5, <1>6, <1>7

\* A packet is taken from the stream.
LEMMA StreamTaken ==
    ASSUME Inv, StreamInv, inc # <<>>, inc' = Tail(inc), UNCHANGED wire
    PROVE  /\ Chain(Stream') /\ (\A i \in 1..Len(wire) : wire[i].n > 0)'
           /\ Stream' # <<>> => Follows(Head(inc), Head(Stream'))
           /\ Stream' = <<>> => Final(Head(inc))
           /\ Head(inc).n > 0 => HasData(Head(inc).kind)
           /\ Expected(Head(inc)) /\ Head(inc) \in Packet
<1>1. inc \in Seq(Packet) /\ wire \in Seq(Packet)
  BY DEF Inv, TypeInv
<1>2. Stream \in Seq(Packet) /\ Stream # <<>> /\ Head(Stream) = Head(inc)
  BY <1>1, FirstTaken DEF Stream
<1>3. Stream' = Tail(Stream)
  <2>1. Tail(inc) \o wire = Tail(inc \o wire)
    BY <1>1, FirstTaken
  <2>. QED BY <2>1 DEF Stream
<1>4. Chain(Stream) /\ Expected(Head(Stream))
  BY <1>2 DEF StreamInv
<1>5. /\ Tail(Stream) \in Seq(Packet) /\ Chain(Tail(Stream)) /\ Head(Stream) \in Packet
      /\ Tail(Stream) # <<>> => Follows(Head(Stream), Head(Tail(Stream)))
      /\ Tail(Stream) = <<>> => Final(Head(Stream))
      /\ Head(Stream).n > 0 => HasData(Head(Stream).kind)
  BY <1>2, <1>4, ChainTaken
<1>6. (\A i \in 1..Len(wire) : wire[i].n > 0)'
  BY DEF StreamInv
<1>. QED BY <1>2, <1>3, <1>4, <1>5, <1>6

\* Data for the request that waits for it.
LEMMA ProcessDataKeepsCmd == ASSUME Inv, CmdInv, ProcessData PROVE CmdInv'
<1>1. /\ inc # <<>> /\ AwaitsData /\ inc' = Tail(inc)
      /\ UNCHANGED <<host, wire, cur>>
      /\ IF Head(inc).n = DataPkts THEN ReadyToExecute(rq, cur, {}) ELSE UNCHANGED <<rq, tx, cqe>>
  BY DEF ProcessData, TakeData
<1>2. cur \in Slot /\ rq[cur].st = "TRANSFERRING"
  BY <1>1 DEF AwaitsData, Inv, TypeInv
<1>3. PICK s \in Slot : s = cur
  BY <1>2
<1>4. rq[s].kind = "mgmt" /\ s \notin tx /\ rq \in [Slot -> Request] /\ inc \in Seq(Packet)
  BY <1>2, <1>3 DEF Inv, SlotInv, TypeInv
<1>5. /\ Chain(Stream') /\ (\A i \in 1..Len(wire) : wire[i].n > 0)'
      /\ Stream' # <<>> => Follows(Head(inc), Head(Stream'))
      /\ Stream' = <<>> => Final(Head(inc))
      /\ Head(inc).n > 0 => HasData(Head(inc).kind)
      /\ Expected(Head(inc)) /\ Head(inc) \in Packet
  BY <1>1, StreamTaken DEF CmdInv
<1>6. Head(inc).n > 0 /\ Head(inc).tag = rq[cur].tag /\ HasData(Head(inc).kind) /\ Head(inc).n \in Nat
  BY <1>1, <1>5, McdmaConstants, SMT DEF Expected, Packet
<1>7. Chain(Stream)'
  BY <1>5 DEF Chain, Follows, Final
<1>8. ASSUME NEW t \in Tag
      PROVE  /\ \A i, j \in CmdIn(inc', t) : i = j
             /\ CmdIn(inc', t) = {} <=> CmdIn(inc, t) = {}
             /\ InOnePlace(CmdIn(inc, t), Unanswered(t), cqe[t], host[t])
  <2>1. InOnePlace(CmdIn(inc, t), Unanswered(t), cqe[t], host[t])
    BY DEF CmdInv, TagInv
  <2>2. \A i, j \in CmdIn(inc, t) : i = j
    BY <2>1 DEF InOnePlace
  <2>3. /\ \A i, j \in CmdIn(Tail(inc), t) : i = j
        /\ CmdIn(Tail(inc), t) = {} <=> CmdIn(inc, t) = {}
    BY <1>1, <1>4, <1>6, <2>2, CmdInTaken, SMT
  <2>. QED BY <1>1, <2>1, <2>3
<1>9. CASE Head(inc).n # DataPkts
  <2>1. UNCHANGED <<rq, tx, cqe>>
    BY <1>1, <1>9
  <2>2. ~Final(Head(inc))
    BY <1>6, <1>9 DEF Final
  <2>3. Stream' # <<>> /\ Head(Stream').n = Head(inc).n + 1 /\ Head(Stream').tag = Head(inc).tag
    BY <1>5, <2>2 DEF Follows
  <2>4. AwaitsData'
    BY <1>1, <2>1 DEF AwaitsData
  <2>5. Expected(Head(Stream))'
    BY <1>1, <1>6, <2>1, <2>3, <2>4, SMT DEF Expected
  <2>6. StreamInv'
    BY <1>5, <1>7, <2>3, <2>5 DEF StreamInv
  <2>7. ASSUME NEW t \in Tag PROVE TagInv(t)'
    <3>1. Unanswered(t)' = Unanswered(t)
      BY <2>1 DEF Unanswered
    <3>2. CmdIn(inc, t)' = CmdIn(inc', t)
      BY DEF CmdIn
    <3>. QED BY <1>1, <1>8, <2>1, <3>1, <3>2 DEF TagInv, InOnePlace
  <2>. QED BY <2>6, <2>7 DEF CmdInv
<1>10. CASE Head(inc).n = DataPkts
  <2>1. Pass(rq, <<>>, bdev, {}, {s})
    <3>1. Fsm("mgmt") = "NON_OP" /\ {} \cup {s} = {s}
      BY DEF Fsm
    <3>2. ReadyToExecute(rq, s, {})
      BY <1>1, <1>3, <1>10
    <3>. QED BY <1>4, <3>1, <3>2 DEF ReadyToExecute
  <2>2. /\ hq \in Seq(Slot) /\ Distinct(hq) /\ tx \in SUBSET Slot /\ refused \in SUBSET Slot
        /\ cqe \in [Tag -> Nat]
    BY DEF Inv, TypeInv, SeqInv
  <2>3. Settled(rq, {}, bdev, {}, {s})
    BY <1>4, <2>1, <2>2, PassIs
  <2>4. rq'[s].st = "COMPLETING"
    BY <2>3 DEF Settled, Answered
  <2>5. ~AwaitsData'
    BY <1>1, <1>2, <1>3, <2>4, McdmaConstants DEF AwaitsData
  <2>6. Final(Head(inc))
    BY <1>10 DEF Final
  <2>7. Stream' # <<>> => Head(Stream').n = 0
    BY <1>5, <2>6 DEF Follows
  <2>8. IF Stream' = <<>> THEN ~AwaitsData' ELSE Expected(Head(Stream))'
    BY <2>5, <2>7 DEF Expected
  <2>9. StreamInv'
    BY <1>5, <1>7, <2>8 DEF StreamInv
  <2>10. ASSUME NEW t \in Tag PROVE TagInv(t)'
    <3>1. {x \in Slot : rq[x].tag = t /\ x \notin tx} = Unanswered(t)
      BY DEF Unanswered
    <3>2. InOnePlace(CmdIn(inc, t), {x \in Slot : rq[x].tag = t /\ x \notin tx}, cqe[t], host[t])
      BY <1>8, <3>1
    <3>3. {s} \cap tx = {} /\ {s} \in SUBSET Slot
      BY <1>4
    <3>4. InOnePlace(CmdIn(inc, t), Unanswered(t)', cqe'[t], host[t])
      BY <1>4, <2>1, <3>2, <3>3, PassAnswers
    <3>5. CmdIn(inc, t)' = CmdIn(inc', t)
      BY DEF CmdIn
    <3>. QED BY <1>1, <1>8, <3>4, <3>5 DEF TagInv, InOnePlace
  <2>. QED BY <2>9, <2>10 DEF CmdInv
<1>. QED BY <1>9, <1>10

\* What the state machine makes of a command: the requests q, and the requests A it
\* answers, among them at most the new one and a FIRST that waited.
LEMMA CommandPasses ==
    ASSUME Inv, ProcessCommand
    PROVE  \E s \in Slot, q \in [Slot -> Request] : \E h, b, c, A :
              /\ s = Head(free) /\ Pass(q, h, b, c, A) /\ A \in SUBSET Slot
              /\ \A x \in A : x = s \/ x = first
              /\ q[s].tag = Head(inc).tag /\ \A x \in Slot \ {s} : q[x].tag = rq[x].tag
              /\ HasData(Head(inc).kind) => s \notin A /\ q[s].st = "TRANSFERRING"
<1>1. free # <<>> /\ inc # <<>>
  BY DEF ProcessCommand
<1>2. Head(free) \in Slot /\ Head(free) \in Elems(free)
  BY <1>1, TailIs DEF Inv, TypeInv, SeqInv
<1>3. PICK s \in Slot : s = Head(free)
  BY <1>2
<1>4. Head(inc) \in Packet
  BY <1>1, SMT DEF Inv, TypeInv
<1>5. PICK k \in Kind : k = Head(inc).kind
  BY <1>4 DEF Packet
<1>6. PICK t \in Tag : t = Head(inc).tag
  BY <1>4 DEF Packet
<1>7. PICK r : r = Fresh(s, t, k)
  OBVIOUS
<1>8. IF k \in {"first", "second"} THEN ReadyFused(r, s)
      ELSE IF HasData(k)
      THEN Pass([r EXCEPT ![s].st = "TRANSFERRING"], <<>>, bdev, {}, Orphan(k))
      ELSE ReadyToExecute(r, s, Orphan(k))
  BY <1>3, <1>5, <1>6, <1>7 DEF ProcessCommand, Fresh
<1>9. rq \in [Slot -> Request] /\ first \in Slot \cup {None}
  BY DEF Inv, TypeInv
<1>10. Taken(r, s, k) /\ r[s].tag = t
  BY <1>7, <1>9, FreshIs
<1>11. first # s
  BY <1>2, <1>3 DEF Inv, SlotInv
<1>12. /\ Orphan(k) \in SUBSET Slot /\ s \notin Orphan(k) /\ \A x \in Orphan(k) : x = first
       /\ Orphan("first") = Orphan(k) \/ k # "first"
  BY <1>9, <1>11 DEF Orphan
<1>13. r \in [Slot -> Request] /\ \A x \in Slot \ {s} : r[x].tag = rq[x].tag
  BY <1>10 DEF Taken
<1>14. SUFFICES \E q \in [Slot -> Request] : \E h, b, c, A :
              /\ Pass(q, h, b, c, A) /\ A \in SUBSET Slot
              /\ \A x \in A : x = s \/ x = first
              /\ q[s].tag = t /\ \A x \in Slot \ {s} : q[x].tag = rq[x].tag
              /\ HasData(k) => s \notin A /\ q[s].st = "TRANSFERRING"
  BY <1>3, <1>5, <1>6
<1>15. ASSUME NEW v \in States
       PROVE  LET q == [r EXCEPT ![s].st = v] IN
              /\ q \in [Slot -> Request] /\ q[s].tag = t /\ q[s].st = v
              /\ \A x \in Slot \ {s} : q[x].tag = rq[x].tag
  BY <1>10, <1>13 DEF Request
<1>16. Executing(r, s) \in [Slot -> Request] /\ Executing(r, s)[s].tag = t
       /\ \A x \in Slot \ {s} : Executing(r, s)[x].tag = rq[x].tag
  <2>. DEFINE q == [r EXCEPT ![s].st = "EXECUTING"]
              e == [q EXCEPT ![s].fsm = Fsm(r[s].kind)]
  <2>1. q \in [Slot -> Request] /\ q[s].tag = t /\ \A x \in Slot \ {s} : q[x].tag = rq[x].tag
    BY <1>10, <1>13, SMT DEF Request, States
  <2>2. Executing(r, s) = e
    BY DEF Executing
  <2>. HIDE DEF q
  <2>3. Fsm(r[s].kind) \in {"NON_OP", "FETCH_PRP", "FETCH_DATA"}
    BY DEF Fsm
  <2>4. e \in [Slot -> Request] /\ e[s].tag = t /\ \A x \in Slot \ {s} : e[x].tag = rq[x].tag
    BY <2>1, <2>3, SMT DEF Request
  <2>. QED BY <2>2, <2>4
<1>17. CASE k = "first"
  <2>1. r[s].kind = "first"
    BY <1>10, <1>17 DEF Taken
  <2>2. Pass([r EXCEPT ![s].st = "READY_TO_EXECUTE"], <<>>, bdev, {}, Orphan(k))
    BY <1>8, <1>12, <1>17, <2>1 DEF ReadyFused
  <2>3. PICK q \in [Slot -> Request] : /\ q = [r EXCEPT ![s].st = "READY_TO_EXECUTE"] /\ q[s].tag = t
                                       /\ \A x \in Slot \ {s} : q[x].tag = rq[x].tag
    BY <1>15 DEF States
  <2>4. Pass(q, <<>>, bdev, {}, Orphan(k)) /\ ~HasData(k)
    BY <1>17, <2>2, <2>3 DEF HasData
  <2>. QED BY <1>12, <2>3, <2>4
<1>18. CASE k = "second"
  <2>1. r[s].kind = "second" /\ ~HasData(k)
    BY <1>10, <1>18 DEF Taken, HasData
  <2>2. \/ /\ first # None
           /\ Pass([r EXCEPT ![first].st = "EXECUTING", ![s].st = "EXECUTING"],
                   <<>>, bdev \cup {first, s}, {}, {})
        \/ Pass(r, <<>>, bdev, {}, {s})
    BY <1>8, <1>18, <2>1 DEF ReadyFused
  <2>3. CASE Pass(r, <<>>, bdev, {}, {s})
    BY <1>10, <1>13, <2>1, <2>3
  <2>4. ASSUME first # None,
               Pass([r EXCEPT ![first].st = "EXECUTING", ![s].st = "EXECUTING"],
                    <<>>, bdev \cup {first, s}, {}, {})
        PROVE  \E q \in [Slot -> Request] : \E h, b, c, A :
              /\ Pass(q, h, b, c, A) /\ A \in SUBSET Slot
              /\ \A x \in A : x = s \/ x = first
              /\ q[s].tag = t /\ \A x \in Slot \ {s} : q[x].tag = rq[x].tag
              /\ HasData(k) => s \notin A /\ q[s].st = "TRANSFERRING"
    <3>1. PICK f \in Slot : f = first
      BY <1>9, <2>4
    <3>2. PICK p : p = [r EXCEPT ![f].st = "EXECUTING"]
      OBVIOUS
    <3>3. p \in [Slot -> Request] /\ \A x \in Slot : p[x].tag = r[x].tag
      BY <1>13, <3>2, SMT DEF Request, States
    <3>4. PICK q : q = [p EXCEPT ![s].st = "EXECUTING"]
      OBVIOUS
    <3>5. q \in [Slot -> Request] /\ \A x \in Slot : q[x].tag = p[x].tag
      BY <3>3, <3>4, SMT DEF Request, States
    <3>6. Pass(q, <<>>, bdev \cup {first, s}, {}, {})
      BY <2>4, <3>1, <3>2, <3>4
    <3>7. q[s].tag = t /\ \A x \in Slot \ {s} : q[x].tag = rq[x].tag
      BY <1>10, <1>13, <3>3, <3>5
    <3>. QED BY <2>1, <3>5, <3>6, <3>7
  <2>. QED BY <2>2, <2>3, <2>4
<1>19. CASE k \notin {"first", "second"} /\ HasData(k)
  <2>1. Pass([r EXCEPT ![s].st = "TRANSFERRING"], <<>>, bdev, {}, Orphan(k))
    BY <1>8, <1>19
  <2>2. PICK q \in [Slot -> Request] : /\ q = [r EXCEPT ![s].st = "TRANSFERRING"] /\ q[s].tag = t
                                       /\ q[s].st = "TRANSFERRING"
                                       /\ \A x \in Slot \ {s} : q[x].tag = rq[x].tag
    BY <1>15 DEF States
  <2>3. Pass(q, <<>>, bdev, {}, Orphan(k))
    BY <2>1, <2>2
  <2>. QED BY <1>12, <2>2, <2>3
<1>20. CASE k \notin {"first", "second"} /\ ~HasData(k)
  <2>1. \/ Pass(r, <<>>, bdev, {}, Orphan(k) \cup {s})
        \/ \E h, b, c : Pass(Executing(r, s), h, b, c, Orphan(k))
    BY <1>8, <1>20 DEF ReadyToExecute
  <2>2. CASE Pass(r, <<>>, bdev, {}, Orphan(k) \cup {s})
    <3>1. Orphan(k) \cup {s} \in SUBSET Slot /\ \A x \in Orphan(k) \cup {s} : x = s \/ x = first
      BY <1>12
    <3>. QED BY <1>10, <1>13, <1>20, <2>2, <3>1
  <2>3. ASSUME NEW h, NEW b, NEW c, Pass(Executing(r, s), h, b, c, Orphan(k))
        PROVE  \E q \in [Slot -> Request] : \E h1, b1, c1, A :
              /\ Pass(q, h1, b1, c1, A) /\ A \in SUBSET Slot
              /\ \A x \in A : x = s \/ x = first
              /\ q[s].tag = t /\ \A x \in Slot \ {s} : q[x].tag = rq[x].tag
              /\ HasData(k) => s \notin A /\ q[s].st = "TRANSFERRING"
    BY <1>12, <1>16, <1>20, <2>3
  <2>. QED BY <2>1, <2>2, <2>3
<1>. QED BY <1>17, <1>18, <1>19, <1>20

\* A command is taken: it moves from the packets to the new request.
LEMMA ProcessCommandKeepsCmd == ASSUME Inv, CmdInv, ProcessCommand PROVE CmdInv'
<1>1. /\ free # <<>> /\ inc # <<>> /\ ~AwaitsData /\ inc' = Tail(inc)
      /\ UNCHANGED <<host, wire>>
      /\ cur' = IF HasData(Head(inc).kind) THEN Head(free) ELSE None
  BY DEF ProcessCommand
<1>0. PICK s \in Slot, q \in [Slot -> Request] : \E h, b, c, A :
         /\ s = Head(free) /\ Pass(q, h, b, c, A) /\ A \in SUBSET Slot
         /\ \A x \in A : x = s \/ x = first
         /\ q[s].tag = Head(inc).tag /\ \A x \in Slot \ {s} : q[x].tag = rq[x].tag
         /\ HasData(Head(inc).kind) => s \notin A /\ q[s].st = "TRANSFERRING"
  BY CommandPasses
<1>2. PICK h, b, c, A :
         /\ s = Head(free) /\ Pass(q, h, b, c, A) /\ A \in SUBSET Slot
         /\ \A x \in A : x = s \/ x = first
         /\ q[s].tag = Head(inc).tag /\ \A x \in Slot \ {s} : q[x].tag = rq[x].tag
         /\ HasData(Head(inc).kind) => s \notin A /\ q[s].st = "TRANSFERRING"
  BY <1>0
<1>3. Pass(q, h, b, c, A) /\ A \in SUBSET Slot /\ s = Head(free)
  BY <1>2
<1>4. rq[s].st = "FREE" /\ rq[s].tag = None /\ s \notin tx /\ inc \in Seq(Packet)
  <2>1. s \in Elems(free)
    BY <1>1, <1>3, TailIs DEF Inv, TypeInv, SeqInv
  <2>. QED BY <2>1 DEF Inv, SlotInv, TypeInv
<1>5. A \cap tx = {}
  <2>1. \A x \in Slot : x = first => x \notin tx
    BY DEF Inv, SlotInv
  <2>. QED BY <1>2, <1>4, <2>1
<1>6. /\ Chain(Stream') /\ (\A i \in 1..Len(wire) : wire[i].n > 0)'
      /\ Stream' # <<>> => Follows(Head(inc), Head(Stream'))
      /\ Stream' = <<>> => Final(Head(inc))
      /\ Expected(Head(inc)) /\ Head(inc) \in Packet
  BY <1>1, StreamTaken DEF CmdInv
<1>7. Head(inc).n = 0 /\ Head(inc).tag \in Tag
  BY <1>1, <1>6 DEF Expected, Packet
<1>8. Chain(Stream)'
  BY <1>6 DEF Chain, Follows, Final
<1>9. StreamInv'
  <2>1. CASE ~HasData(Head(inc).kind)
    <3>1. ~AwaitsData' /\ Final(Head(inc))
      BY <1>1, <2>1 DEF AwaitsData, Final
    <3>2. Stream' # <<>> => Head(Stream').n = 0
      BY <1>6, <3>1 DEF Follows
    <3>3. IF Stream' = <<>> THEN ~AwaitsData' ELSE Expected(Head(Stream))'
      BY <3>1, <3>2 DEF Expected
    <3>. QED BY <1>6, <1>8, <3>3 DEF StreamInv
  <2>2. CASE HasData(Head(inc).kind)
    <3>1. ~Final(Head(inc))
      BY <1>7, <2>2, McdmaConstants DEF Final
    <3>2. Stream' # <<>> /\ Head(Stream').n = 1 /\ Head(Stream').tag = Head(inc).tag
      BY <1>6, <1>7, <3>1, SMT DEF Follows
    <3>3. s \notin A /\ q[s].st = "TRANSFERRING" /\ q[s].tag = Head(inc).tag
      BY <1>2, <2>2
    <3>4. rq'[s] = q[s]
      BY <1>3, <3>3 DEF Pass
    <3>5. cur' = s /\ cur' # None
      BY <1>1, <1>3, <2>2, McdmaConstants
    <3>6. AwaitsData' /\ rq'[cur'].tag = Head(inc).tag
      BY <3>3, <3>4, <3>5 DEF AwaitsData
    <3>7. Expected(Head(Stream))'
      BY <3>2, <3>6, SMT DEF Expected
    <3>. QED BY <1>6, <1>8, <3>2, <3>7 DEF StreamInv
  <2>. QED BY <2>1, <2>2
<1>10. ASSUME NEW t \in Tag PROVE TagInv(t)'
  <2>1. InOnePlace(CmdIn(inc, t), Unanswered(t), cqe[t], host[t])
    BY DEF CmdInv, TagInv
  <2>2. \A i, j \in CmdIn(inc, t) : i = j
    BY <2>1 DEF InOnePlace
  <2>3. /\ \A i, j \in CmdIn(Tail(inc), t) : i = j
        /\ ~(Head(inc).tag = t /\ Head(inc).n = 0) => (CmdIn(Tail(inc), t) = {} <=> CmdIn(inc, t) = {})
        /\ Head(inc).tag = t /\ Head(inc).n = 0 => CmdIn(inc, t) # {} /\ CmdIn(Tail(inc), t) = {}
    BY <1>1, <1>4, <2>2, CmdInTaken
  <2>. DEFINE U == {x \in Slot : q[x].tag = t /\ x \notin tx}
  <2>4. None # t
    BY McdmaConstants
  <2>5. InOnePlace(CmdIn(Tail(inc), t), U, cqe[t], host[t])
    <3>1. CASE Head(inc).tag # t
      <4>1. U = Unanswered(t)
        BY <1>2, <1>4, <2>4, <3>1 DEF Unanswered
      <4>. QED BY <2>1, <2>3, <3>1, <4>1 DEF InOnePlace
    <3>2. CASE Head(inc).tag = t
      <4>1. CmdIn(inc, t) # {} /\ CmdIn(Tail(inc), t) = {}
        BY <1>7, <2>3, <3>2
      <4>2. Unanswered(t) = {} /\ cqe[t] = 0 /\ host[t] # None
        BY <2>1, <4>1 DEF InOnePlace
      <4>3. U = {s}
        BY <1>2, <1>4, <3>2, <4>2 DEF Unanswered
      <4>. QED BY <4>1, <4>2, <4>3, SMT DEF InOnePlace
    <3>. QED BY <3>1, <3>2
  <2>6. InOnePlace(CmdIn(Tail(inc), t), Unanswered(t)', cqe'[t], host[t])
    BY <1>3, <1>5, <2>5, PassAnswers
  <2>7. CmdIn(inc, t)' = CmdIn(Tail(inc), t)
    BY <1>1 DEF CmdIn
  <2>. QED BY <1>1, <2>6, <2>7 DEF TagInv
<1>. QED BY <1>9, <1>10 DEF CmdInv

\* At the start no command is anywhere.
LEMMA InitCmd == Init => CmdInv
<1>. SUFFICES ASSUME Init PROVE CmdInv
  OBVIOUS
<1>1. Stream = <<>> /\ wire = <<>> /\ inc = <<>>
  BY SMT DEF Init, Stream
<1>2. ~AwaitsData
  BY DEF Init, AwaitsData
<1>3. StreamInv
  BY <1>1, <1>2, SMT DEF StreamInv, Chain
<1>4. ASSUME NEW t \in Tag PROVE TagInv(t)
  <2>1. CmdIn(inc, t) = {}
    BY <1>1, SMT DEF CmdIn
  <2>2. NoReq.tag = None /\ None # t
    BY McdmaConstants DEF NoReq
  <2>3. Unanswered(t) = {}
    BY <2>2 DEF Init, Unanswered
  <2>4. cqe[t] = 0 /\ host[t] = None
    BY DEF Init
  <2>. QED BY <2>1, <2>3, <2>4, SMT DEF TagInv, InOnePlace
<1>. QED BY <1>3, <1>4 DEF CmdInv

\* A step that drops no packet keeps every command in one place.
LEMMA CommandStep == ASSUME Inv, CmdInv, [Next]_vars, [~Dropped]_vars PROVE CmdInv'
<1>1. CASE UNCHANGED vars
  BY <1>1, ElsewhereKeepsCmd DEF vars
<1>2. ASSUME NEW t \in Tag, HostSend(t), ~Dropped PROVE CmdInv'
  <2>1. recvs > 0
    BY <1>2, SMT DEF Dropped, Inv, TypeInv
  <2>. QED BY <1>2, <2>1, HostSendKeepsCmd
<1>3. ASSUME DataArrives, ~Dropped PROVE CmdInv'
  <2>1. recvs > 0
    BY <1>3, SMT DEF Dropped, Inv, TypeInv
  <2>. QED BY <1>3, <2>1, DataArrivesKeepsCmd
<1>4. ASSUME NEW t \in Tag, HostReceive(t) PROVE CmdInv'
  BY <1>4, HostReceiveKeepsCmd
<1>5. CASE PollerPoll
  BY <1>5, ProcessDataKeepsCmd, ProcessCommandKeepsCmd DEF PollerPoll
<1>6. ASSUME NEW s \in Slot, QeSendCmpl(s) \/ RequestComplete(s) PROVE CmdInv'
  BY <1>6, QeSendCmplKeepsCmd, RequestCompleteKeepsCmd
<1>7. ASSUME NEW s \in Slot, ReqCallback(s) PROVE CmdInv'
  <2>1. UNCHANGED <<inc, wire, host, cur, rq, tx, cqe>>
    BY <1>7 DEF ReqCallback
  <2>. QED BY <2>1, ElsewhereKeepsCmd
<1>8. CASE ComputeHandcOp \/ ComputeHandcRx
  <2>1. UNCHANGED <<inc, wire, host, cur, rq, tx, cqe>>
    BY <1>8 DEF ComputeHandcOp, ComputeHandcRx
  <2>. QED BY <2>1, ElsewhereKeepsCmd
<1>9. CASE TakeMessage
  BY <1>9, TakeMessageKeepsCmd
<1>. QED BY <1>1, <1>2, <1>3, <1>4, <1>5, <1>6, <1>7, <1>8, <1>9 DEF Next

\* As long as no packet is dropped, every command is in one place.
THEOREM CommandInvariant == Spec /\ [][~Dropped]_vars => []CmdInv
BY InitCmd, CommandStep, QueuePairInvariant, PTL DEF Spec

\* As long as no packet is dropped, a command is in exactly one place until the host
\* has its completion, and so is answered at most once.
THEOREM CommandsConserved == Spec /\ [][~Dropped]_vars => []CommandConserved
<1>1. ASSUME Inv, CmdInv PROVE CommandConserved
  <2>1. ASSUME NEW t \in Tag
        PROVE  Commands(inc, t) + Cardinality(Unanswered(t)) + cqe[t]
                  = IF host[t] = None THEN 0 ELSE 1
    <3>1. InOnePlace(CmdIn(inc, t), Unanswered(t), cqe[t], host[t])
      BY <1>1 DEF CmdInv, TagInv
    <3>2. cqe[t] \in Nat
      BY <1>1 DEF Inv, TypeInv
    <3>3. Commands(inc, t) = IF CmdIn(inc, t) = {} THEN 0 ELSE 1
      <4>1. Commands(inc, t) = Cardinality(CmdIn(inc, t))
        BY DEF Commands, CmdIn
      <4>. QED BY <3>1, <4>1, AtMostOne DEF InOnePlace
    <3>4. Cardinality(Unanswered(t)) = IF Unanswered(t) = {} THEN 0 ELSE 1
      BY <3>1, AtMostOne DEF InOnePlace
    <3>. QED BY <3>1, <3>2, <3>3, <3>4, SMT DEF InOnePlace
  <2>. QED BY <2>1 DEF CommandConserved
<1>. QED BY <1>1, QueuePairInvariant, CommandInvariant, PTL

\* As long as no packet is dropped, data is taken by the request whose command it
\* follows, and a command by a new request.
THEOREM PacketsTakenRight == Spec /\ [][~Dropped]_vars => []DataFollowsCommand
<1>1. ASSUME Inv, CmdInv PROVE DataFollowsCommand
  <2>1. ASSUME inc # <<>>
        PROVE  IF AwaitsData THEN Head(inc).n > 0 /\ Head(inc).tag = rq[cur].tag ELSE Head(inc).n = 0
    <3>1. Stream # <<>> /\ Head(Stream) = Head(inc)
      BY <1>1, <2>1, FirstTaken DEF Inv, TypeInv, Stream
    <3>. QED BY <1>1, <3>1 DEF CmdInv, StreamInv, Expected
  <2>. QED BY <2>1 DEF DataFollowsCommand
<1>. QED BY <1>1, QueuePairInvariant, CommandInvariant, PTL

-----------------------------------------------------------------------------
(* A receive pool with an entry for every request and every packet the host *)
(* can have outstanding drops nothing: no two packets of the stream are the *)
(* same packet of the same command.                                         *)
EnoughEntries == IsFiniteSet(Tag) /\ Recvs >= Depth + Cardinality(Tag) * (DataPkts + 1)

\* The packets of a tag come in order, belong to its outstanding command, and have that
\* command among them, or begin the stream.
Ordered(q) == \A i, j \in DOMAIN q : i < j /\ q[i].tag = q[j].tag => q[i].n < q[j].n
Outstanding(q, h) == \A i \in DOMAIN q : q[i].kind = h[q[i].tag]
Backed(q) ==
    \A i \in DOMAIN q : q[i].n > 0 =>
        \E j \in DOMAIN q : q[j].tag = q[i].tag /\ (q[j].n = 0 \/ j = 1)
PacketInv == Ordered(Stream) /\ Outstanding(Stream, host) /\ Backed(Stream)

\* Packets in order are no more than there are tags and numbers.
LEMMA PacketsCount ==
    ASSUME NEW q \in Seq(Packet), Ordered(q), IsFiniteSet(Tag)
    PROVE  /\ Cardinality(Tag) \in Nat /\ Len(q) \in Nat
           /\ Len(q) <= Cardinality(Tag) * (DataPkts + 1)
<1>1. Len(q) \in Nat /\ DOMAIN q = 1..Len(q) /\ \A i \in 1..Len(q) : q[i] \in Packet
  BY SMT
<1>2. \A i \in 1..Len(q) : q[i].tag \in Tag /\ q[i].n \in 0..DataPkts
  BY <1>1 DEF Packet
<1>. DEFINE f == [i \in 1..Len(q) |-> <<q[i].tag, q[i].n>>]
<1>3. f \in [1..Len(q) -> Tag \X (0..DataPkts)]
  BY <1>2
<1>4. ASSUME NEW i \in 1..Len(q), NEW j \in 1..Len(q), f[i] = f[j] PROVE i = j
  <2>1. q[i].tag = q[j].tag /\ q[i].n = q[j].n
    BY <1>4
  <2>2. q[i].n \in Int /\ q[j].n \in Int
    BY <1>2, SMT
  <2>3. ~(i < j) /\ ~(j < i)
    BY <1>1, <2>1, <2>2, SMT DEF Ordered
  <2>. QED BY <1>1, <2>3, SMT
<1>5. f \in Injection(1..Len(q), Tag \X (0..DataPkts))
  BY <1>3, <1>4 DEF Injection, IsInjective
<1>6. IsFiniteSet(0..DataPkts) /\ Cardinality(0..DataPkts) = DataPkts + 1
  BY McdmaConstants, FS_Interval, SMT
<1>7. /\ IsFiniteSet(Tag \X (0..DataPkts))
      /\ Cardinality(Tag \X (0..DataPkts)) = Cardinality(Tag) * (DataPkts + 1)
  BY <1>6, FS_Product
<1>8. Cardinality(1..Len(q)) <= Cardinality(Tag \X (0..DataPkts))
  BY <1>5, <1>7, FS_Injection
<1>9. Cardinality(1..Len(q)) = Len(q)
  <2>1. PICK n \in Nat : n = Len(q)
    BY <1>1
  <2>2. 1 \in Int /\ n \in Int
    BY SMT
  <2>3. Cardinality(1..n) = IF 1 > n THEN 0 ELSE n - 1 + 1
    BY <2>2, FS_Interval
  <2>. QED BY <2>1, <2>3, SMT
<1>10. Cardinality(Tag) \in Nat
  BY FS_CardinalityType
<1>. QED BY <1>1, <1>7, <1>8, <1>9, <1>10

\* A packet that is taken leaves the others in order.
LEMMA PacketTaken ==
    ASSUME NEW q \in Seq(Packet), q # <<>>, Chain(q), NEW h, Ordered(q), Outstanding(q, h), Backed(q)
    PROVE  Ordered(Tail(q)) /\ Outstanding(Tail(q), h) /\ Backed(Tail(q))
<1>1. /\ Len(q) \in Nat /\ Len(q) >= 1 /\ DOMAIN q = 1..Len(q) /\ DOMAIN Tail(q) = 1..(Len(q) - 1)
      /\ \A i \in 1..(Len(q) - 1) : Tail(q)[i] = q[i + 1]
      /\ \A i \in 1..Len(q) : q[i] \in Packet
  BY SMT
<1>2. \A i \in 1..Len(q) : q[i].n \in 0..DataPkts
  BY <1>1 DEF Packet
<1>3. Ordered(Tail(q))
  <2>1. ASSUME NEW i \in 1..(Len(q) - 1), NEW j \in 1..(Len(q) - 1), i < j,
               Tail(q)[i].tag = Tail(q)[j].tag
        PROVE  Tail(q)[i].n < Tail(q)[j].n
    <3>1. i + 1 \in 1..Len(q) /\ j + 1 \in 1..Len(q) /\ i + 1 < j + 1
      BY <1>1, <2>1, SMT
    <3>2. Tail(q)[i] = q[i + 1] /\ Tail(q)[j] = q[j + 1]
      BY <1>1
    <3>. QED BY <1>1, <2>1, <3>1, <3>2 DEF Ordered
  <2>. QED BY <1>1, <2>1 DEF Ordered
<1>4. Outstanding(Tail(q), h)
  <2>1. ASSUME NEW i \in 1..(Len(q) - 1) PROVE Tail(q)[i].kind = h[Tail(q)[i].tag]
    <3>1. i + 1 \in 1..Len(q) /\ Tail(q)[i] = q[i + 1]
      BY <1>1, SMT
    <3>. QED BY <1>1, <3>1 DEF Outstanding
  <2>. QED BY <1>1, <2>1 DEF Outstanding
<1>5. ASSUME NEW i \in 1..(Len(q) - 1), Tail(q)[i].n > 0
      PROVE  \E j \in 1..(Len(q) - 1) : Tail(q)[j].tag = Tail(q)[i].tag /\ (Tail(q)[j].n = 0 \/ j = 1)
  <2>1. PICK k \in 1..Len(q) : k = i + 1
    BY <1>1, SMT
  <2>2. Tail(q)[i] = q[k] /\ k > 1 /\ k - 1 \in 1..(Len(q) - 1)
    BY <1>1, <2>1, SMT
  <2>3. PICK j \in 1..Len(q) : q[j].tag = q[k].tag /\ (q[j].n = 0 \/ j = 1)
    BY <1>1, <1>5, <2>2 DEF Backed
  <2>4. CASE j = 1
    <3>1. q[1].tag = q[k].tag /\ 1 \in 1..Len(q) /\ Len(q) > 1 /\ 1 \in 1..(Len(q) - 1)
      BY <2>2, <2>3, <2>4, <1>1, SMT
    <3>2. q[1].n < q[k].n /\ q[1].kind = q[k].kind /\ HasData(q[k].kind)
      <4>1. q[1].n < q[k].n
        BY <1>1, <2>2, <3>1, SMT DEF Ordered
      <4>2. q[1].kind = q[k].kind
        BY <1>1, <3>1 DEF Outstanding
      <4>3. HasData(q[k].kind)
        BY <1>5, <2>2 DEF Chain
      <4>. QED BY <4>1, <4>2, <4>3
    <3>3. q[1].n # DataPkts
      BY <1>2, <3>1, <3>2, McdmaConstants, SMT
    <3>4. Follows(q[1], q[2])
      <4>1. Follows(q[1], q[1 + 1])
        BY <3>1 DEF Chain
      <4>. QED BY <4>1, SMT
    <3>5. Tail(q)[1] = q[2]
      <4>1. Tail(q)[1] = q[1 + 1]
        BY <1>1, <3>1
      <4>. QED BY <4>1, SMT
    <3>6. Tail(q)[1].tag = Tail(q)[i].tag
      BY <2>2, <3>1, <3>2, <3>3, <3>4, <3>5 DEF Follows, Final
    <3>. QED BY <3>1, <3>6
  <2>5. CASE j # 1
    <3>1. j - 1 \in 1..(Len(q) - 1) /\ j - 1 + 1 = j
      BY <1>1, <2>5, SMT
    <3>2. Tail(q)[j - 1] = q[j]
      BY <1>1, <3>1
    <3>. QED BY <2>2, <2>3, <2>5, <3>1, <3>2
  <2>. QED BY <2>4, <2>5
<1>. QED BY <1>1, <1>3, <1>4, <1>5 DEF Backed

\* Where the stream and the outstanding commands in it stay, so does the invariant.
LEMMA PacketsKept ==
    ASSUME PacketInv, Stream' = Stream, \A i \in DOMAIN Stream : host'[Stream[i].tag] = host[Stream[i].tag]
    PROVE  PacketInv'
BY DEF PacketInv, Ordered, Outstanding, Backed

\* The poll group takes a packet.
LEMMA PollKeepsPackets ==
    ASSUME Inv, CmdInv, PacketInv, ProcessCommand \/ ProcessData PROVE PacketInv'
<1>1. inc # <<>> /\ inc' = Tail(inc) /\ UNCHANGED <<host, wire>>
  BY DEF ProcessCommand, ProcessData, TakeData
<1>2. inc \in Seq(Packet) /\ wire \in Seq(Packet)
  BY DEF Inv, TypeInv
<1>3. inc \o wire \in Seq(Packet) /\ inc \o wire # <<>> /\ Tail(inc) \o wire = Tail(inc \o wire)
  BY <1>1, <1>2, FirstTaken
<1>4. /\ Chain(inc \o wire) /\ Ordered(inc \o wire) /\ Outstanding(inc \o wire, host)
      /\ Backed(inc \o wire)
  BY DEF CmdInv, StreamInv, PacketInv, Stream
<1>5. PICK q \in Seq(Packet) : q = inc \o wire
  BY <1>3
<1>6. Ordered(Tail(q)) /\ Outstanding(Tail(q), host) /\ Backed(Tail(q))
  BY <1>3, <1>4, <1>5, PacketTaken
<1>7. Stream' = Tail(q) /\ host' = host
  BY <1>1, <1>3, <1>5 DEF Stream
<1>. QED BY <1>6, <1>7 DEF PacketInv, Ordered, Outstanding, Backed

\* The host takes a completion: nothing of its command is among the packets.
LEMMA ReceiveKeepsPackets ==
    ASSUME Inv, CmdInv, PacketInv, NEW t \in Tag, HostReceive(t) PROVE PacketInv'
<1>1. cqe[t] > 0 /\ host' = [host EXCEPT ![t] = None] /\ UNCHANGED <<inc, wire>>
  BY DEF HostReceive
<1>2. /\ inc \in Seq(Packet) /\ wire \in Seq(Packet) /\ DOMAIN host = Tag /\ cqe[t] \in Nat
      /\ cur \in Slot \cup {None}
  BY DEF Inv, TypeInv
<1>3. CmdIn(inc, t) = {} /\ Unanswered(t) = {}
  <2>1. InOnePlace(CmdIn(inc, t), Unanswered(t), cqe[t], host[t])
    BY DEF CmdInv, TagInv
  <2>. QED BY <1>1, <1>2, <2>1, SMT DEF InOnePlace
<1>4. /\ Stream \in Seq(Packet) /\ Len(inc) \in Nat /\ Len(wire) \in Nat /\ DOMAIN inc = 1..Len(inc)
      /\ DOMAIN Stream = 1..(Len(inc) + Len(wire))
      /\ \A i \in 1..Len(inc) : Stream[i] = inc[i]
      /\ \A i \in 1..Len(wire) : Stream[Len(inc) + i] = wire[i]
      /\ \A i \in DOMAIN Stream : Stream[i] \in Packet
  BY <1>2, SMT DEF Stream
<1>5. ASSUME NEW i \in DOMAIN Stream, Stream[i].n = 0 PROVE Stream[i].tag # t
  <2>1. i \in 1..Len(inc)
    <3>1. \A k \in 1..Len(wire) : wire[k].n > 0
      BY DEF CmdInv, StreamInv
    <3>2. ASSUME i \notin 1..Len(inc) PROVE FALSE
      <4>1. PICK k \in 1..Len(wire) : i = Len(inc) + k
        <5>1. i - Len(inc) \in 1..Len(wire) /\ i = Len(inc) + (i - Len(inc))
          BY <1>4, <3>2, SMT
        <5>. QED BY <5>1
      <4>2. wire[k].n = 0
        BY <1>4, <1>5, <4>1
      <4>. QED BY <3>1, <4>1, <4>2, SMT
    <3>. QED BY <3>2
  <2>. QED BY <1>3, <1>4, <1>5, <2>1 DEF CmdIn
<1>6. ASSUME NEW i \in DOMAIN Stream, i = 1, Stream[i].n > 0 PROVE Stream[i].tag # t
  <2>1. Stream # <<>> /\ Head(Stream) = Stream[i]
    BY <1>4, <1>6, SMT
  <2>2. Expected(Stream[i])
    BY <2>1 DEF CmdInv, StreamInv
  <2>3. ~(Stream[i].n = 0)
    BY <1>6, SMT
  <2>4. AwaitsData /\ Stream[i].tag = rq[cur].tag
    BY <2>2, <2>3 DEF Expected
  <2>5. cur \in Slot /\ rq[cur].st = "TRANSFERRING"
    BY <1>2, <2>4 DEF AwaitsData
  <2>6. cur \notin tx
    BY <2>5 DEF Inv, SlotInv
  <2>. QED BY <1>3, <2>4, <2>5, <2>6 DEF Unanswered
<1>7. ASSUME NEW i \in DOMAIN Stream PROVE Stream[i].tag # t
  <2>1. Stream[i].n \in Nat
    BY <1>4, McdmaConstants, SMT DEF Packet
  <2>2. CASE Stream[i].n > 0
    <3>1. PICK j \in DOMAIN Stream : Stream[j].tag = Stream[i].tag /\ (Stream[j].n = 0 \/ j = 1)
      BY <2>2 DEF PacketInv, Backed
    <3>2. Stream[j].n = 0 \/ Stream[j].n > 0
      BY <1>4, McdmaConstants, SMT DEF Packet
    <3>. QED BY <1>5, <1>6, <3>1, <3>2
  <2>3. CASE Stream[i].n = 0
    BY <1>5, <2>3
  <2>. QED BY <2>1, <2>2, <2>3, SMT
<1>8. Stream' = Stream
  BY <1>1 DEF Stream
<1>9. \A i \in DOMAIN Stream : host'[Stream[i].tag] = host[Stream[i].tag]
  <2>1. \A i \in DOMAIN Stream : Stream[i].tag \in Tag
    BY <1>4 DEF Packet
  <2>. QED BY <1>1, <1>2, <1>7, <2>1
<1>. QED BY <1>8, <1>9, PacketsKept

\* The host sends a command with a tag of which nothing is among the packets.
LEMMA NoneOfIt ==
    ASSUME Inv, PacketInv, NEW t \in Tag, host[t] = None PROVE \A i \in DOMAIN Stream : Stream[i].tag # t
<1>1. \A i \in DOMAIN Stream : Stream[i].kind \in Kind
  <2>1. inc \in Seq(Packet) /\ wire \in Seq(Packet)
    BY DEF Inv, TypeInv
  <2>2. \A i \in DOMAIN Stream : Stream[i] \in Packet
    BY <2>1, SMT DEF Stream
  <2>. QED BY <2>2 DEF Packet
<1>2. None \notin Kind
  <2>1. Kinds("admin") \cup Kinds("io") = Kind
    BY DEF Kinds, Kind
  <2>. QED BY <2>1, McdmaConstants
<1>. QED BY <1>1, <1>2 DEF PacketInv, Outstanding

\* The data w of the command p.
DataOf(w, p) == \A n \in 1..Len(w) : w[n].tag = p.tag /\ w[n].kind = p.kind /\ w[n].n = n

\* A command and its data behind packets of other commands.
LEMMA CommandBehind ==
    ASSUME NEW q \in Seq(Packet), NEW w \in Seq(Packet), NEW p \in Packet, NEW h, NEW g,
           p.n = 0, DataOf(w, p),
           \A i \in DOMAIN q : q[i].tag # p.tag /\ g[q[i].tag] = h[q[i].tag],
           g[p.tag] = p.kind, Ordered(q), Outstanding(q, h), Backed(q)
    PROVE  LET S == Append(q, p) \o w IN
           S \in Seq(Packet) /\ Ordered(S) /\ Outstanding(S, g) /\ Backed(S)
<1>. DEFINE S == Append(q, p) \o w
            L == Len(q)
<1>1. /\ L \in Nat /\ Len(w) \in Nat /\ S \in Seq(Packet) /\ DOMAIN S = 1..(L + 1 + Len(w))
      /\ DOMAIN q = 1..L
      /\ \A i \in 1..L : S[i] = q[i]
      /\ S[L + 1] = p
      /\ \A n \in 1..Len(w) : S[L + 1 + n] = w[n]
  <2>1. /\ L \in Nat /\ Len(w) \in Nat /\ DOMAIN q = 1..L /\ Append(q, p) \in Seq(Packet)
        /\ Len(Append(q, p)) = L + 1 /\ Append(q, p)[L + 1] = p
        /\ \A i \in 1..L : Append(q, p)[i] = q[i]
    BY SMT
  <2>. QED BY <2>1, SMT
<1>. HIDE DEF S, L
<1>2. ASSUME NEW i \in DOMAIN S, i > L
      PROVE  S[i].tag = p.tag /\ S[i].kind = p.kind /\ S[i].n = i - (L + 1)
  <2>1. CASE i = L + 1
    <3>1. i - (L + 1) = 0
      BY <1>1, <2>1, SMT
    <3>. QED BY <1>1, <2>1, <3>1
  <2>2. CASE i > L + 1
    <3>1. PICK n \in 1..Len(w) : n = i - (L + 1) /\ i = L + 1 + n
      <4>1. i - (L + 1) \in 1..Len(w) /\ i = L + 1 + (i - (L + 1))
        BY <1>1, <2>2, SMT
      <4>. QED BY <4>1
    <3>2. S[i] = w[n]
      BY <1>1, <3>1
    <3>3. w[n].tag = p.tag /\ w[n].kind = p.kind /\ w[n].n = n
      BY DEF DataOf
    <3>. QED BY <3>1, <3>2, <3>3
  <2>. QED BY <1>1, <1>2, <2>1, <2>2, SMT
<1>3. ASSUME NEW i \in DOMAIN S, ~(i > L)
      PROVE  i \in DOMAIN q /\ S[i] = q[i] /\ S[i].tag # p.tag
  <2>1. i \in 1..L
    BY <1>1, <1>3, SMT
  <2>. QED BY <1>1, <2>1
<1>4. Ordered(S)
  <2>1. ASSUME NEW i \in DOMAIN S, NEW j \in DOMAIN S, i < j, S[i].tag = S[j].tag
        PROVE  S[i].n < S[j].n
    <3>1. CASE i > L
      <4>1. j > L
        BY <1>1, <2>1, <3>1, SMT
      <4>. QED BY <1>1, <1>2, <2>1, <3>1, <4>1, SMT
    <3>2. CASE ~(i > L)
      <4>1. ~(j > L)
        BY <1>2, <1>3, <2>1, <3>2
      <4>. QED BY <1>3, <2>1, <3>2, <4>1 DEF Ordered
    <3>. QED BY <3>1, <3>2
  <2>. QED BY <2>1 DEF Ordered
<1>5. Outstanding(S, g)
  <2>1. ASSUME NEW i \in DOMAIN S PROVE S[i].kind = g[S[i].tag]
    <3>1. CASE i > L
      BY <1>2, <3>1
    <3>2. CASE ~(i > L)
      <4>1. i \in DOMAIN q /\ S[i] = q[i]
        BY <1>3, <3>2
      <4>2. q[i].kind = h[q[i].tag] /\ g[q[i].tag] = h[q[i].tag]
        BY <4>1 DEF Outstanding
      <4>. QED BY <4>1, <4>2
    <3>. QED BY <3>1, <3>2
  <2>. QED BY <2>1 DEF Outstanding
<1>6. Backed(S)
  <2>1. ASSUME NEW i \in DOMAIN S, S[i].n > 0
        PROVE  \E j \in DOMAIN S : S[j].tag = S[i].tag /\ (S[j].n = 0 \/ j = 1)
    <3>1. CASE i > L
      <4>1. L + 1 \in DOMAIN S
        BY <1>1, SMT
      <4>2. S[L + 1].tag = S[i].tag /\ S[L + 1].n = 0
        BY <1>1, <1>2, <3>1
      <4>. QED BY <4>1, <4>2
    <3>2. CASE ~(i > L)
      <4>1. i \in DOMAIN q /\ S[i] = q[i]
        BY <1>3, <3>2
      <4>2. PICK j \in DOMAIN q : q[j].tag = q[i].tag /\ (q[j].n = 0 \/ j = 1)
        BY <2>1, <4>1 DEF Backed
      <4>3. j \in DOMAIN S /\ S[j] = q[j]
        BY <1>1, SMT
      <4>. QED BY <4>1, <4>2, <4>3
    <3>. QED BY <3>1, <3>2
  <2>. QED BY <2>1 DEF Backed
<1>. QED BY <1>1, <1>4, <1>5, <1>6 DEF S

\* What the host adds to the packets by sending a command.
LEMMA SendIs ==
    ASSUME Inv, PacketInv, NEW t \in Tag, HostSend(t)
    PROVE  \E p \in Packet, w \in Seq(Packet) :
             LET S == Append(inc, p) \o w IN
             /\ wire = <<>> /\ wire' = w /\ QeRecvCmpl(p)
             /\ Append(inc, p) \in Seq(Packet) /\ Ordered(Append(inc, p))
             /\ Ordered(S) /\ Outstanding(S, host') /\ Backed(S)
<1>1. host[t] = None /\ wire = <<>>
  BY DEF HostSend
<1>2. PICK k \in Kinds(qp) :
         /\ host' = [host EXCEPT ![t] = k]
         /\ wire' = IF HasData(k) THEN [n \in 1..DataPkts |-> [tag |-> t, kind |-> k, n |-> n]]
                    ELSE <<>>
         /\ QeRecvCmpl([tag |-> t, kind |-> k, n |-> 0])
  BY DEF HostSend
<1>3. k \in Kind
  BY DEF Kinds, Kind
<1>4. PICK p \in Packet : p = [tag |-> t, kind |-> k, n |-> 0]
  <2>1. 0 \in 0..DataPkts
    BY McdmaConstants, SMT
  <2>2. [tag |-> t, kind |-> k, n |-> 0] \in Packet
    BY <1>3, <2>1 DEF Packet
  <2>. QED BY <2>2
<1>5. p.tag = t /\ p.kind = k /\ p.n = 0 /\ QeRecvCmpl(p)
  BY <1>2, <1>4
<1>6. inc \in Seq(Packet) /\ host \in [Tag -> Kind \cup {None}]
  BY DEF Inv, TypeInv
<1>7. Stream = inc
  BY <1>1, <1>6, SMT DEF Stream
<1>8. PICK w \in Seq(Packet) :
         w = wire' /\ DataOf(w, p)
  <2>1. CASE HasData(k)
    <3>1. wire' = [n \in 1..DataPkts |-> [tag |-> t, kind |-> k, n |-> n]] /\ DataPkts \in Nat
      BY <1>2, <2>1, McdmaConstants
    <3>2. wire' \in Seq(Packet) /\ Len(wire') = DataPkts
      BY <1>3, <3>1, SMT DEF Packet
    <3>3. \A n \in 1..DataPkts : wire'[n].tag = t /\ wire'[n].kind = k /\ wire'[n].n = n
      BY <3>1
    <3>. QED BY <1>5, <3>2, <3>3 DEF DataOf
  <2>2. CASE ~HasData(k)
    <3>1. wire' = <<>>
      BY <1>2, <2>2
    <3>2. <<>> \in Seq(Packet) /\ \A n \in 1..Len(<<>>) : FALSE
      BY SMT
    <3>. QED BY <3>1, <3>2 DEF DataOf
  <2>. QED BY <2>1, <2>2
<1>9. \A i \in DOMAIN inc : inc[i].tag # p.tag /\ host'[inc[i].tag] = host[inc[i].tag]
  <2>1. \A i \in DOMAIN inc : inc[i].tag # t
    BY <1>1, <1>7, NoneOfIt
  <2>2. \A i \in DOMAIN inc : inc[i] \in Packet
    BY <1>6, SMT
  <2>3. \A i \in DOMAIN inc : inc[i].tag \in Tag
    BY <2>2 DEF Packet
  <2>. QED BY <1>2, <1>5, <1>6, <2>1, <2>3
<1>10. host'[p.tag] = p.kind
  BY <1>2, <1>5, <1>6
<1>11. Ordered(inc) /\ Outstanding(inc, host) /\ Backed(inc)
  BY <1>7 DEF PacketInv
<1>12. LET S == Append(inc, p) \o w IN
       S \in Seq(Packet) /\ Ordered(S) /\ Outstanding(S, host') /\ Backed(S)
  <2>1. DataOf(w, p)
    BY <1>8
  <2>2. p.n = 0
    BY <1>5
  <2>. QED BY <1>6, <1>9, <1>10, <1>11, <2>1, <2>2, CommandBehind
<1>13. Append(inc, p) \in Seq(Packet) /\ Ordered(Append(inc, p))
  <2>1. <<>> \in Seq(Packet) /\ DataOf(<<>>, p) /\ Append(inc, p) \in Seq(Packet)
    BY <1>6, SMT DEF DataOf
  <2>2. LET S == Append(inc, p) \o <<>> IN
        S \in Seq(Packet) /\ Ordered(S) /\ Outstanding(S, host') /\ Backed(S)
    BY <1>5, <1>6, <1>9, <1>10, <1>11, <2>1, CommandBehind
  <2>3. Append(inc, p) \o <<>> = Append(inc, p)
    BY <2>1, SMT
  <2>. QED BY <2>1, <2>2, <2>3
<1>. QED BY <1>1, <1>5, <1>8, <1>12, <1>13

\* The host sends a command, for which there is an entry.
LEMMA SendKeepsPackets ==
    ASSUME Inv, PacketInv, NEW t \in Tag, HostSend(t), recvs > 0 PROVE PacketInv'
<1>1. PICK p \in Packet, w \in Seq(Packet) :
         LET S == Append(inc, p) \o w IN
         /\ wire = <<>> /\ wire' = w /\ QeRecvCmpl(p)
         /\ Append(inc, p) \in Seq(Packet) /\ Ordered(Append(inc, p))
         /\ Ordered(S) /\ Outstanding(S, host') /\ Backed(S)
  BY SendIs
<1>2. inc' = Append(inc, p)
  BY <1>1 DEF QeRecvCmpl
<1>3. Stream' = Append(inc, p) \o w
  BY <1>1, <1>2 DEF Stream
<1>. QED BY <1>1, <1>3 DEF PacketInv, Ordered, Outstanding, Backed

\* With enough entries there is one for every packet that arrives.
LEMMA EntryLeft == ASSUME EnoughEntries, Inv, PacketInv PROVE ~Dropped
<1>. SUFFICES ASSUME Dropped PROVE FALSE
  OBVIOUS
<1>1. PICK q \in Seq(Packet) : Ordered(q) /\ Len(q) >= Len(inc) + 1
  <2>1. inc \in Seq(Packet) /\ wire \in Seq(Packet)
    BY DEF Inv, TypeInv
  <2>2. CASE DataArrives
    <3>1. wire # <<>>
      BY <2>2 DEF DataArrives
    <3>2. Stream \in Seq(Packet) /\ Len(Stream) >= Len(inc) + 1
      BY <2>1, <3>1, SMT DEF Stream
    <3>. QED BY <3>2 DEF PacketInv
  <2>3. ASSUME NEW t \in Tag, HostSend(t)
        PROVE  \E q \in Seq(Packet) : Ordered(q) /\ Len(q) >= Len(inc) + 1
    <3>1. PICK p \in Packet, w \in Seq(Packet) :
             Append(inc, p) \in Seq(Packet) /\ Ordered(Append(inc, p))
      BY <2>3, SendIs
    <3>2. Len(Append(inc, p)) >= Len(inc) + 1
      BY <2>1, SMT
    <3>. QED BY <3>1, <3>2
  <2>. QED BY <2>2, <2>3 DEF Dropped
<1>2. PICK c \in Int : c = Cardinality(Tag) * (DataPkts + 1)
  <2>1. Cardinality(Tag) \in Nat /\ DataPkts \in Nat
    BY <1>1, PacketsCount, McdmaConstants DEF EnoughEntries
  <2>2. Cardinality(Tag) * (DataPkts + 1) \in Int
    BY <2>1, SMT
  <2>. QED BY <2>2
<1>3. Len(q) \in Nat /\ Len(q) <= c
  BY <1>1, <1>2, PacketsCount DEF EnoughEntries
<1>4. Cardinality(Live) \in Nat /\ Cardinality(Live) <= Depth
  <2>1. Depth \in Nat /\ Depth >= 2
    BY McdmaConstants, SMT
  <2>2. PICK n \in Int : n = Depth
    BY <2>1, SMT
  <2>3. 1 \in Int
    BY SMT
  <2>4. IsFiniteSet(1..n) /\ Cardinality(1..n) = IF 1 > n THEN 0 ELSE n - 1 + 1
    BY <2>2, <2>3, FS_Interval
  <2>5. Cardinality(Slot) = Depth
    BY <2>1, <2>2, <2>4, SMT DEF Slot
  <2>6. IsFiniteSet(Slot) /\ Live \in SUBSET Slot
    BY <2>2, <2>4 DEF Slot, Live
  <2>7. Cardinality(Live) <= Cardinality(Slot)
    BY <2>6, FS_Subset
  <2>. QED BY <2>5, <2>7, CountsAre
<1>5. Recvs >= Depth + c
  BY <1>2 DEF EnoughEntries
<1>6. recvs = 0 /\ recvs + Len(inc) + Cardinality(Live) = Recvs
  BY DEF Dropped, Inv, SumInv
<1>7. Len(inc) \in Nat /\ Depth \in Nat /\ Recvs \in Nat
  <2>1. inc \in Seq(Packet)
    BY DEF Inv, TypeInv
  <2>. QED BY <2>1, McdmaConstants, SMT
<1>. QED BY <1>1, <1>2, <1>3, <1>4, <1>5, <1>6, <1>7, SMT

\* Every step that drops no packet keeps them in order.
LEMMA PacketStep ==
    ASSUME Inv, CmdInv, PacketInv, [Next]_vars, ~Dropped PROVE PacketInv'
<1>1. ASSUME UNCHANGED <<inc, wire, host>> PROVE PacketInv'
  <2>1. Stream' = Stream /\ host' = host
    BY <1>1 DEF Stream
  <2>. QED BY <2>1, PacketsKept
<1>2. ASSUME NEW t \in Tag, HostSend(t) PROVE PacketInv'
  <2>1. recvs > 0
    BY <1>2, SMT DEF Dropped, Inv, TypeInv
  <2>. QED BY <1>2, <2>1, SendKeepsPackets
<1>3. CASE DataArrives
  <2>1. recvs > 0
    BY <1>3, SMT DEF Dropped, Inv, TypeInv
  <2>2. /\ wire # <<>> /\ wire' = Tail(wire) /\ inc' = Append(inc, Head(wire)) /\ host' = host
        /\ inc \in Seq(Packet) /\ wire \in Seq(Packet)
    BY <1>3, <2>1 DEF DataArrives, QeRecvCmpl, Inv, TypeInv
  <2>3. Stream' = Stream
    BY <2>2, PacketMoves DEF Stream
  <2>. QED BY <2>2, <2>3, PacketsKept
<1>4. ASSUME NEW t \in Tag, HostReceive(t) PROVE PacketInv'
  BY <1>4, ReceiveKeepsPackets
<1>5. CASE PollerPoll
  BY <1>5, PollKeepsPackets DEF PollerPoll
<1>6. CASE \E s \in Slot : QeSendCmpl(s) \/ RequestComplete(s) \/ ReqCallback(s)
  <2>1. UNCHANGED <<inc, wire, host>>
    BY <1>6 DEF QeSendCmpl, RequestComplete, ReqCallback
  <2>. QED BY <1>1, <2>1
<1>7. CASE ComputeHandcOp \/ ComputeHandcRx \/ TakeMessage
  <2>1. UNCHANGED <<inc, wire, host>>
    BY <1>7 DEF ComputeHandcOp, ComputeHandcRx, TakeMessage
  <2>. QED BY <1>1, <2>1
<1>8. CASE UNCHANGED vars
  BY <1>1, <1>8 DEF vars
<1>. QED BY <1>2, <1>3, <1>4, <1>5, <1>6, <1>7, <1>8 DEF Next

\* There are no packets at first.
LEMMA InitPackets == Init => PacketInv
<1>. SUFFICES ASSUME Init PROVE PacketInv
  OBVIOUS
<1>1. inc = <<>> /\ wire = <<>>
  BY DEF Init
<1>2. DOMAIN Stream = {}
  BY <1>1, SMT DEF Stream
<1>. QED BY <1>2 DEF PacketInv, Ordered, Outstanding, Backed

\* With enough entries no packet is dropped.
THEOREM NothingDropped == ASSUME EnoughEntries PROVE Spec => [][~Dropped]_vars
<1>1. ASSUME Inv, CmdInv, PacketInv, [Next]_vars PROVE [~Dropped]_vars /\ CmdInv' /\ PacketInv'
  <2>1. ~Dropped
    BY <1>1, EntryLeft
  <2>. QED BY <1>1, <2>1, CommandStep, PacketStep
<1>. QED BY <1>1, InitCmd, InitPackets, QueuePairInvariant, PTL DEF Spec

\* With enough entries every command is in one place and its data is taken for it.
THEOREM EnoughForAll ==
    ASSUME EnoughEntries PROVE Spec => [](CommandConserved /\ DataFollowsCommand)
BY NothingDropped, CommandsConserved, PacketsTakenRight, PTL
=============================================================================
