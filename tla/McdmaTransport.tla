--------------------------- MODULE McdmaTransport ---------------------------
(****************************************************************************)
(* The device's queue pairs (nf_spdk/lib/nvmf/mcdma.c): how packets become  *)
(* requests, the request state machine nvmf_mcdma_request_process, the      *)
(* host-and-card copy engine (handc), and how a request is answered and     *)
(* freed. Everything that touches a request runs on its queue pair's poll   *)
(* group thread; the copy engine, the scheduler (HlsAccCompute) and the     *)
(* block device run elsewhere and come back with one callback each.         *)
(* What a management command does to the device's tables is CsdTables.      *)
(****************************************************************************)
EXTENDS Integers, Sequences, FiniteSets

CONSTANTS Tag,             \* the host's tags of the queue
          Depth,           \* max_queue_depth: request objects of a queue pair
          Recvs,           \* recv_pool entries of a queue pair
          DataPkts,        \* 64-byte packets of the data of a management command
          MaxRanges,       \* source ranges of a copy command
          Bufs,            \* kernel_inner_buf_pool entries
          None

Slot == 1..Depth

\* Commands by what the state machine tells apart. On the admin queue:
\* management commands with and without data. On an I/O queue: reads and
\* writes, alone or fused, the SLM commands (up to two pages to fetch, more,
\* fill, copy from storage) and execute with none, up to two, or more pages of
\* operator contexts to fetch first.
Kinds(p) == IF p = "admin" THEN {"mgmt", "plain"}
            ELSE {"rw", "first", "second", "slm2", "slmN", "fill", "copy3",
                  "exec0", "exec2", "execN"}
HasData(k) == k = "mgmt"

ASSUME McdmaConstants ==
    /\ Depth \in Nat \ {0, 1} /\ Recvs \in Nat /\ Bufs \in Nat
    /\ DataPkts \in Nat \ {0} /\ MaxRanges \in Nat \ {0}
    /\ None \notin Tag /\ None \notin Slot /\ None \notin Kinds("admin") \cup Kinds("io")

VARIABLES qp,     \* "admin" or "io": the queue pair's kind, chosen at the start
          host,   \* per tag: the kind of its outstanding command, or None
          wire,   \* the data packets of the last command that did not arrive yet
          inc,    \* incoming_queue
          recvs,  \* free entries of recv_pool
          free,   \* free_queue
          cur,    \* cur_req, while it is a request with data
          rq,     \* struct spdk_nvmf_mcdma_request
          first,  \* rqpair->fused_first
          hq,     \* messages to the handc thread
          ring,   \* copies submitted to the handc channel
          msgs,   \* messages back to the poll group thread
          bdev,   \* requests the block device owes a completion
          comp,   \* requests the scheduler owes a callback
          tx,     \* responses whose send completion is outstanding
          cqe,    \* per tag: completion entries on their way to the host
          refused, \* requests whose copy or response a DMA channel refused
          bufs    \* free entries of kernel_inner_buf_pool
vars == <<qp, host, wire, inc, recvs, free, cur, rq, first, hq, ring, msgs, bdev, comp, tx, cqe,
          refused, bufs>>

NoReq == [st |-> "FREE", tag |-> None, kind |-> None, fsm |-> "NON_OP", left |-> 0]

---------------------------------------------------------------------------
(* The host and the receive side.                                          *)

\* mcdma_qe_recv_cmpl: a packet takes a recv entry and joins incoming_queue;
\* without an entry it is gone.
QeRecvCmpl(k) ==
    IF recvs > 0 THEN recvs' = recvs - 1 /\ inc' = Append(inc, k)
    ELSE UNCHANGED <<recvs, inc>>

\* External: the host driver sends a command, its data right behind it. Only
\* the order of arrival matters, so the command arrives at once.
HostSend(t) ==
    /\ host[t] = None /\ wire = <<>>
    /\ \E k \in Kinds(qp) :
          LET packet(n) == [tag |-> t, kind |-> k, n |-> n] IN
          /\ host' = [host EXCEPT ![t] = k]
          /\ wire' = IF HasData(k) THEN [n \in 1..DataPkts |-> packet(n)] ELSE <<>>
          /\ QeRecvCmpl(packet(0))
    /\ UNCHANGED <<qp, refused, free, cur, rq, first, hq, ring, msgs, bdev, comp, tx, cqe,
                   bufs>>

DataArrives ==
    /\ wire # <<>> /\ wire' = Tail(wire) /\ QeRecvCmpl(Head(wire))
    /\ UNCHANGED <<qp, refused, host, free, cur, rq, first, hq, ring, msgs, bdev, comp, tx,
                   cqe, bufs>>

\* External: the completion entry reaches the host, which may reuse the tag.
HostReceive(t) ==
    /\ cqe[t] > 0
    /\ cqe' = [cqe EXCEPT ![t] = @ - 1]
    /\ host' = [host EXCEPT ![t] = None]
    /\ UNCHANGED <<qp, refused, wire, inc, recvs, free, cur, rq, first, hq, ring, msgs,
                   bdev, comp, tx, bufs>>

---------------------------------------------------------------------------
(* The request state machine. A pass of nvmf_mcdma_request_process leaves   *)
(* requests r and hands some of them on: to the copy engine (h), the block  *)
(* device (b), the scheduler (c), or to the host as answers (a).            *)

\* request_transfer_out and READY_TO_COMPLETE: the response is submitted; if
\* that fails the request stays COMPLETING with no completion to come. What
\* it executed no longer matters.
Pass(r, h, b, c, a) ==
    \E sent \in SUBSET a :
       /\ rq' = [s \in Slot |-> IF s \in a THEN [NoReq EXCEPT !.st = "COMPLETING", !.tag = r[s].tag]
                            ELSE r[s]]
       /\ tx' = tx \cup sent /\ refused' = refused \cup (a \ sent)
       /\ cqe' = [t \in Tag |-> cqe[t] + Cardinality({s \in sent : r[s].tag = t})]
       /\ hq' = hq \o h /\ bdev' = b /\ comp' = comp \cup c

\* READY_TO_EXECUTE of an unfused request s: a management command, a fill or
\* an execute whose range set or program is missing is answered, a command
\* with something to fetch from the host is copied, the rest is handed on.
Fsm(k) == IF k \in {"slmN", "execN"} THEN "FETCH_PRP"
          ELSE IF k \in {"slm2", "copy3", "exec2"} THEN "FETCH_DATA" ELSE "NON_OP"
Executing(r, s) == [r EXCEPT ![s].st = "EXECUTING", ![s].fsm = Fsm(r[s].kind)]

ReadyToExecute(r, s, a) ==
    LET k == r[s].kind IN
    \/ k \in {"mgmt", "plain", "fill"} /\ Pass(r, <<>>, bdev, {}, a \cup {s})
    \/ k \in {"exec0", "exec2", "execN"} /\ Pass(r, <<>>, bdev, {}, a \cup {s})
    \/ Fsm(k) # "NON_OP" /\ Pass(Executing(r, s), <<s>>, bdev, {}, a)
    \/ k = "exec0" /\ Pass(Executing(r, s), <<>>, bdev, {s}, a)
    \/ k = "rw" /\ Pass(Executing(r, s), <<>>, bdev \cup {s}, {}, a)

\* nvmf_mcdma_check_fused_ordering: the FIRST that was not followed by a
\* SECOND, and the FIRST to remember.
Orphan(k) == IF first # None /\ k # "second" THEN {first} ELSE {}
\* Mutant: the remembered FIRST is not forgotten.
FirstKept(s, k) == IF k = "first" THEN s ELSE first
FirstAfter(s, k) == IF k = "first" THEN s ELSE None

\* READY_TO_EXECUTE of a fused request: a FIRST waits; a SECOND behind a FIRST
\* executes after it; a SECOND without one fails.
ReadyFused(r, s) ==
    \/ /\ r[s].kind = "first"
       /\ Pass([r EXCEPT ![s].st = "READY_TO_EXECUTE"], <<>>, bdev, {}, Orphan("first"))
    \/ /\ r[s].kind = "second" /\ first # None
       /\ Pass([r EXCEPT ![first].st = "EXECUTING", ![s].st = "EXECUTING"],
               <<>>, bdev \cup {first, s}, {}, {})
    \/ /\ r[s].kind = "second" /\ first = None
       /\ Pass(r, <<>>, bdev, {}, {s})

\* The last command taken still waits for its data.
AwaitsData == IF cur = None THEN FALSE ELSE rq[cur].st = "TRANSFERRING"

\* nvmf_mcdma_qpair_process_pending, one turn of its loop, with a command:
\* the request leaves the free queue, and NEW decides what comes next.
ProcessCommand ==
    LET s == Head(free)
        k == Head(inc).kind
        r == [rq EXCEPT ![s] = [NoReq EXCEPT !.tag = Head(inc).tag, !.kind = k, !.st = "NEW"]]
    IN /\ free # <<>> /\ inc # <<>>
       /\ ~AwaitsData
       /\ free' = Tail(free) /\ inc' = Tail(inc)
       /\ cur' = IF HasData(k) THEN s ELSE None
       /\ first' = FirstAfter(s, k)
       /\ IF k \in {"first", "second"} THEN ReadyFused(r, s)
          ELSE IF HasData(k)
          THEN Pass([r EXCEPT ![s].st = "TRANSFERRING"], <<>>, bdev, {}, Orphan(k))
          ELSE ReadyToExecute(r, s, Orphan(k))
       /\ UNCHANGED <<qp, host, wire, recvs, ring, msgs, bufs>>

\* The same with data for the request that waits for it: the data is copied,
\* the recv entry is given back, the packet that ends the data makes the
\* request ready. (The loop asks for a free request it does not take.)
TakeData(eof) ==
    LET s == cur IN
    /\ free # <<>> /\ inc # <<>> /\ AwaitsData
    /\ inc' = Tail(inc) /\ recvs' = recvs + 1
    /\ IF eof THEN ReadyToExecute(rq, s, {}) ELSE UNCHANGED <<rq, hq, bdev, comp, tx, cqe, refused>>
    /\ UNCHANGED <<qp, host, wire, free, cur, first, ring, msgs, bufs>>
\* Mutant: the end of the data is not awaited.
ProcessDataEager == TakeData(TRUE)
ProcessData == TakeData(Head(inc).n = DataPkts)

\* mcdma_qe_send_cmpl, _nvmf_mcdma_request_free: the request and its recv
\* entry go back.
\* Mutant: the recv entry of the command is kept.
QeSendCmplLeak(s) ==
    /\ s \in tx /\ tx' = tx \ {s} /\ rq' = [rq EXCEPT ![s] = NoReq]
    /\ free' = <<s>> \o free
    /\ UNCHANGED <<qp, refused, host, wire, inc, recvs, cur, first, hq, ring, msgs, bdev,
                   comp, cqe, bufs>>
QeSendCmpl(s) ==
    /\ s \in tx /\ tx' = tx \ {s} /\ rq' = [rq EXCEPT ![s] = NoReq]
    /\ free' = <<s>> \o free /\ recvs' = recvs + 1
    /\ UNCHANGED <<qp, refused, host, wire, inc, cur, first, hq, ring, msgs, bdev, comp,
                   cqe, bufs>>

---------------------------------------------------------------------------
(* The copy engine.                                                        *)

\* compute_handc_op on the handc thread: receive and send are submitted; if
\* the receive is refused the copy is given up and nobody is told.
ComputeHandcOp ==
    /\ hq # <<>> /\ hq' = Tail(hq)
    /\ \/ ring' = Append(ring, Head(hq)) /\ UNCHANGED refused
       \/ refused' = refused \cup {Head(hq)} /\ UNCHANGED ring
    /\ UNCHANGED <<qp, host, wire, inc, recvs, free, cur, rq, first, msgs, bdev, comp, tx,
                   cqe, bufs>>

\* compute_handc_op_rx_impl: all bytes have arrived; back to the request's thread.
ComputeHandcRx ==
    /\ ring # <<>> /\ ring' = Tail(ring)
    /\ msgs' = Append(msgs, [to |-> "handc", req |-> Head(ring)])
    /\ UNCHANGED <<qp, refused, host, wire, inc, recvs, free, cur, rq, first, hq, bdev,
                   comp, tx, cqe, bufs>>

\* compute_handc_impl, then EXECUTED: after a PRP list the data is fetched.
\* After the data an execute goes to the scheduler; a copy from storage takes
\* two pool buffers and issues its first read, unless it has too many ranges;
\* and everything else is done.
\* Mutant: the request goes on to completion while its data is fetched.
FetchDataDone(s) == Pass([rq EXCEPT ![s].fsm = "FETCH_DATA"], <<s>>, bdev, {}, {s})
FetchData(s) == Pass([rq EXCEPT ![s].fsm = "FETCH_DATA"], <<s>>, bdev, {}, {})
ContextsFetched(s) ==
    /\ rq[s].kind \in {"exec2", "execN"}
    /\ Pass([rq EXCEPT ![s].fsm = "NON_OP"], <<>>, bdev, {s}, {}) /\ UNCHANGED bufs
RangesFetched(s) ==
    /\ rq[s].kind = "copy3"
    /\ \E n \in 1..MaxRanges :
          Pass([rq EXCEPT ![s].fsm = "OPERATOR_SOURCE_RANGES", ![s].left = n],
               <<>>, bdev \cup {s}, {}, {})
    /\ bufs' = bufs - 2
DataFetched(s) ==
    /\ rq[s].kind \in {"slm2", "slmN", "copy3"}
    /\ Pass([rq EXCEPT ![s].fsm = "END_FETCH_DATA"], <<>>, bdev, {}, {s}) /\ UNCHANGED bufs

\* The poll group thread takes a message: compute_handc_impl or
\* compute_request_impl.
TakeMessage ==
    /\ msgs # <<>> /\ msgs' = Tail(msgs)
    /\ LET s == Head(msgs).req IN
       IF Head(msgs).to = "compute" THEN Pass(rq, <<>>, bdev, {}, {s}) /\ UNCHANGED bufs
       ELSE IF rq[s].fsm = "FETCH_PRP" THEN FetchData(s) /\ UNCHANGED bufs
       ELSE ContextsFetched(s) \/ RangesFetched(s) \/ DataFetched(s)
    /\ UNCHANGED <<qp, host, wire, inc, recvs, free, cur, first, ring>>

---------------------------------------------------------------------------
(* The block device and the scheduler.                                     *)

\* nvmf_mcdma_request_complete, called by the block device, and EXECUTED: a
\* copy reads its next range or gives its buffers back and is done.
MoreRanges(s) == rq[s].kind = "copy3" /\ rq[s].left > 1
Returned(s) == IF rq[s].kind = "copy3" THEN 2 ELSE 0
RequestComplete(s) ==
    /\ s \in bdev
    /\ IF MoreRanges(s)
       THEN Pass([rq EXCEPT ![s].left = @ - 1], <<>>, bdev, {}, {}) /\ UNCHANGED bufs
       ELSE /\ Pass([rq EXCEPT ![s].left = 0], <<>>, bdev \ {s}, {}, {s})
            /\ bufs' = bufs + Returned(s)
    /\ UNCHANGED <<qp, host, wire, inc, recvs, free, cur, first, ring, msgs>>

\* hlsacccompute_req_callback, called by the scheduler (HlsAccCompute) once the
\* request has run: it is freed there and a message goes to the thread that
\* started it.
\* Mutant: the message is not sent.
ReqCallbackSilent(s) ==
    /\ s \in comp /\ comp' = comp \ {s}
    /\ UNCHANGED <<qp, refused, host, wire, inc, recvs, free, cur, rq, first, hq, ring,
                   msgs, bdev, tx, cqe, bufs>>
ReqCallback(s) ==
    /\ s \in comp /\ comp' = comp \ {s}
    /\ msgs' = Append(msgs, [to |-> "compute", req |-> s])
    /\ UNCHANGED <<qp, refused, host, wire, inc, recvs, free, cur, rq, first, hq, ring,
                   bdev, tx, cqe, bufs>>

---------------------------------------------------------------------------
\* nvmf_mcdma_resources_create, nvmf_mcdma_qpair_initialize.
Init ==
    /\ qp \in {"admin", "io"}
    /\ host = [t \in Tag |-> None] /\ cqe = [t \in Tag |-> 0]
    /\ wire = <<>> /\ inc = <<>> /\ recvs = Recvs
    /\ free = [i \in 1..Depth |-> i] /\ cur = None /\ first = None
    /\ rq = [s \in Slot |-> NoReq]
    /\ hq = <<>> /\ ring = <<>> /\ msgs = <<>> /\ bdev = {} /\ comp = {} /\ tx = {}
    /\ refused = {} /\ bufs = Bufs

\* nvmf_mcdma_poller_poll: the queue pair's pending packets are processed.
PollerPoll == ProcessCommand \/ ProcessData
Next ==
    \/ \E t \in Tag : HostSend(t) \/ HostReceive(t)
    \/ DataArrives \/ PollerPoll
    \/ \E s \in Slot : QeSendCmpl(s) \/ RequestComplete(s) \/ ReqCallback(s)
    \/ ComputeHandcOp \/ ComputeHandcRx \/ TakeMessage
Spec == Init /\ [][Next]_vars

\* The threads keep polling, the DMA engine, the block device and the
\* scheduler finish what they were given, and the host takes completions.
FairSpec ==
    /\ Spec /\ WF_vars(ComputeHandcOp) /\ WF_vars(ComputeHandcRx) /\ WF_vars(TakeMessage)
    /\ WF_vars(DataArrives) /\ WF_vars(PollerPoll)
    /\ \A s \in Slot :
          WF_vars(QeSendCmpl(s)) /\ WF_vars(RequestComplete(s)) /\ WF_vars(ReqCallback(s))
    /\ \A t \in Tag : WF_vars(HostReceive(t))

---------------------------------------------------------------------------
(* Properties.                                                             *)

States == {"FREE", "NEW", "TRANSFERRING", "READY_TO_EXECUTE", "EXECUTING", "COMPLETING"}
Places(q, x) == Cardinality({i \in DOMAIN q : q[i] = x})
Live == {s \in Slot : rq[s].st # "FREE"}

\* Request objects, recv entries and copy buffers are conserved: free_queue
\* holds exactly the FREE requests, each once; what is missing from recv_pool
\* is held by a queued packet or by a request; what is missing from the
\* buffer pool is held by a copy from storage in progress.
PoolsConserved ==
    /\ \A s \in Slot : Places(free, s) = IF rq[s].st = "FREE" THEN 1 ELSE 0
    /\ recvs + Len(inc) + Cardinality(Live) = Recvs
    /\ bufs + 2 * Cardinality({s \in Slot : rq[s].left > 0}) = Bufs

\* Every request has one callback to come, and none that is freed or given to
\* another command has: an EXECUTING request is with exactly one of the copy
\* engine, the block device and the scheduler, a COMPLETING one with the send
\* channel (neither, if a DMA channel refused it), and any other with none.  A
\* fused FIRST that waits is remembered, for the next command to execute or fail.
Callbacks(s) ==
    Places(hq, s) + Places(ring, s) + Cardinality({i \in DOMAIN msgs : msgs[i].req = s})
    + Cardinality({X \in {<<1, bdev>>, <<2, comp>>} : s \in X[2]})
OneCallback ==
    \A s \in Slot :
        /\ Callbacks(s) = IF rq[s].st = "EXECUTING" /\ s \notin refused THEN 1 ELSE 0
        /\ s \in tx <=> rq[s].st = "COMPLETING" /\ s \notin refused
        /\ rq[s].st = "READY_TO_EXECUTE" <=> first = s

\* A command is in exactly one place until the host has its completion, and
\* so is answered at most once: as a packet, as a request not yet answered
\* (those whose submission failed stay there), or as a completion entry.
Commands(q, t) == Cardinality({i \in DOMAIN q : q[i].tag = t /\ q[i].n = 0})
Unanswered(t) == {s \in Slot : rq[s].tag = t /\ s \notin tx}
CommandConserved ==
    \A t \in Tag :
        Commands(inc, t) + Cardinality(Unanswered(t)) + cqe[t]
            = IF host[t] = None THEN 0 ELSE 1

\* The next packet is taken for what it is: data by the request whose command
\* it follows, a command by a new request.
DataFollowsCommand ==
    inc # <<>> =>
        LET h == Head(inc) IN
        IF AwaitsData THEN h.n > 0 /\ h.tag = rq[cur].tag ELSE h.n = 0

\* Every command is answered, except a FIRST nothing follows and a command
\* whose copy or whose response the DMA channel refused.
Lost(t) == \E s \in refused : rq[s].tag = t
WaitsForSecond(t) == IF first = None THEN FALSE ELSE rq[first].tag = t
CommandAnswered ==
    \A t \in Tag : host[t] # None ~> (host[t] = None \/ WaitsForSecond(t) \/ Lost(t))
=============================================================================
