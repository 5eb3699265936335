------------------------------ MODULE AxiDmaRing ------------------------------
(***************************************************************************)
(* One channel of the Xilinx MCDMA as the device firmware drives it: the   *)
(* ring of buffer descriptors (BDs) of rte_axi_dma.c, and the software I/O *)
(* objects that axi_dma.c takes from the channel's pool.  One submission   *)
(* fills one BD per page, all with the same I/O object (opaque); only the  *)
(* last carries request_end.  The hardware completes BDs in ring order up  *)
(* to taildesc; poll_complete consumes completed BDs and returns the I/O   *)
(* object at the BD that carries request_end.                              *)
(*                                                                         *)
(* A BD's buffer address, its SoF and EoF bits and the sideband it carries *)
(* are left out; the finish beat of a segmented send is kept as the extra  *)
(* BD it occupies.                                                         *)
(***************************************************************************)
EXTENDS Integers, Sequences, FiniteSets, FiniteSetsExt

CONSTANTS N,          \* num_bds: BDs in the ring (256, 1024 or 65 in the code)
          IO,         \* I/O objects
          NoIO,       \* the NULL opaque
          FinLen,     \* bytes of the finish beat BD (16 in the code)
          Chans       \* the kinds of channel: direction (tx or rx), caller (qpair,
                      \* compute or handc), the I/O objects of its pool, lengths
                      \* of one buffer (all below 2^26) and the most buffers in
                      \* one submission (48 pages)

ASSUME RingAssumption ==
    /\ N \in Nat \ {0}
    /\ NoIO \notin IO
    /\ FinLen \in Nat
    /\ \A c \in Chans : /\ c.dir \in {"tx", "rx"}
                        /\ c.client \in {"qpair", "compute", "handc"}
                        /\ c.pool \subseteq IO
                        /\ c.lens \subseteq Nat \ {0}
                        /\ c.maxIov \in 1 .. N
                        /\ c.client = "compute" => c.maxIov + 1 <= N

VARIABLES chan,       \* what kind of channel this is; never changes
          bd,         \* the descriptors: completed, opaque, request_end, bytes
          head,       \* bd_chain.head
          tail,       \* bd_chain.tail
          count,      \* ch->count
          hwCur,      \* the BD the hardware processes next
          hwLeft,     \* BDs from hwCur to taildesc that it may still process
          phase,      \* active, paused (chen cleared), released (pool reset)
          st,         \* where an I/O object is: free, posted, done, leaked
          xfer,       \* io->transfered_length
          moved       \* history: bytes the hardware moved for the submission

ringVars == <<bd, head, tail, count>>
hwVars == <<hwCur, hwLeft>>
ioVars == <<st, xfer, moved>>
vars == <<chan, ringVars, hwVars, phase, ioVars>>

Dir == chan.dir
Client == chan.client
Lens == chan.lens
MaxIov == chan.maxIov

Slot == 0 .. N - 1

\* The BD k places after i (the next pointers close the ring), and how many
\* places b lies after a.
Adv(i, k) == (i + k) % N
Dist(a, b) == (b - a) % N

\* The BDs in use.
Region == {Adv(head, j) : j \in 0 .. count - 1}

Segmented == Dir = "tx" /\ Client = "compute"

-----------------------------------------------------------------------------
\* rte_axi_dma_create_channel (and the pool of the channel, all free).
Init ==
    /\ chan \in Chans
    /\ bd = [i \in Slot |->
                [done |-> FALSE, opaque |-> NoIO, end |-> FALSE, len |-> 0, got |-> 0]]
    /\ head = 0 /\ tail = 0 /\ count = 0
    /\ hwCur = 0 /\ hwLeft = 0
    /\ phase = "active"
    /\ st = [io \in IO |-> "free"]
    /\ xfer = [io \in IO |-> 0]
    /\ moved = [io \in IO |-> 0]

channel_full == count # 0 /\ head = tail

\* How the callers use a channel.  An NVMe queue pair submits one buffer at a time;
\* a compute channel submits up to 48 pages, and only at the start of a request or
\* from channel_done, when nothing is in flight; the host-to-card copy channel
\* submits whole lists for reception (one buffer each for transmission) whenever
\* a request asks for it.
CallerMay(n) ==
    /\ Client = "qpair" => n = 1
    /\ Client = "compute" => count = 0

\* Fill the BDs for the n lengths lens and write taildesc.
Fill(io, lens) ==
    LET n == Len(lens) IN
    /\ bd' = [i \in Slot |->
                LET k == Dist(tail, i) IN
                IF k < n THEN [done |-> FALSE, opaque |-> io, end |-> k = n - 1,
                               len |-> lens[k + 1], got |-> 0]
                         ELSE bd[i]]
    /\ tail' = Adv(tail, n)
    /\ count' = count + n
    /\ hwLeft' = Dist(hwCur, Adv(tail, n - 1)) + 1
    /\ UNCHANGED <<head, hwCur>>

\* The fields of a submitted I/O object: the submission promises all the bytes.
Posted(io, lens) ==
    /\ st' = [st EXCEPT ![io] = "posted"]
    /\ xfer' = [xfer EXCEPT ![io] =
                  MapThenSumSet(LAMBDA i : lens[i], 1 .. Len(lens))]
    /\ moved' = [moved EXCEPT ![io] = 0]

\* A failed submission of spdk_axi_dma_rx_channel_recv puts the object back, one
\* of the two send functions does not; compute_handc_op frees it in both cases.
AfterFailure == IF Dir = "rx" \/ Client = "handc" THEN "free" ELSE "leaked"

\* rte_axi_dma_add_buffer, through tx_channel_send and rx_channel_recv: the ring
\* is tested for room once, whatever the number of buffers.
rte_axi_dma_add_buffer(io, lens) ==
    \/ ~channel_full /\ Fill(io, lens) /\ Posted(io, lens)
    \/ /\ channel_full
       /\ st' = [st EXCEPT ![io] = AfterFailure]
       /\ UNCHANGED <<ringVars, hwVars, xfer, moved>>

\* rte_axi_dma_send_seg: no test for room at all; last_data adds the finish beat.
rte_axi_dma_send_seg(io, lens, last_data) ==
    LET all == IF last_data THEN Append(lens, FinLen) ELSE lens
    IN  Fill(io, all) /\ Posted(io, all)

\* A submission through axi_dma.c; a compute transmission is segmented.
Submit(io, lens, last_data) ==
    /\ phase = "active"
    /\ io \in chan.pool /\ st[io] = "free"
    /\ CallerMay(Len(lens))
    /\ IF Segmented THEN rte_axi_dma_send_seg(io, lens, last_data)
                    ELSE ~last_data /\ rte_axi_dma_add_buffer(io, lens)
    /\ UNCHANGED <<chan, phase>>

\* spdk_vtophys fails for one of the buffers: nothing reaches the ring.
SubmitFault(io) ==
    /\ phase = "active"
    /\ io \in chan.pool /\ st[io] = "free"
    /\ Client # "handc"
    /\ st' = [st EXCEPT ![io] = IF Dir = "rx" THEN "free" ELSE "leaked"]
    /\ UNCHANGED <<chan, ringVars, hwVars, phase, xfer, moved>>

\* External: the MCDMA finishes one BD.  A transmission moves the whole buffer, a
\* reception what the packet held.  Clearing chen does not wait for a BD that is
\* being processed.
HwComplete ==
    /\ hwLeft > 0
    /\ \E got \in (IF Dir = "tx" THEN {bd[hwCur].len} ELSE 1 .. bd[hwCur].len) :
          /\ bd' = [bd EXCEPT ![hwCur] = [done |-> TRUE, opaque |-> @.opaque,
                                                 end |-> @.end, len |-> @.len, got |-> got]]
          /\ moved' = IF bd[hwCur].opaque \in IO
                      THEN [moved EXCEPT ![bd[hwCur].opaque] = @ + got]
                      ELSE moved
    /\ hwCur' = Adv(hwCur, 1)
    /\ hwLeft' = hwLeft - 1
    /\ UNCHANGED <<chan, head, tail, count, phase, st, xfer>>

\* Mutant: only the last BD's shortfall is taken off transfered_length.
ConsumeLastOnly(k) ==
    LET used == {Adv(head, j) : j \in 0 .. k - 1}
        last == Adv(head, k - 1)
    IN
    /\ bd' = [i \in Slot |-> IF i \in used
                             THEN [bd[i] EXCEPT !.opaque = NoIO, !.end = FALSE]
                             ELSE bd[i]]
    /\ xfer' = [io \in IO |-> IF bd[last].opaque = io
                              THEN xfer[io] - (bd[last].len - bd[last].got)
                              ELSE xfer[io]]
    /\ head' = Adv(head, k)
    /\ count' = count - k
    /\ UNCHANGED <<tail, hwVars, phase, moved>>

\* The effect of consuming the first k BDs, on the ring and on the lengths.
Consume(k) ==
    LET used == {Adv(head, j) : j \in 0 .. k - 1} IN
    /\ bd' = [i \in Slot |-> IF i \in used
                             THEN [done |-> bd[i].done, opaque |-> NoIO, end |-> FALSE,
                                   len |-> bd[i].len, got |-> bd[i].got]
                             ELSE bd[i]]
    /\ xfer' = [io \in IO |-> xfer[io] -
                  MapThenSumSet(LAMBDA i : bd[i].len - bd[i].got,
                                {i \in used : bd[i].opaque = io})]
    /\ head' = Adv(head, k)
    /\ count' = count - k
    /\ UNCHANGED <<tail, hwVars, phase, moved>>

\* Mutant: the I/O object is returned at the first completed BD, as it was when
\* the EoF bit decided.
PollReturnsAtFirst(k) ==
    /\ k = 1 /\ count >= 1
    /\ bd[head].done
    /\ Consume(1)
    /\ st' = [st EXCEPT ![bd[head].opaque] = "done"]

\* Mutant: the loop does not stop at request_end and returns the last one.
PollRunsPastEnd(k) ==
    /\ k \in 1 .. count
    /\ \A j \in 0 .. k - 1 : bd[Adv(head, j)].done
    /\ bd[Adv(head, k - 1)].end
    /\ k = count \/ ~bd[Adv(head, k)].done
    /\ Consume(k)
    /\ st' = [st EXCEPT ![bd[Adv(head, k - 1)].opaque] = "done"]

\* Mutant: the last submission in the ring waits for another one behind it.
PollLeavesLast(k) ==
    /\ k \in 1 .. count - 1
    /\ \A j \in 0 .. k - 1 : bd[Adv(head, j)].done
    /\ \A j \in 0 .. k - 2 : ~bd[Adv(head, j)].end
    /\ bd[Adv(head, k - 1)].end
    /\ Consume(k)
    /\ st' = [st EXCEPT ![bd[Adv(head, k - 1)].opaque] = "done"]

\* rte_axi_dma_poll_complete when it returns an object: the k-th BD in use is the
\* first one with request_end, and all up to it are completed.
PollReturn(k) ==
    /\ k \in 1 .. count
    /\ \A j \in 0 .. k - 1 : bd[Adv(head, j)].done
    /\ \A j \in 0 .. k - 2 : ~bd[Adv(head, j)].end
    /\ bd[Adv(head, k - 1)].end
    /\ Consume(k)
    /\ st' = [st EXCEPT ![bd[Adv(head, k - 1)].opaque] = "done"]

\* The same function when it returns NULL after consuming k BDs: it stopped at one
\* that is not completed or at the end of the ring, and saw no request_end.
PollNull(k) ==
    /\ k \in 1 .. count
    /\ \A j \in 0 .. k - 1 : bd[Adv(head, j)].done /\ ~bd[Adv(head, j)].end
    /\ k = count \/ ~bd[Adv(head, k)].done
    /\ Consume(k)
    /\ UNCHANGED st

Poll ==
    /\ phase # "released"
    /\ \E k \in 1 .. count : PollReturn(k) \/ PollNull(k)
    /\ UNCHANGED chan

\* The callback is done with the object (spdk_axi_dma_io_free).
spdk_axi_dma_io_free(io) ==
    /\ st[io] = "done"
    /\ st' = [st EXCEPT ![io] = "free"]
    /\ UNCHANGED <<chan, ringVars, hwVars, phase, xfer, moved>>

-----------------------------------------------------------------------------
\* The life of a compute channel: pause, release and apply.

rte_axi_dma_stop_channel ==
    /\ Client = "compute"
    /\ phase = "active"
    /\ phase' = "paused"
    /\ UNCHANGED <<chan, ringVars, hwVars, ioVars>>

\* tx_rx_channel_release resets the pool with BDs possibly still in the ring, and
\* stops the poller.
PoolReset ==
    /\ Client = "compute"
    /\ phase = "paused"
    /\ phase' = "released"
    /\ st' = [io \in IO |-> "free"]
    /\ UNCHANGED <<chan, ringVars, hwVars, xfer, moved>>

\* Mutant: the test for "nothing in flight" looks only at head and tail.
EnableTestsHeadTailOnly ==
    /\ phase = "released"
    /\ phase' = "active"
    /\ IF head = tail \/ hwLeft = 0
       THEN UNCHANGED <<ringVars, hwVars>>
       ELSE /\ head' = 0 /\ tail' = 0 /\ count' = 0
            /\ hwCur' = 0 /\ hwLeft' = 0
            /\ bd' = IF Dir = "tx" THEN [bd EXCEPT ![0].done = FALSE] ELSE bd
    /\ UNCHANGED <<chan, ioVars>>

\* Mutant: the reset of the ring forgets ch->count.
EnableKeepsCount ==
    /\ phase = "released"
    /\ phase' = "active"
    /\ IF head = tail /\ count = 0 /\ hwLeft = 0
       THEN UNCHANGED <<ringVars, hwVars>>
       ELSE /\ head' = 0 /\ tail' = 0
            /\ hwCur' = 0 /\ hwLeft' = 0
            /\ bd' = IF Dir = "tx" THEN [bd EXCEPT ![0].done = FALSE] ELSE bd
            /\ UNCHANGED count
    /\ UNCHANGED <<chan, ioVars>>

\* tx_rx_channel_apply: an idle channel only gets its chen bit back, any other is
\* reset together with the hardware.
rte_axi_dma_enable_channel ==
    /\ phase = "released"
    /\ phase' = "active"
    /\ IF head = tail /\ count = 0 /\ hwLeft = 0
       THEN UNCHANGED <<ringVars, hwVars>>
       ELSE /\ head' = 0 /\ tail' = 0 /\ count' = 0
            /\ hwCur' = 0 /\ hwLeft' = 0
            /\ bd' = IF Dir = "tx" THEN [bd EXCEPT ![0].done = FALSE] ELSE bd
    /\ UNCHANGED <<chan, ioVars>>

IovLists == UNION {[1 .. n -> Lens] : n \in 1 .. MaxIov}

Next ==
    \/ \E io \in IO, lens \in IovLists, last_data \in BOOLEAN : Submit(io, lens, last_data)
    \/ \E io \in IO : SubmitFault(io)
    \/ HwComplete
    \/ Poll
    \/ \E io \in IO : spdk_axi_dma_io_free(io)
    \/ rte_axi_dma_stop_channel
    \/ PoolReset
    \/ rte_axi_dma_enable_channel

Spec == Init /\ [][Next]_vars

\* The MCDMA keeps processing the BDs it was given and the poller keeps running.
FairSpec == Spec /\ WF_vars(HwComplete) /\ WF_vars(Poll)

-----------------------------------------------------------------------------
TypeOK ==
    /\ bd \in [Slot -> [done : BOOLEAN, opaque : IO \cup {NoIO}, end : BOOLEAN,
                        len : Nat, got : Nat]]
    /\ head \in Slot /\ tail \in Slot
    /\ count \in 0 .. N
    /\ hwCur \in Slot /\ hwLeft \in 0 .. N
    /\ phase \in {"active", "paused", "released"}
    /\ st \in [IO -> {"free", "posted", "done", "leaked"}]

\* The software ring and the hardware agree: count is what head and tail say, the
\* hardware's window ends where the ring ends, and the BDs in use before it are
\* exactly the completed ones.
RingMatchesHardware ==
    /\ tail = Adv(head, count)
    /\ hwLeft <= count
    /\ hwCur = Adv(head, count - hwLeft)
    /\ \A j \in 0 .. count - 1 : bd[Adv(head, j)].done <=> j < count - hwLeft

\* An I/O object that poll_complete has returned, or that is back in the pool, is
\* named by no BD in use: it is returned only after its final descriptor, and
\* no late completion can reach an object that serves another submission.
ReturnedAfterFinal ==
    phase # "released" => \A i \in Region : bd[i].opaque \in IO /\ st[bd[i].opaque] = "posted"

\* No submission is lost: a posted object still has the BD that will return it,
\* and exactly one.
NeverLost ==
    \A io \in IO : st[io] = "posted" =>
        \E i \in Region : /\ bd[i].opaque = io /\ bd[i].end
                          /\ \A j \in Region : bd[j].opaque = io /\ bd[j].end => j = i

\* What poll_complete reports in status.transfered_bytes is what the hardware
\* moved, summed over all the BDs of the submission, the finish beat included.
BytesExact == \A io \in IO : st[io] = "done" => xfer[io] = moved[io]

\* Completions are delivered once each and in the order of submission, across
\* partial polls, wrap-around and the reset of a compute channel.
RingOrder == [j \in 1 .. count |-> bd[Adv(head, j - 1)]]
EndOrder == SelectSeq(RingOrder, LAMBDA b : b.end)
Fifo == INSTANCE IoFifo WITH
            queue <- IF phase = "released" THEN << >>
                     ELSE [j \in 1 .. Len(EndOrder) |-> EndOrder[j].opaque],
            delivered <- {io \in IO : st[io] = "done"}
ImplementsFifo == Fifo!FifoSpec

\* Every submission is returned in the end, as long as the hardware and the poller
\* run and the channel is not paused: poll_complete never leaves a completed
\* submission behind.
EventuallyReturned ==
    \A io \in IO : st[io] = "posted" ~> st[io] = "done" \/ phase # "active"
=============================================================================
