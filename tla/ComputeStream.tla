---------------------------- MODULE ComputeStream ----------------------------
(***************************************************************************)
(* The data path of one compute request on the device: the transmit        *)
(* channel sends the input memory to the operator in batches of pages and  *)
(* ends it with a finish beat, the receive channel posts batches of pages  *)
(* of the output memory, and tx_rx_channel_poller accounts for what was    *)
(* moved, posts the next batch and completes the request.  AxiDmaRing has  *)
(* the ring below it: a batch is returned only after its last descriptor.  *)
(* All lengths are in words.                                               *)
(*                                                                         *)
(* A request of the LWE programs has one channel and one virtual object in *)
(* each direction.  Pausing a channel in the middle of a batch is left out.*)
(***************************************************************************)
EXTENDS LweCodec

CONSTANTS PageWords,   \* words in a page
          TxBatch,     \* pages in one transmission (48)
          RxBatch,     \* pages in one reception (mcdma_compute_rx_batch_pages)
          TxFinish,    \* words the finish beat adds to a transmission
          RxFinish     \* words the finish beat occupies in a reception

VARIABLES input,       \* the input memory, words
          output,      \* the output memory, words
          txVos,       \* tx_vos of the request: [len, used], at most one
          rxVos,       \* rx_vos of the request
          txFly,       \* the batch the transmit channel has submitted
          rxFly,       \* the batch the receive channel has submitted
          toOp,        \* beats on the way to the operator
          fromOp,      \* words on the way from the operator
          result,      \* req->result
          calls        \* history: calls of the request's callback

streamVars == <<input, output, txVos, rxVos, txFly, rxFly, toOp, fromOp, result, calls>>

FinishWord == -1       \* what a finish beat leaves in memory
NoBatch == [n |-> 0, from |-> 0, last |-> FALSE, done |-> FALSE, got |-> 0]
Pages(n) == (n + PageWords - 1) \div PageWords

Batch(from, n, last) == [n |-> n, from |-> from, last |-> last, done |-> FALSE, got |-> 0]

\* tx_channel_send: at most TxBatch pages; the finish beat follows when the rest of
\* the last object fits.
tx_channel_send(vos) ==
    IF vos = << >> THEN NoBatch
    ELSE LET size == Head(vos).len - Head(vos).used IN
         Batch(Head(vos).used, Min({size, TxBatch * PageWords}),
               Pages(size) <= TxBatch /\ Len(vos) = 1)

\* rx_channel_recv.
rx_channel_recv(vos) ==
    IF vos = << >> THEN NoBatch
    ELSE Batch(Head(vos).used,
               Min({Head(vos).len - Head(vos).used, RxBatch * PageWords}), FALSE)

\* A request starts on both channels: memory, virtual objects, first batches.
StartStream(in, inLen, outLen) ==
    LET tx == <<[len |-> inLen, used |-> 0]>>
        rx == <<[len |-> outLen, used |-> 0]>>
    IN  /\ input' = in
        /\ output' = [k \in 1 .. outLen |-> 0]
        /\ txVos' = tx /\ rxVos' = rx
        /\ txFly' = tx_channel_send(tx) /\ rxFly' = rx_channel_recv(rx)
        /\ result' = 0 /\ calls' = 0

-----------------------------------------------------------------------------
\* External: the transmit engine sends a batch.  Every page is a packet of its own
\* (TLAST on its last beat), the finish beat follows the last one.
PageBeats(words) ==
    LET b == Beats(words) IN [b EXCEPT ![Len(b)].last = TRUE]

CanSend == txFly.n > 0 /\ ~txFly.done
EngineSends ==
    /\ CanSend
    /\ toOp' = toOp
          \o FlattenSeq([p \in 1 .. Pages(txFly.n) |->
                 PageBeats(SubSeq(input, txFly.from + (p - 1) * PageWords + 1,
                                  txFly.from + Min({p * PageWords, txFly.n})))])
          \o (IF txFly.last THEN <<Finish(0)>> ELSE << >>)
    /\ txFly' = [txFly EXCEPT !.done = TRUE,
                              !.got = txFly.n + (IF txFly.last THEN TxFinish ELSE 0)]
    /\ UNCHANGED <<input, output, txVos, rxVos, rxFly, fromOp, result, calls>>

\* External: the receive engine fills a batch in order.  A finish beat ends the
\* descriptor it lies in; the batch is returned when its last descriptor is done.
CanReceive ==
    LET avail == Len(fromOp)
        lastLen == ((rxFly.n - 1) % PageWords) + 1
    IN  /\ rxFly.n > 0 /\ ~rxFly.done
        /\ avail >= rxFly.n \/ (Last(<<0>> \o fromOp) = FinishWord /\ avail > rxFly.n - lastLen)
EngineReceives ==
    LET avail == Len(fromOp)
        k == Min({avail, rxFly.n})
    IN  /\ CanReceive = TRUE
        /\ output' = [w \in 1 .. Max({Len(output), rxFly.from + k}) |->
                        IF w \in rxFly.from + 1 .. rxFly.from + k THEN fromOp[w - rxFly.from]
                        ELSE output[w]]
        /\ fromOp' = SubSeq(fromOp, k + 1, avail)
        /\ rxFly' = [rxFly EXCEPT !.done = TRUE, !.got = k, !.last = fromOp[k] = FinishWord]
        /\ UNCHANGED <<input, txVos, rxVos, txFly, toOp, result, calls>>

\* Mutant: the finish beat is counted as payload.
PayloadAll(bytes, finished, beat) == bytes

\* The payload of a completion: the finish beat is taken off.
Payload(bytes, finished, beat) ==
    IF finished THEN (IF bytes >= beat THEN bytes - beat ELSE 0) ELSE bytes

\* The object at the head has n more words behind it; a full one goes back to the
\* pool (tx_rx_channel_poller).
Used(vos, n) ==
    LET ob == [Head(vos) EXCEPT !.used = @ + n] IN
    IF ob.used >= ob.len THEN Tail(vos) ELSE <<ob>> \o Tail(vos)

\* A completed transmission: more data than the object has is an error, which keeps
\* the object and sends nothing more.
TxLen == Payload(txFly.got, txFly.last, TxFinish)
TxTooMuch == Head(txVos).used + TxLen > Head(txVos).len
TxLeft == IF TxTooMuch THEN [txVos EXCEPT ![1].used = @ + TxLen] ELSE Used(txVos, TxLen)

\* tx_rx_channel_poller on the transmit channel, with tx_channel_done and the send
\* it asks for.
TxPoll ==
    /\ txFly.done
    /\ txVos' = TxLeft
    /\ txFly' = IF TxTooMuch THEN NoBatch ELSE tx_channel_send(TxLeft)
    /\ UNCHANGED <<input, output, rxVos, rxFly, toOp, fromOp, result, calls>>

\* rx_channel_done: the request is over at the finish beat, or when no room is left.
RxDone(vos, finished) == finished \/ vos = << >>

\* tx_rx_channel_poller on the receive channel.  The callback of a request that is
\* over frees the request, and releasing the transmit channel polls it once more.
RxPoll ==
    LET n == Payload(rxFly.got, rxFly.last, RxFinish)
        vos == Used(rxVos, n)
    IN  /\ rxFly.done
        /\ result' = result + n
        /\ rxVos' = vos
        /\ IF RxDone(vos, rxFly.last)
           THEN /\ calls' = calls + 1
                /\ rxFly' = NoBatch
                /\ txVos' = IF txFly.done THEN TxLeft ELSE txVos
                /\ txFly' = IF txFly.done THEN NoBatch ELSE txFly
           ELSE rxFly' = rx_channel_recv(vos) /\ UNCHANGED <<calls, txVos, txFly>>
        /\ UNCHANGED <<input, output, toOp, fromOp>>

=============================================================================
