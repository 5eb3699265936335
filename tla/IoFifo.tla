------------------------------- MODULE IoFifo -------------------------------
(***************************************************************************)
(* What the callers of the AXI DMA driver assume of a channel: a submission *)
(* is delivered back exactly once, in the order of submission, and its I/O *)
(* object can be used again only after that; releasing a compute channel   *)
(* forgets everything at once.  AxiDmaRing implements it.                  *)
(***************************************************************************)
EXTENDS Naturals, Sequences

CONSTANT IO         \* the I/O objects of the channel's pool

VARIABLES queue,    \* submissions not delivered yet, oldest first
          delivered \* delivered and not yet returned to the pool

fifoVars == <<queue, delivered>>

InQueue(io) == \E i \in 1 .. Len(queue) : queue[i] = io

FifoInit ==
    /\ queue = << >>
    /\ delivered = {}

Post(io) ==
    /\ ~InQueue(io)
    /\ io \notin delivered
    /\ queue' = Append(queue, io)
    /\ UNCHANGED delivered

Deliver ==
    /\ queue # << >>
    /\ queue' = Tail(queue)
    /\ delivered' = delivered \cup {Head(queue)}

Recycle(io) ==
    /\ io \in delivered
    /\ delivered' = delivered \ {io}
    /\ UNCHANGED queue

Flush ==
    /\ queue' = << >>
    /\ delivered' = {}

FifoNext ==
    \/ \E io \in IO : Post(io) \/ Recycle(io)
    \/ Deliver
    \/ Flush

FifoSpec == FifoInit /\ [][FifoNext]_fifoVars
=============================================================================
