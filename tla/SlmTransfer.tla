----------------------------- MODULE SlmTransfer -----------------------------
(***************************************************************************)
(* read_slm_in_chunks and its sequential relatives: a buffer is moved from *)
(* or to a memory namespace in requests of one chunk each, by as many      *)
(* worker threads as the queue depth.  The workers claim the next request  *)
(* with a fetch_add, repeat a request that a signal interrupted a bounded  *)
(* number of times, and stop together when one of them fails.  The         *)
(* transfer is a record; each operator gives the records a step may lead   *)
(* to.                                                                     *)
(***************************************************************************)
EXTENDS Naturals, FiniteSets

CONSTANTS Chunks,       \* request_count
          MaxRetries    \* kSlmReadEintrMaxRetries

Requests == 0 .. Chunks - 1

\* records->assign and the start of active_queue_depth workers.
TransferOf(depth) ==
    [next |-> 0, stop |-> FALSE,
     at |-> [w \in 1 .. depth |-> "loop"],
     request |-> [w \in 1 .. depth |-> 0],
     retries |-> [w \in 1 .. depth |-> 0],
     record |-> [i \in Requests |-> "none"],
     moved |-> [i \in Requests |-> 0]]

Workers(x) == DOMAIN x.at

\* while (!stop.load()), then next_request.fetch_add(1).
WorkerLoop(x, w) ==
    IF x.at[w] = "loop"
    THEN {[x EXCEPT !.at[w] = IF x.stop THEN "done" ELSE "fetch"]} ELSE {}
WorkerClaim(x, w) ==
    IF x.at[w] = "fetch"
    THEN {IF x.next >= Chunks THEN [x EXCEPT !.next = @ + 1, !.at[w] = "done"]
          ELSE [x EXCEPT !.next = @ + 1, !.request[w] = x.next, !.at[w] = "io"]} ELSE {}

\* Mutant: a worker that fails leaves before it writes its record.
WorkerFailsUnrecorded(x, w) ==
    IF x.at[w] = "io" THEN {[x EXCEPT !.stop = TRUE, !.at[w] = "done"]} ELSE {}

\* nvme_slm_read of one request: done, interrupted by a signal, or failed.
WorkerMoves(x, w) ==
    IF x.at[w] = "io"
    THEN {[x EXCEPT !.record[x.request[w]] = "ok", !.moved[x.request[w]] = @ + 1,
                    !.at[w] = "loop", !.retries[w] = 0]} ELSE {}
WorkerFails(x, w) ==
    IF x.at[w] = "io"
    THEN {[x EXCEPT !.record[x.request[w]] = "failed", !.stop = TRUE, !.at[w] = "done"]}
    ELSE {}

\* EINTR: the request is repeated, and fails when it was repeated often enough.
WorkerInterrupted(x, w) ==
    IF x.at[w] # "io" THEN {}
    ELSE IF x.retries[w] < MaxRetries THEN {[x EXCEPT !.retries[w] = @ + 1]}
    ELSE WorkerFails(x, w)

WorkerStep(x, w) == WorkerLoop(x, w) \cup WorkerClaim(x, w) \cup WorkerMoves(x, w)

\* The threads are joined; the first failed record decides the result.
Joined(x) == \A w \in Workers(x) : x.at[w] = "done"
TransferResult(x) == \A i \in Requests : x.record[i] # "failed"
=============================================================================
