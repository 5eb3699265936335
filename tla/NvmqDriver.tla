------------------------------ MODULE NvmqDriver ------------------------------
(****************************************************************************)
(* The host's nvmq QDMA transport (overlays/suda/host/drivers/nvmq/qdma.c): *)
(* the controller state machine, its four work items and the creating       *)
(* thread, the queues with their flags, and the block layer's requests.     *)
(* The nvmq core, blk-mq and libqdma are not in the repository; what the    *)
(* driver relies on of them is modelled from its calls and marked external. *)
(****************************************************************************)
EXTENDS Integers, FiniteSets

CONSTANTS NQ,            \* I/O queues 1..NQ; queue 0 is the admin queue
          Req,           \* block-layer requests (tags)
          QueueOf,       \* the I/O queue each tag belongs to
          RingSize,      \* response buffers of a queue (queue_size)
          MaxReconnects, \* opts->max_reconnects
          NoReq          \* "the timeout handler is idle"

ASSUME NvmqConstants ==
    /\ NQ \in Nat \ {0} /\ RingSize \in Nat \ {0} /\ MaxReconnects \in Nat
    /\ IsFiniteSet(Req) /\ QueueOf \in [Req -> 1..NQ] /\ NoReq \notin Req

VARIABLES ctrl,     \* the controller state of the nvmq core
          q,        \* per queue: the flags, the hardware queue, the posted responses
          rq,       \* per request: its block-layer state and what is outstanding
          quiesced, \* nvmq_stop_queues: nothing is dispatched on the I/O queues
          freeze,   \* nvmq_start_freeze depth: nothing enters the I/O queues
          armed,    \* the block layer's timeout timer may still fire
          tmo,      \* the request the timeout handler is completing, and its stop
          pc,       \* the step each work item is at
          qi,       \* the I/O queue each setup is to connect next
          nr,       \* nr_reconnects
          warned,   \* a WARN_ON of the state machine has fired
          devRef    \* kref of struct nvme_qdma_device
vars == <<ctrl, q, rq, quiesced, freeze, armed, tmo, pc, qi, nr, warned, devRef>>
ioVars == <<q, rq, quiesced, freeze, armed, tmo>>
ctlVars == <<ctrl, pc, qi, nr, warned, devRef>>

Worker == {"create", "err", "reconnect", "reset", "delete"}
Queue  == 0..NQ
IoQ    == 1..NQ
IdleTmo == [req |-> NoReq, stop |-> FALSE]

\* struct nvme_qdma_queue: the ALLOCATED and LIVE bits, the QDMA queue pair behind
\* it and the number of response buffers it has been given.
NoQueue == [alloc |-> FALSE, live |-> FALSE, hw |-> "none", posted |-> 0]

\* struct nvme_qdma_request together with its blk-mq state: ref is the
\* refcount of send and receive completions, h2c says that the send completion
\* callback is still to come, dev that the device still owes the completion.
NoRequest == [st |-> "free", ref |-> 0, h2c |-> FALSE, dev |-> FALSE]

---------------------------------------------------------------------------
(* External: the nvmq core, blk-mq and libqdma as this driver uses them.   *)

\* nvmq_change_ctrl_state: the transitions the core allows.
MayChange(from, to) ==
    CASE to = "LIVE"       -> from \in {"NEW", "RESETTING", "CONNECTING"}
      [] to = "RESETTING"  -> from \in {"NEW", "LIVE"}
      [] to = "CONNECTING" -> from \in {"NEW", "RESETTING"}
      [] to = "DELETING"   -> from \in {"LIVE", "RESETTING", "CONNECTING"}

\* blk-mq: a request enters a queue that is not frozen.
Enter(r) ==
    /\ rq[r].st = "free" /\ freeze = 0 /\ ctrl \in {"LIVE", "RESETTING", "CONNECTING"}
    /\ pc["create"] = "idle"
    /\ rq' = [rq EXCEPT ![r].st = "queued"]
    /\ UNCHANGED <<q, quiesced, freeze, armed, tmo>> /\ UNCHANGED ctlVars

\* qdma_queue_stop of both directions of the queues Q: the send completions
\* still outstanding are either delivered with an error (cb) or dropped, the
\* posted responses are returned with an error, and what the device still
\* sends to the queue is lost.
DropRef(x) ==
    IF x.ref = 1 THEN [x EXCEPT !.ref = 0, !.st = "completing"]
                 ELSE [x EXCEPT !.ref = @ - 1]
HwStop(Q, qs) ==
    [i \in Queue |-> IF i \in Q /\ qs[i].hw = "run"
                     THEN [qs[i] EXCEPT !.hw = "stopped", !.posted = 0] ELSE qs[i]]
Aborted(Q, rs, cb) ==
    [r \in Req |-> IF QueueOf[r] \in Q
                   THEN [(IF r \in cb THEN DropRef(rs[r]) ELSE rs[r])
                         EXCEPT !.h2c = FALSE, !.dev = FALSE]
                   ELSE rs[r]]
Sending(Q) == {r \in Req : rq[r].h2c /\ QueueOf[r] \in Q}

\* nvmq_cancel_request over the tag set: every started request completes.
Cancelled(rs) ==
    [r \in Req |-> IF rs[r].st = "started" THEN [rs[r] EXCEPT !.st = "completing"] ELSE rs[r]]

---------------------------------------------------------------------------
(* The request path.                                                       *)

\* nvme_qdma_queue_rq. A dispatched request that is not ready stays queued,
\* or fails when the controller is going away. Otherwise: an allocation or a
\* mapping fails (the request is retried or failed), a response buffer
\* cannot be posted (failed: the negative errno is no retriable status), the
\* send cannot be posted (retried or failed, the response stays posted), or
\* the command is sent with one reference for each of its two completions.
Ready(i) == ctrl = "LIVE" \/ q[i].live
CanPost(i) == q[i].hw = "run" /\ q[i].posted < RingSize

QueueRqNotReady(r) ==
    /\ rq[r].st = "queued" /\ ~quiesced /\ ~Ready(QueueOf[r]) /\ ctrl \in {"DELETING", "GONE"}
    /\ rq' = [rq EXCEPT ![r] = NoRequest]
    /\ UNCHANGED <<q, quiesced, freeze, armed, tmo>> /\ UNCHANGED ctlVars

QueueRqFailed(r) ==
    /\ rq[r].st = "queued" /\ ~quiesced /\ Ready(QueueOf[r])
    /\ \E posted \in BOOLEAN :
          /\ posted => CanPost(QueueOf[r])
          /\ q' = [q EXCEPT ![QueueOf[r]].posted = IF posted THEN @ + 1 ELSE @]
    /\ rq' = [rq EXCEPT ![r] = NoRequest]
    /\ armed' = TRUE
    /\ UNCHANGED <<quiesced, freeze, tmo>> /\ UNCHANGED ctlVars

QueueRqRetry(r) ==
    /\ rq[r].st = "queued" /\ ~quiesced /\ Ready(QueueOf[r]) /\ CanPost(QueueOf[r])
    /\ q' = [q EXCEPT ![QueueOf[r]].posted = @ + 1]
    /\ armed' = TRUE
    /\ UNCHANGED <<rq, quiesced, freeze, tmo>> /\ UNCHANGED ctlVars

\* Mutant: queue_rq goes on when the response buffer could not be posted.
QueueRqSentUnposted(r) ==
    /\ rq[r].st = "queued" /\ ~quiesced /\ Ready(QueueOf[r]) /\ q[QueueOf[r]].hw = "run"
    /\ rq' = [rq EXCEPT ![r] = [st |-> "started", ref |-> 2, h2c |-> TRUE, dev |-> TRUE]]
    /\ armed' = TRUE
    /\ UNCHANGED <<q, quiesced, freeze, tmo>> /\ UNCHANGED ctlVars

QueueRqSent(r) ==
    /\ rq[r].st = "queued" /\ ~quiesced /\ Ready(QueueOf[r]) /\ CanPost(QueueOf[r])
    /\ q' = [q EXCEPT ![QueueOf[r]].posted = @ + 1]
    /\ rq' = [rq EXCEPT ![r] = [st |-> "started", ref |-> 2, h2c |-> TRUE, dev |-> TRUE]]
    /\ armed' = TRUE
    /\ UNCHANGED <<quiesced, freeze, tmo>> /\ UNCHANGED ctlVars

\* nvme_qdma_qe_send_done: the send completion gives up its reference.
QeSendDone(r) ==
    /\ rq[r].h2c
    /\ rq' = [rq EXCEPT ![r] = DropRef([@ EXCEPT !.h2c = FALSE])]
    /\ UNCHANGED <<q, quiesced, freeze, armed, tmo>> /\ UNCHANGED ctlVars

\* nvme_qdma_qe_recv_done, nvme_qdma_process_nvme_rsp: the completion entry
\* takes a posted response and gives up the other reference.
QeRecvDone(r) ==
    LET i == QueueOf[r] IN
    /\ rq[r].dev /\ q[i].hw = "run" /\ q[i].posted > 0
    /\ q' = [q EXCEPT ![i].posted = @ - 1]
    /\ rq' = [rq EXCEPT ![r] = DropRef([@ EXCEPT !.dev = FALSE])]
    /\ UNCHANGED <<quiesced, freeze, armed, tmo>> /\ UNCHANGED ctlVars

\* nvme_qdma_complete_rq: unmap, then the core ends the request or retries it.
\* A reference count nothing can drop any more is set to 0.
CompleteRq(r) ==
    /\ rq[r].st = "completing"
    /\ \E s \in {"free", "queued"} :
          rq' = [rq EXCEPT ![r] =
                    [@ EXCEPT !.st = s, !.ref = IF rq[r].h2c \/ rq[r].dev THEN rq[r].ref ELSE 0]]
    /\ UNCHANGED <<q, quiesced, freeze, armed, tmo>> /\ UNCHANGED ctlVars

\* nvme_qdma_timeout. In LIVE it starts error recovery and rearms the timer;
\* otherwise nvme_qdma_complete_timed_out clears the queue's LIVE bit, stops
\* the hardware queue if the bit was set, and completes the request.
TimeoutLive(r) ==
    /\ rq[r].st = "started" /\ armed /\ tmo = IdleTmo /\ ctrl = "LIVE"
    /\ ctrl' = "RESETTING" /\ pc' = [pc EXCEPT !["err"] = "queued"]
    /\ UNCHANGED ioVars /\ UNCHANGED <<qi, nr, warned, devRef>>

TimeoutBegin(r) ==
    /\ rq[r].st = "started" /\ armed /\ tmo = IdleTmo /\ ctrl # "LIVE"
    /\ tmo' = [req |-> r, stop |-> q[QueueOf[r]].live]
    /\ q' = [q EXCEPT ![QueueOf[r]].live = FALSE]
    /\ UNCHANGED <<rq, quiesced, freeze, armed>> /\ UNCHANGED ctlVars

\* Mutant: the timed-out request is completed without stopping its queue.
TimeoutEndRunning ==
    /\ tmo # IdleTmo
    /\ rq' = [rq EXCEPT ![tmo.req] =
                 IF @.st = "started" THEN [@ EXCEPT !.st = "completing"] ELSE @]
    /\ tmo' = IdleTmo
    /\ UNCHANGED <<q, quiesced, freeze, armed>> /\ UNCHANGED ctlVars

TimeoutEnd ==
    /\ tmo # IdleTmo
    /\ LET Q == IF tmo.stop THEN {QueueOf[tmo.req]} ELSE {} IN
       \E cb \in SUBSET Sending(Q) :
          /\ q' = HwStop(Q, q)
          /\ rq' = [Aborted(Q, rq, cb) EXCEPT ![tmo.req] =
                       IF @.st = "started" THEN [@ EXCEPT !.st = "completing"] ELSE @]
    /\ tmo' = IdleTmo
    /\ UNCHANGED <<quiesced, freeze, armed>> /\ UNCHANGED ctlVars

---------------------------------------------------------------------------
(* Queues.                                                                 *)

\* nvme_qdma_alloc_queue, nvme_qdma_create_queue_ib: both directions are
\* added and started and the response ring is allocated.
AllocQueue(Q, qs) ==
    [i \in Queue |-> IF i \in Q
                     THEN [NoQueue EXCEPT !.alloc = TRUE, !.live = qs[i].live, !.hw = "run"]
                     ELSE qs[i]]

\* nvme_qdma_stop_queue: a queue whose LIVE bit is clear is left alone.
LiveOf(Q, qs) == {i \in Q : qs[i].live}
StopQueue(Q, qs) ==
    HwStop(LiveOf(Q, qs), [i \in Queue |-> IF i \in Q THEN [qs[i] EXCEPT !.live = FALSE] ELSE qs[i]])

\* nvme_qdma_free_queue, nvme_qdma_destroy_queue_ib: an allocated queue is
\* stopped and removed and gives up a reference on the device.
Freeing(Q, qs) == {i \in Q : qs[i].alloc}
FreeQueue(Q, qs) ==
    [i \in Queue |-> IF i \in Freeing(Q, qs) THEN [NoQueue EXCEPT !.live = qs[i].live] ELSE qs[i]]
Put(n) == IF devRef > n THEN devRef - n ELSE 0

Goto(w, s) == [pc EXCEPT ![w] = s]
Step(w, from, to) == pc[w] = from /\ pc' = Goto(w, to)

---------------------------------------------------------------------------
(* Tearing the I/O queues down: nvme_qdma_teardown_io_queues, run by       *)
(* error recovery, reset and delete, and the same steps on the error path  *)
(* of nvme_qdma_configure_io_queues and of nvme_qdma_setup_ctrl.           *)

\* nvmq_start_freeze, nvmq_stop_queues.
TeardownFreeze(w) ==
    /\ Step(w, "freeze", "sync")
    /\ freeze' = freeze + 1 /\ quiesced' = TRUE
    /\ UNCHANGED <<q, rq, armed, tmo, ctrl, qi, nr, warned, devRef>>

\* nvmq_sync_io_queues: the timer is stopped, the timeout handler has returned.
SyncIoQueues(w) ==
    /\ Step(w, "sync", "stop") \/ Step(w, "su_sync", "su_stop")
    /\ tmo = IdleTmo
    /\ armed' = FALSE
    /\ UNCHANGED <<q, rq, quiesced, freeze, tmo, ctrl, qi, nr, warned, devRef>>

\* nvme_qdma_stop_io_queues.
StopIoQueues(w) ==
    /\ Step(w, "stop", "cancel") \/ Step(w, "su_stop", "su_cancel")
    /\ \E cb \in SUBSET Sending(LiveOf(IoQ, q)) : rq' = Aborted(LiveOf(IoQ, q), rq, cb)
    /\ q' = StopQueue(IoQ, q)
    /\ UNCHANGED <<quiesced, freeze, armed, tmo, ctrl, qi, nr, warned, devRef>>

\* Mutant: the requests in flight are not cancelled.
CancelNothing(w) ==
    /\ Step(w, "cancel", "free") \/ Step(w, "su_cancel", "su_free")
    /\ UNCHANGED <<rq, q, quiesced, freeze, armed, tmo, ctrl, qi, nr, warned, devRef>>

\* blk_mq_tagset_busy_iter(nvmq_cancel_request), nvmq_cancel_tagset.
CancelTagset(w) ==
    /\ Step(w, "cancel", "free") \/ Step(w, "su_cancel", "su_free")
    /\ rq' = Cancelled(rq)
    /\ UNCHANGED <<q, quiesced, freeze, armed, tmo, ctrl, qi, nr, warned, devRef>>

\* Once every completion has run: nvme_qdma_destroy_io_queues; delete starts
\* the queues again before it, error recovery after it, reset not at all.
\* Then nvme_qdma_teardown_admin_queue.
TeardownFree(w) ==
    /\ Step(w, "free", IF w = "delete" THEN "gone" ELSE "connecting")
    /\ \A r \in Req : rq[r].st # "completing"
    /\ \E cb \in SUBSET Sending(Freeing(IoQ, q)) : rq' = Aborted(Freeing(IoQ, q), rq, cb)
    /\ q' = FreeQueue(Queue, StopQueue({0}, q))
    /\ devRef' = Put(Cardinality(Freeing(Queue, q)))
    /\ quiesced' = (w = "reset")
    /\ UNCHANGED <<freeze, armed, tmo, ctrl, qi, nr, warned>>

---------------------------------------------------------------------------
(* Setting the controller up: nvme_qdma_setup_ctrl, run by the creating    *)
(* thread, by reconnect and by reset.                                      *)

\* nvme_qdma_configure_admin_queue and the checks after it. When the async
\* event buffer cannot be allocated the queue is freed and 0 returned.
SetupAdmin(w) ==
    /\ \/ /\ Step(w, "su_admin", "su_alloc")
          /\ q' = [AllocQueue({0}, q) EXCEPT ![0].live = TRUE] /\ UNCHANGED devRef
       \/ /\ Step(w, "su_admin", "su_alloc") \/ Step(w, "su_admin", "su_failed")
          /\ q' = [q EXCEPT ![0] = NoQueue] /\ devRef' = Put(1)
    /\ UNCHANGED <<rq, quiesced, freeze, armed, tmo, ctrl, qi, nr, warned>>

\* nvme_qdma_alloc_io_queues: the queue count is negotiated on the admin
\* queue; queue k + 1 fails and those before it are freed; or an H2C data
\* queue k + 1 fails and only the I/O queues up to k are freed.
SetupAllocIo(w) ==
    /\ \/ /\ Step(w, "su_alloc", "su_start") /\ q[0].live
          /\ q' = AllocQueue(IoQ, q) /\ qi' = [qi EXCEPT ![w] = 1]
          /\ UNCHANGED devRef
       \/ /\ Step(w, "su_alloc", "su_admin_down")
          /\ UNCHANGED qi
          /\ \E k \in 0..NQ, A \in {{}, IoQ} \cup {1..n : n \in 0..(NQ - 1)} :
                /\ A # IoQ => k = Cardinality(A)
                /\ A # {} => q[0].live
                /\ q' = FreeQueue(1..k, AllocQueue(A, q))
                /\ devRef' = Put(k + (IF A = IoQ THEN 0 ELSE 1))
    /\ UNCHANGED <<rq, quiesced, freeze, armed, tmo, ctrl, nr, warned>>

\* nvme_qdma_start_io_queues: the next queue connects and becomes LIVE, or
\* fails: it is stopped, and so are the LIVE ones before it.
SetupStartQueue(w) ==
    /\ \/ /\ pc[w] = "su_start" /\ qi[w] \in IoQ
          /\ q' = [q EXCEPT ![qi[w]].live = TRUE] /\ qi' = [qi EXCEPT ![w] = @ + 1]
          /\ UNCHANGED <<pc, rq>>
       \/ LET i == qi[w]
              Q == {i} \cup LiveOf(1..(i - 1), q) IN
          /\ Step(w, "su_start", "su_cancel") /\ i \in IoQ
          /\ q' = HwStop({i}, StopQueue(1..(i - 1), q))
          /\ \E cb \in SUBSET Sending(Q) : rq' = Aborted(Q, rq, cb)
          /\ qi' = [qi EXCEPT ![w] = 0]
    /\ UNCHANGED <<quiesced, freeze, armed, tmo, ctrl, nr, warned, devRef>>

\* All queues are LIVE: the creating thread is done with them, the others
\* start the queues (nvmq_start_queues) and wait for the freeze to drain.
SetupStarted(w) ==
    /\ Step(w, "su_start", IF w = "create" THEN "su_live" ELSE "su_wait") /\ qi[w] = NQ + 1
    /\ qi' = [qi EXCEPT ![w] = 0]
    /\ quiesced' = IF w = "create" THEN quiesced ELSE FALSE
    /\ UNCHANGED <<q, rq, freeze, armed, tmo, ctrl, nr, warned, devRef>>

\* Mutant: the queues are not unfrozen.
SetupStaysFrozen(w) ==
    /\ \/ Step(w, "su_wait", "su_live") /\ UNCHANGED quiesced
       \/ Step(w, "su_wait", "su_sync") /\ quiesced' = TRUE
    /\ UNCHANGED <<freeze, q, rq, armed, tmo, ctrl, qi, nr, warned, devRef>>

\* nvmq_wait_freeze_timeout: every request that had entered is done and the
\* queues are unfrozen, or the wait times out and they are stopped again.
SetupWaitFreeze(w) ==
    /\ \/ /\ Step(w, "su_wait", "su_live") /\ \A r \in Req : rq[r].st = "free"
          /\ freeze' = freeze - 1 /\ UNCHANGED quiesced
       \/ /\ Step(w, "su_wait", "su_sync")
          /\ quiesced' = TRUE /\ UNCHANGED freeze
    /\ UNCHANGED <<q, rq, armed, tmo, ctrl, qi, nr, warned, devRef>>

\* nvme_qdma_free_io_queues at the end of the error path.
SetupFreeIo(w) ==
    /\ Step(w, "su_free", "su_admin_down") /\ \A r \in Req : rq[r].st # "completing"
    /\ \E cb \in SUBSET Sending(Freeing(IoQ, q)) : rq' = Aborted(Freeing(IoQ, q), rq, cb)
    /\ q' = FreeQueue(IoQ, q)
    /\ devRef' = Put(Cardinality(Freeing(IoQ, q)))
    /\ UNCHANGED <<quiesced, freeze, armed, tmo, ctrl, qi, nr, warned>>

\* destroy_admin: the admin queue is stopped, its requests cancelled, freed.
SetupAdminDown(w) ==
    /\ Step(w, "su_admin_down", "su_failed")
    /\ q' = FreeQueue({0}, StopQueue({0}, q))
    /\ devRef' = Put(Cardinality(Freeing({0}, q)))
    /\ UNCHANGED <<rq, quiesced, freeze, armed, tmo, ctrl, qi, nr, warned>>

\* The change to LIVE: the controller is being deleted and the queues are
\* destroyed again, or setup has succeeded.
SetupLive(w) ==
    /\ IF MayChange(ctrl, "LIVE")
       THEN /\ Step(w, "su_live", "su_done")
            /\ ctrl' = "LIVE" /\ UNCHANGED <<quiesced, warned>>
       ELSE /\ Step(w, "su_live", "su_sync")
            /\ quiesced' = TRUE /\ warned' = (warned \/ ctrl # "DELETING") /\ UNCHANGED ctrl
    /\ UNCHANGED <<q, rq, freeze, armed, tmo, qi, nr, devRef>>

---------------------------------------------------------------------------
(* The work items.                                                         *)

\* nvme_qdma_reconnect_or_remove, the end of work item w: schedule another
\* attempt, delete the controller, or leave it to whoever changed its state. A
\* reconnect_work that is still on its way out runs again after it.
ShouldReconnect(n) == n < MaxReconnects
Again == IF pc["reconnect"] = "su_done" THEN "su_again" ELSE "queued"
\* Mutant: a controller out of attempts is not removed.
ReconnectOrStay(w, c, n) ==
    IF c # "CONNECTING"
    THEN /\ pc' = Goto(w, "idle") /\ ctrl' = c
         /\ warned' = (warned \/ c \in {"NEW", "LIVE"})
    ELSE /\ UNCHANGED warned /\ ctrl' = c
         /\ pc' = IF ShouldReconnect(n)
                  THEN [pc EXCEPT ![w] = "idle", !["reconnect"] = Again] ELSE Goto(w, "idle")
ReconnectOrRemove(w, c, n) ==
    IF c # "CONNECTING"
    THEN /\ pc' = Goto(w, "idle") /\ ctrl' = c
         /\ warned' = (warned \/ c \in {"NEW", "LIVE"})
    ELSE /\ UNCHANGED warned
         /\ IF ShouldReconnect(n)
            THEN pc' = [pc EXCEPT ![w] = "idle", !["reconnect"] = Again] /\ ctrl' = c
            ELSE pc' = [pc EXCEPT ![w] = "idle", !["delete"] = "queued"] /\ ctrl' = "DELETING"

\* nvme_qdma_create_ctrl: the controller goes to CONNECTING and is set up;
\* a controller that cannot be set up is given up.
CreateCtrl ==
    /\ Step("create", "queued", "su_admin") /\ ctrl' = "CONNECTING" /\ devRef' = 1
    /\ UNCHANGED ioVars /\ UNCHANGED <<qi, nr, warned>>
CreateDone ==
    /\ \/ Step("create", "su_done", "idle") /\ UNCHANGED ctrl
       \/ Step("create", "su_failed", "idle") /\ ctrl' = "GONE"
    /\ UNCHANGED ioVars /\ UNCHANGED <<qi, nr, warned, devRef>>

\* nvme_qdma_error_recovery_work.
ErrorRecoveryWork ==
    /\ Step("err", "queued", "freeze")
    /\ UNCHANGED ioVars /\ UNCHANGED <<ctrl, qi, nr, warned, devRef>>
ErrorRecoveryConnect ==
    /\ pc["err"] = "connecting"
    /\ IF MayChange(ctrl, "CONNECTING")
       THEN ReconnectOrRemove("err", "CONNECTING", nr)
       ELSE /\ pc' = Goto("err", "idle") /\ warned' = (warned \/ ctrl # "DELETING")
            /\ UNCHANGED ctrl
    /\ UNCHANGED ioVars /\ UNCHANGED <<qi, nr, devRef>>

\* nvme_qdma_reconnect_ctrl_work. It was queued reconnect_delay seconds ago, so a
\* timeout handler that had begun before has returned.
ReconnectCtrlWork ==
    /\ Step("reconnect", "queued", "su_admin") /\ tmo = IdleTmo /\ nr' = nr + 1
    /\ UNCHANGED ioVars /\ UNCHANGED <<ctrl, qi, warned, devRef>>
\* Mutant: a successful attempt falls through to requeue.
ReconnectFallsThrough ==
    /\ pc["reconnect"] = "su_done" /\ ReconnectOrRemove("reconnect", ctrl, nr)
    /\ UNCHANGED ioVars /\ UNCHANGED <<qi, nr, devRef>>
ReconnectDone ==
    /\ Step("reconnect", "su_done", "idle") \/ Step("reconnect", "su_again", "queued")
    /\ nr' = 0
    /\ UNCHANGED ioVars /\ UNCHANGED <<ctrl, qi, warned, devRef>>
ReconnectFailed ==
    /\ pc["reconnect"] = "su_failed" /\ ReconnectOrRemove("reconnect", ctrl, nr)
    /\ UNCHANGED ioVars /\ UNCHANGED <<qi, nr, devRef>>

\* External: nvmq_reset_ctrl and nvmq_delete_ctrl change the state and queue
\* the work.
ResetCtrl ==
    /\ MayChange(ctrl, "RESETTING") /\ pc["create"] = "idle" /\ pc["reset"] \in {"idle", "su_done"}
    /\ ctrl' = "RESETTING" /\ pc' = Goto("reset", "queued")
    /\ UNCHANGED ioVars /\ UNCHANGED <<qi, nr, warned, devRef>>
DeleteCtrl ==
    /\ MayChange(ctrl, "DELETING") /\ pc["create"] = "idle"
    /\ ctrl' = "DELETING" /\ pc' = Goto("delete", "queued")
    /\ UNCHANGED ioVars /\ UNCHANGED <<qi, nr, warned, devRef>>

\* nvme_qdma_stop_ctrl: cancel_work_sync of error recovery and reconnect. A
\* queued item is dropped, a running one is waited for.
Cancellable(v) == pc[v] \in {"idle", "queued"}
\* Mutant: reconnect_work is not cancelled.
StopCtrlErrOnly(w, to) ==
    Cancellable("err") /\ pc' = [pc EXCEPT !["err"] = "idle", ![w] = to]
StopCtrl(w, to) ==
    /\ Cancellable("err") /\ Cancellable("reconnect")
    /\ pc' = [pc EXCEPT !["err"] = "idle", !["reconnect"] = "idle", ![w] = to]

\* nvme_qdma_reset_ctrl_work.
ResetCtrlWork ==
    /\ pc["reset"] = "queued" /\ StopCtrl("reset", "freeze")
    /\ UNCHANGED ioVars /\ UNCHANGED <<ctrl, qi, nr, warned, devRef>>
ResetConnect ==
    /\ IF MayChange(ctrl, "CONNECTING")
       THEN Step("reset", "connecting", "su_admin") /\ ctrl' = "CONNECTING"
       ELSE Step("reset", "connecting", "idle") /\ UNCHANGED ctrl
    /\ UNCHANGED ioVars /\ UNCHANGED <<qi, nr, warned, devRef>>
ResetDone ==
    /\ Step("reset", "su_done", "idle")
    /\ UNCHANGED ioVars /\ UNCHANGED <<ctrl, qi, nr, warned, devRef>>
ResetFailed ==
    /\ pc["reset"] = "su_failed" /\ ReconnectOrRemove("reset", ctrl, nr + 1)
    /\ nr' = nr + 1
    /\ UNCHANGED ioVars /\ UNCHANGED <<qi, devRef>>

\* nvmq_do_delete_ctrl (external) around nvme_qdma_delete_ctrl: flush the
\* reset, stop the other work, remove the namespaces once their requests
\* have drained, and shut the controller down.
DeleteCtrlWork ==
    /\ pc["delete"] = "queued" /\ pc["reset"] = "idle" /\ StopCtrl("delete", "drain")
    /\ UNCHANGED ioVars /\ UNCHANGED <<ctrl, qi, nr, warned, devRef>>
DeleteDrained ==
    /\ Step("delete", "drain", "freeze") /\ \A r \in Req : rq[r].st = "free"
    /\ UNCHANGED ioVars /\ UNCHANGED <<ctrl, qi, nr, warned, devRef>>
DeleteGone ==
    /\ Step("delete", "gone", "idle") /\ ctrl' = "GONE"
    /\ UNCHANGED ioVars /\ UNCHANGED <<qi, nr, warned, devRef>>

---------------------------------------------------------------------------
Init ==
    /\ ctrl = "NEW" /\ q = [i \in Queue |-> NoQueue] /\ rq = [r \in Req |-> NoRequest]
    /\ quiesced = FALSE /\ freeze = 0 /\ armed = FALSE /\ tmo = IdleTmo
    /\ pc = [w \in Worker |-> IF w = "create" THEN "queued" ELSE "idle"]
    /\ qi = [w \in Worker |-> 0] /\ nr = 0 /\ warned = FALSE /\ devRef = 0

RequestStep ==
    \E r \in Req : \/ Enter(r) \/ QueueRqNotReady(r) \/ QueueRqFailed(r) \/ QueueRqRetry(r)
                   \/ QueueRqSent(r) \/ QeSendDone(r) \/ QeRecvDone(r) \/ CompleteRq(r)
                   \/ TimeoutLive(r) \/ TimeoutBegin(r)
Tearing == {"err", "reset", "delete"}
Setting == {"create", "reconnect", "reset"}
TeardownStep(w) ==
    TeardownFreeze(w) \/ SyncIoQueues(w) \/ StopIoQueues(w) \/ CancelTagset(w) \/ TeardownFree(w)
SetupStep(w) ==
    \/ SetupAdmin(w) \/ SetupAllocIo(w) \/ SetupStartQueue(w) \/ SetupStarted(w)
    \/ SetupWaitFreeze(w) \/ SyncIoQueues(w) \/ StopIoQueues(w) \/ CancelTagset(w)
    \/ SetupFreeIo(w) \/ SetupAdminDown(w) \/ SetupLive(w)
Scheduled ==
    \/ CreateCtrl \/ CreateDone \/ ErrorRecoveryWork \/ ErrorRecoveryConnect
    \/ ReconnectCtrlWork \/ ReconnectDone \/ ReconnectFailed
    \/ ResetCtrlWork \/ ResetConnect \/ ResetDone \/ ResetFailed
    \/ DeleteCtrlWork \/ DeleteDrained \/ DeleteGone
WorkStep ==
    Scheduled \/ (\E w \in Tearing : TeardownStep(w)) \/ (\E w \in Setting : SetupStep(w))
UserStep == ResetCtrl \/ DeleteCtrl
Next == RequestStep \/ TimeoutEnd \/ WorkStep \/ UserStep
Spec == Init /\ [][Next]_vars

\* Work items run once queued, blk-mq dispatches what a started queue holds,
\* completions are delivered and timers expire; nothing is assumed of the
\* device (QeRecvDone), of new I/O (Enter) or of the user.
Dispatch(r) == QueueRqNotReady(r) \/ QueueRqFailed(r) \/ QueueRqRetry(r) \/ QueueRqSent(r)
FairSpec ==
    /\ Spec /\ WF_vars(TimeoutEnd) /\ WF_vars(Scheduled)
    /\ \A w \in Tearing : WF_vars(TeardownStep(w))
    /\ \A w \in Setting : WF_vars(SetupStep(w))
    /\ \A r \in Req : /\ WF_vars(QeSendDone(r)) /\ WF_vars(CompleteRq(r)) /\ WF_vars(Dispatch(r))
                      /\ WF_vars(TimeoutLive(r) \/ TimeoutBegin(r))

---------------------------------------------------------------------------
(* Properties.                                                             *)

\* Nothing of a request is outstanding once the block layer has it back: no
\* send whose buffers complete_rq has freed, no completion entry that would
\* end it a second time. The one exception is a queue the timeout handler
\* has marked not LIVE and not yet stopped.
NothingOutstandingAfterEnd ==
    \A r \in Req :
        (rq[r].h2c \/ rq[r].dev) =>
            \/ rq[r].st = "started" /\ q[QueueOf[r]].hw = "run"
            \/ tmo.stop /\ QueueOf[tmo.req] = QueueOf[r]

\* Every completion entry the device owes on a running queue finds a posted
\* response buffer: queue_rq posts the response before it sends.
CqeHasBuffer ==
    \A i \in IoQ : q[i].hw = "run" =>
        Cardinality({r \in Req : QueueOf[r] = i /\ rq[r].dev}) <= q[i].posted

\* A LIVE controller accepts and dispatches I/O: every freeze and every
\* quiesce of a teardown or of a failed setup has been undone.
LiveIsThawed == ctrl = "LIVE" => freeze = 0 /\ ~quiesced

\* At most one work item is taking the queues down or setting them up.
Working(w) == pc[w] \notin {"idle", "queued", "drain", "gone", "su_done", "su_again"}
OneReconfiguration == \A v, w \in Worker : Working(v) /\ Working(w) => v = w

\* The WARN_ON_ONCEs of reconnect_or_remove, setup_ctrl and
\* error_recovery_work never fire.
NoStateWarning == ~warned

\* A request that was sent is ended, whatever the device does.
StartedEnds == \A r \in Req : rq[r].st = "started" ~> rq[r].st # "started"

\* A reset or an error recovery ends with the controller LIVE again or
\* deleted: it never stays in RESETTING or CONNECTING.
RecoveryResolves == ctrl \in {"RESETTING", "CONNECTING"} ~> ctrl \in {"LIVE", "DELETING", "GONE"}
=============================================================================
