--------------------------- MODULE NvmqDriverProofs ---------------------------
(****************************************************************************)
(* Proofs about NvmqDriver: its control, then the requests and the queues.  *)
(****************************************************************************)
EXTENDS NvmqDriver, TLAPS

\* Most leaves are first-order reasoning over sets and functions, which Zenon finds at
\* once; the leaves with arithmetic, records or sequences name SMT.
USE Zenon

-----------------------------------------------------------------------------
(* Types: the queues and the requests keep their shape, and the reference   *)
(* count of a request covers the completions still to come.                 *)
QType == [alloc : BOOLEAN, live : BOOLEAN, hw : {"none", "run", "stopped"}, posted : 0..RingSize]
RqType == [st : {"free", "queued", "started", "completing"}, ref : 0..2,
           h2c : BOOLEAN, dev : BOOLEAN]
RefOK(x) == /\ x \in RqType
            /\ x.h2c \/ x.dev => x.ref >= 1
            /\ x.h2c /\ x.dev => x.ref = 2
QueuesOK(qs) == qs \in [Queue -> QType]
RequestsOK(rs) == rs \in [Req -> RqType] /\ \A r \in Req : RefOK(rs[r])
TypeInv ==
    /\ QueuesOK(q) /\ RequestsOK(rq)
    /\ armed \in BOOLEAN /\ tmo \in [req : Req \cup {NoReq}, stop : BOOLEAN]
    /\ qi \in [Worker -> 0..(NQ + 1)]

\* Dropping one of the references of a request, with the completion of the last.
LEMMA DropRefIs ==
    ASSUME NEW x \in RqType, x.ref >= 1
    PROVE  DropRef(x) = [st |-> IF x.ref = 1 THEN "completing" ELSE x.st, ref |-> x.ref - 1,
                         h2c |-> x.h2c, dev |-> x.dev]
<1>1. CASE x.ref = 1
  <2>1. DropRef(x) = [x EXCEPT !.ref = 0, !.st = "completing"]
    BY <1>1 DEF DropRef
  <2>2. [x EXCEPT !.ref = 0] = [st |-> x.st, ref |-> 0, h2c |-> x.h2c, dev |-> x.dev]
    BY SMT DEF RqType
  <2>3. DropRef(x) = [[st |-> x.st, ref |-> 0, h2c |-> x.h2c, dev |-> x.dev]
                          EXCEPT !.st = "completing"]
    BY <2>1, <2>2
  <2>4. DropRef(x) = [st |-> "completing", ref |-> 0, h2c |-> x.h2c, dev |-> x.dev]
    BY <2>3
  <2>. QED BY <1>1, <2>4, SMT
<1>2. CASE x.ref # 1
  BY <1>2 DEF DropRef, RqType
<1>. QED BY <1>1, <1>2

\* The reference count still covers the outstanding completions after a send completion, a
\* completion entry, or the abort of both by a queue that is stopped.
LEMMA DropOne ==
    ASSUME NEW x, RefOK(x)
    PROVE  /\ x.h2c => RefOK(DropRef([x EXCEPT !.h2c = FALSE]))
           /\ x.dev => RefOK(DropRef([x EXCEPT !.dev = FALSE]))
           /\ x.h2c => RefOK([DropRef(x) EXCEPT !.h2c = FALSE, !.dev = FALSE])
           /\ RefOK([x EXCEPT !.h2c = FALSE, !.dev = FALSE])
<1>1. ASSUME x.h2c PROVE RefOK(DropRef([x EXCEPT !.h2c = FALSE]))
  <2>. DEFINE y == [x EXCEPT !.h2c = FALSE]
  <2>1. y \in RqType /\ y.ref >= 1 /\ ~y.h2c /\ (y.dev => y.ref = 2)
    BY <1>1 DEF RefOK, RqType
  <2>. HIDE DEF y
  <2>2. RefOK(DropRef(y))
    BY <2>1, DropRefIs, SMT DEF RefOK, RqType
  <2>. QED BY <2>2 DEF y
<1>2. ASSUME x.dev PROVE RefOK(DropRef([x EXCEPT !.dev = FALSE]))
  <2>. DEFINE y == [x EXCEPT !.dev = FALSE]
  <2>1. y \in RqType /\ y.ref >= 1 /\ ~y.dev /\ (y.h2c => y.ref = 2)
    BY <1>2 DEF RefOK, RqType
  <2>. HIDE DEF y
  <2>2. RefOK(DropRef(y))
    BY <2>1, DropRefIs, SMT DEF RefOK, RqType
  <2>. QED BY <2>2 DEF y
<1>3. ASSUME x.h2c PROVE RefOK([DropRef(x) EXCEPT !.h2c = FALSE, !.dev = FALSE])
  <2>1. DropRef(x) \in RqType
    BY <1>3, DropRefIs, SMT DEF RefOK, RqType
  <2>. QED BY <2>1 DEF RefOK, RqType
<1>4. RefOK([x EXCEPT !.h2c = FALSE, !.dev = FALSE])
  BY DEF RefOK, RqType
<1>. QED BY <1>1, <1>2, <1>3, <1>4

\* Stopping queues leaves well-formed requests.
LEMMA AbortedOK ==
    ASSUME RequestsOK(rq), NEW Q, NEW cb \in SUBSET Sending(Q)
    PROVE  RequestsOK(Aborted(Q, rq, cb))
<1>1. ASSUME NEW r \in Req PROVE RefOK(Aborted(Q, rq, cb)[r])
  <2>1. RefOK(rq[r])
    BY DEF RequestsOK
  <2>2. r \in cb => rq[r].h2c
    BY DEF Sending
  <2>3. Aborted(Q, rq, cb)[r] \in
           {rq[r], [rq[r] EXCEPT !.h2c = FALSE, !.dev = FALSE],
            [(IF r \in cb THEN DropRef(rq[r]) ELSE rq[r]) EXCEPT !.h2c = FALSE, !.dev = FALSE]}
    BY DEF Aborted
  <2>. QED BY <2>1, <2>2, <2>3, DropOne
<1>. QED BY <1>1 DEF RequestsOK, RefOK, Aborted

\* So does cancelling them.
LEMMA CancelledOK == ASSUME RequestsOK(rq) PROVE RequestsOK(Cancelled(rq))
BY DEF RequestsOK, RefOK, RqType, Cancelled

\* Stopping, allocating and freeing queues leaves well-formed queues.
LEMMA QueueOpsOK ==
    ASSUME NEW Q, NEW qs, QueuesOK(qs)
    PROVE  /\ QueuesOK(HwStop(Q, qs)) /\ QueuesOK(StopQueue(Q, qs))
           /\ QueuesOK(FreeQueue(Q, qs)) /\ QueuesOK(AllocQueue(Q, qs))
<1>0. 0 \in 0..RingSize
  BY NvmqConstants, SMT
<1>1. ASSUME NEW R, NEW ps, QueuesOK(ps) PROVE QueuesOK(HwStop(R, ps))
  <2>1. ASSUME NEW i \in Queue PROVE [ps[i] EXCEPT !.hw = "stopped", !.posted = 0] \in QType
    BY <1>0, <1>1 DEF QueuesOK, QType
  <2>. QED BY <1>1, <2>1 DEF QueuesOK, HwStop
<1>2. QueuesOK([i \in Queue |-> IF i \in Q THEN [qs[i] EXCEPT !.live = FALSE] ELSE qs[i]])
  BY DEF QueuesOK, QType
<1>3. ASSUME NEW i \in Queue
      PROVE  /\ [NoQueue EXCEPT !.live = qs[i].live] \in QType
             /\ [NoQueue EXCEPT !.alloc = TRUE, !.live = qs[i].live, !.hw = "run"] \in QType
  <2>1. NoQueue \in QType
    BY <1>0 DEF NoQueue, QType
  <2>2. qs[i].live \in BOOLEAN
    BY DEF QueuesOK, QType
  <2>. QED BY <2>1, <2>2 DEF QType
<1>4. QueuesOK(FreeQueue(Q, qs))
  BY <1>3 DEF QueuesOK, FreeQueue
<1>5. QueuesOK(AllocQueue(Q, qs))
  BY <1>3 DEF QueuesOK, AllocQueue
<1>. QED BY <1>1, <1>2, <1>4, <1>5 DEF StopQueue

\* The request path keeps the types: queue_rq never posts beyond the ring, a completion never
\* takes a reference that is not there.
LEMMA TypesRequest ==
    ASSUME TypeInv, NEW r \in Req,
           \/ Enter(r) \/ QueueRqNotReady(r) \/ QueueRqFailed(r) \/ QueueRqRetry(r)
           \/ QueueRqSent(r) \/ QeSendDone(r) \/ QeRecvDone(r) \/ CompleteRq(r)
           \/ TimeoutLive(r) \/ TimeoutBegin(r)
    PROVE  TypeInv'
<1>. USE DEF ctlVars, ioVars
<1>1. RefOK(rq[r]) /\ rq \in [Req -> RqType] /\ QueueOf[r] \in Queue /\ q[QueueOf[r]] \in QType
  BY NvmqConstants, SMT DEF TypeInv, RequestsOK, QueuesOK, Queue
<1>2. ASSUME NEW x, RefOK(x) PROVE RequestsOK([rq EXCEPT ![r] = x])
  BY <1>2 DEF TypeInv, RequestsOK, RefOK
<1>3. ASSUME NEW n \in 0..RingSize PROVE QueuesOK([q EXCEPT ![QueueOf[r]].posted = n])
  BY <1>1 DEF TypeInv, QueuesOK, QType
<1>4. CanPost(QueueOf[r]) => q[QueueOf[r]].posted + 1 \in 0..RingSize
  BY <1>1, NvmqConstants, SMT DEF CanPost, QType
<1>5. RefOK(NoRequest)
  BY SMT DEF RefOK, RqType, NoRequest
<1>6. CASE Enter(r)
  <2>1. RefOK([rq[r] EXCEPT !.st = "queued"])
    BY <1>1 DEF RefOK, RqType
  <2>. QED BY <1>2, <1>6, <2>1 DEF Enter, TypeInv
<1>7. CASE QueueRqNotReady(r)
  BY <1>2, <1>5, <1>7 DEF QueueRqNotReady, TypeInv
<1>8. CASE QueueRqFailed(r) \/ QueueRqRetry(r)
  <2>1. QueuesOK(q')
    BY <1>1, <1>3, <1>4, <1>8 DEF QueueRqFailed, QueueRqRetry, QType, TypeInv
  <2>2. RequestsOK(rq')
    BY <1>2, <1>5, <1>8, SMT DEF QueueRqFailed, QueueRqRetry, TypeInv
  <2>. QED BY <1>8, <2>1, <2>2 DEF QueueRqFailed, QueueRqRetry, TypeInv
<1>9. CASE QueueRqSent(r)
  <2>1. RefOK([st |-> "started", ref |-> 2, h2c |-> TRUE, dev |-> TRUE])
    BY SMT DEF RefOK, RqType
  <2>. QED BY <1>2, <1>3, <1>4, <1>9, <2>1 DEF QueueRqSent, TypeInv
<1>10. CASE QeSendDone(r)
  BY <1>1, <1>2, <1>10, DropOne DEF QeSendDone, TypeInv
<1>11. CASE QeRecvDone(r)
  <2>1. q[QueueOf[r]].posted - 1 \in 0..RingSize
    BY <1>1, <1>11, NvmqConstants, SMT DEF QeRecvDone, QType
  <2>. QED BY <1>1, <1>2, <1>3, <1>11, <2>1, DropOne DEF QeRecvDone, TypeInv
<1>12. CASE CompleteRq(r)
  <2>. DEFINE n == IF rq[r].h2c \/ rq[r].dev THEN rq[r].ref ELSE 0
  <2>1. ASSUME NEW s \in {"free", "queued"}
        PROVE  RefOK([rq[r] EXCEPT !.st = s, !.ref = n])
    <3>1. n \in 0..2 /\ (rq[r].h2c \/ rq[r].dev => n = rq[r].ref)
      BY <1>1, SMT DEF RefOK, RqType
    <3>. HIDE DEF n
    <3>. QED BY <1>1, <3>1 DEF RefOK, RqType
  <2>2. PICK s \in {"free", "queued"} :
           rq' = [rq EXCEPT ![r] = [rq[r] EXCEPT !.st = s, !.ref = n]]
    BY <1>1, <1>12 DEF CompleteRq
  <2>3. RequestsOK(rq')
    BY <1>2, <2>1, <2>2
  <2>. QED BY <1>12, <2>3 DEF CompleteRq, TypeInv
<1>13. CASE TimeoutLive(r)
  BY <1>13 DEF TimeoutLive, TypeInv
<1>14. CASE TimeoutBegin(r)
  <2>1. QueuesOK([q EXCEPT ![QueueOf[r]].live = FALSE])
    BY <1>1 DEF TypeInv, QueuesOK, QType
  <2>2. [req |-> r, stop |-> q[QueueOf[r]].live] \in [req : Req \cup {NoReq}, stop : BOOLEAN]
    BY <1>1 DEF QType
  <2>. QED BY <1>14, <2>1, <2>2 DEF TimeoutBegin, TypeInv
<1>. QED BY <1>6, <1>7, <1>8, <1>9, <1>10, <1>11, <1>12, <1>13, <1>14

\* So does the end of the timeout handler.
LEMMA TypesTimeout == ASSUME TypeInv, TimeoutEnd PROVE TypeInv'
<1>. DEFINE Q == IF tmo.stop THEN {QueueOf[tmo.req]} ELSE {}
<1>1. PICK cb \in SUBSET Sending(Q) :
         /\ q' = HwStop(Q, q)
         /\ rq' = [Aborted(Q, rq, cb) EXCEPT ![tmo.req] =
                       IF @.st = "started" THEN [@ EXCEPT !.st = "completing"] ELSE @]
  BY DEF TimeoutEnd
<1>. HIDE DEF Q
<1>2. RequestsOK(Aborted(Q, rq, cb))
  BY AbortedOK DEF TypeInv
<1>3. RequestsOK(rq')
  <2>. DEFINE ab == Aborted(Q, rq, cb)
  <2>1. RequestsOK(ab)
    BY <1>2
  <2>2. rq' = [ab EXCEPT ![tmo.req] =
                 IF ab[tmo.req].st = "started" THEN [ab[tmo.req] EXCEPT !.st = "completing"]
                 ELSE ab[tmo.req]]
    BY <1>1
  <2>. HIDE DEF ab
  <2>3. ASSUME NEW r \in Req PROVE RefOK(rq'[r])
    <3>1. RefOK(ab[r]) /\ RefOK([ab[r] EXCEPT !.st = "completing"])
      BY <2>1 DEF RequestsOK, RefOK, RqType
    <3>. QED BY <2>1, <2>2, <3>1 DEF RequestsOK
  <2>4. rq' \in [Req -> RqType]
    <3>1. \A r \in Req : rq'[r] \in RqType
      BY <2>3 DEF RefOK
    <3>. QED BY <2>1, <2>2, <3>1 DEF RequestsOK
  <2>. QED BY <2>3, <2>4 DEF RequestsOK
<1>4. QueuesOK(q')
  BY <1>1, QueueOpsOK DEF TypeInv
<1>5. tmo' = IdleTmo /\ armed' = armed /\ qi' = qi
  BY DEF TimeoutEnd, ctlVars
<1>. QED BY <1>3, <1>4, <1>5 DEF TypeInv, IdleTmo

\* So does every step of a teardown or a setup.
LEMMA TypesWork ==
    ASSUME TypeInv, NEW w \in Worker, TeardownStep(w) \/ SetupStep(w)
    PROVE  TypeInv'
<1>1. RequestsOK(rq')
  <2>1. \/ rq' = rq \/ rq' = Cancelled(rq)
        \/ \E Q : \E cb \in SUBSET Sending(Q) : rq' = Aborted(Q, rq, cb)
    BY DEF TeardownStep, SetupStep, TeardownFreeze, SyncIoQueues, StopIoQueues, CancelTagset,
           TeardownFree, SetupAdmin, SetupAllocIo, SetupStartQueue, SetupStarted, SetupWaitFreeze,
           SetupFreeIo, SetupAdminDown, SetupLive
  <2>. QED BY <2>1, AbortedOK, CancelledOK DEF TypeInv
<1>2. QueuesOK(q')
  <2>1. CASE TeardownFreeze(w) \/ SyncIoQueues(w) \/ CancelTagset(w) \/ SetupStarted(w)
             \/ SetupWaitFreeze(w) \/ SetupLive(w)
    BY <2>1 DEF TeardownFreeze, SyncIoQueues, CancelTagset, SetupStarted, SetupWaitFreeze,
                SetupLive, TypeInv
  <2>2. CASE StopIoQueues(w) \/ TeardownFree(w) \/ SetupFreeIo(w) \/ SetupAdminDown(w)
    BY <2>2, QueueOpsOK, SMT DEF StopIoQueues, TeardownFree, SetupFreeIo, SetupAdminDown, TypeInv
  <2>3. CASE SetupAdmin(w)
    <3>1. QueuesOK([AllocQueue({0}, q) EXCEPT ![0].live = TRUE])
      <4>1. QueuesOK(AllocQueue({0}, q))
        BY QueueOpsOK DEF TypeInv
      <4>. QED BY <4>1 DEF QueuesOK, QType
    <3>2. QueuesOK([q EXCEPT ![0] = NoQueue])
      <4>1. NoQueue \in QType
        BY NvmqConstants, SMT DEF QType, NoQueue
      <4>. QED BY <4>1 DEF TypeInv, QueuesOK
    <3>. QED BY <2>3, <3>1, <3>2 DEF SetupAdmin
  <2>4. CASE SetupAllocIo(w)
    <3>1. (\E A : q' = AllocQueue(A, q)) \/ (\E A, F : q' = FreeQueue(F, AllocQueue(A, q)))
      BY <2>4 DEF SetupAllocIo
    <3>. QED BY <3>1, QueueOpsOK DEF TypeInv
  <2>5. CASE SetupStartQueue(w)
    <3>1. CASE q' = [q EXCEPT ![qi[w]].live = TRUE]
      BY <3>1, ZenonT(30) DEF TypeInv, QueuesOK, QType
    <3>2. CASE \E A, B : q' = HwStop(A, StopQueue(B, q))
      BY <3>2, QueueOpsOK DEF TypeInv
    <3>. QED BY <2>5, <3>1, <3>2 DEF SetupStartQueue
  <2>. QED BY <2>1, <2>2, <2>3, <2>4, <2>5 DEF TeardownStep, SetupStep
<1>3. armed' \in BOOLEAN /\ tmo' = tmo
  BY DEF TypeInv, TeardownStep, SetupStep, TeardownFreeze, SyncIoQueues, StopIoQueues, CancelTagset,
         TeardownFree, SetupAdmin, SetupAllocIo, SetupStartQueue, SetupStarted, SetupWaitFreeze,
         SetupFreeIo, SetupAdminDown, SetupLive
<1>4. qi' \in [Worker -> 0..(NQ + 1)]
  <2>1. CASE SetupAllocIo(w)
    BY <2>1, NvmqConstants, SMT DEF SetupAllocIo, TypeInv
  <2>2. CASE SetupStartQueue(w)
    <3>1. qi[w] \in IoQ => qi[w] + 1 \in 0..(NQ + 1)
      BY NvmqConstants, SMT DEF IoQ
    <3>. QED BY <2>2, <3>1, NvmqConstants, SMT DEF SetupStartQueue, TypeInv
  <2>3. CASE SetupStarted(w)
    BY <2>3, NvmqConstants, SMT DEF SetupStarted, TypeInv
  <2>4. CASE ~(SetupAllocIo(w) \/ SetupStartQueue(w) \/ SetupStarted(w))
    BY <2>4 DEF TypeInv, TeardownStep, SetupStep, TeardownFreeze, SyncIoQueues, StopIoQueues,
                CancelTagset, TeardownFree, SetupAdmin, SetupWaitFreeze, SetupFreeIo,
                SetupAdminDown, SetupLive
  <2>. QED BY <2>1, <2>2, <2>3, <2>4
<1>. QED BY <1>1, <1>2, <1>3, <1>4 DEF TypeInv

\* The types are inductive.
LEMMA TypesInductive == ASSUME TypeInv, [Next]_vars PROVE TypeInv'
<1>1. CASE UNCHANGED vars
  BY <1>1 DEF vars, TypeInv
<1>2. CASE Scheduled \/ UserStep
  BY <1>2 DEF Scheduled, UserStep, CreateCtrl, CreateDone, ErrorRecoveryWork, ErrorRecoveryConnect,
              ReconnectCtrlWork, ReconnectDone, ReconnectFailed, ResetCtrlWork, ResetConnect,
                     ResetDone,
              ResetFailed, DeleteCtrlWork, DeleteDrained, DeleteGone, ResetCtrl, DeleteCtrl, ioVars,
              TypeInv
<1>3. CASE RequestStep
  BY <1>3, TypesRequest DEF RequestStep
<1>4. CASE TimeoutEnd
  BY <1>4, TypesTimeout
<1>5. CASE \E w \in Worker : TeardownStep(w) \/ SetupStep(w)
  BY <1>5, TypesWork
<1>. QED BY <1>1, <1>2, <1>3, <1>4, <1>5 DEF Next, WorkStep, Tearing, Setting, Worker

-----------------------------------------------------------------------------
(* The control of the driver: which work item may be where in which state.   *)

\* The steps of a teardown and of a setup.
TearPc == {"freeze", "sync", "stop", "cancel", "free", "connecting"}
SetPc == {"su_admin", "su_alloc", "su_start", "su_wait", "su_live", "su_sync", "su_stop",
          "su_cancel", "su_free", "su_admin_down", "su_failed"}
Done == {"idle", "su_done"}
Steps == {"idle", "queued", "su_done", "su_again", "drain", "gone"} \cup TearPc \cup SetPc
Others == {"err", "reconnect", "reset", "delete"}

\* The steps each work item can be at.
PcOK ==
    /\ pc \in [Worker -> Steps]
    /\ pc["create"] \in {"idle", "queued", "su_done"} \cup (SetPc \ {"su_wait", "su_sync",
           "su_stop"})
    /\ pc["err"] \in {"idle", "queued"} \cup TearPc
    /\ pc["reconnect"] \in {"idle", "queued", "su_done", "su_again"} \cup SetPc
    /\ pc["reset"] \in {"idle", "queued", "su_done"} \cup TearPc \cup SetPc
    /\ pc["delete"] \in {"idle", "queued", "drain", "gone"} \cup (TearPc \ {"connecting"})

\* While the controller is created nothing else has begun.
Unused(x) == x.st = "free" /\ ~x.h2c /\ ~x.dev
Creating ==
    pc["create"] # "idle" =>
        /\ \A v \in Others : pc[v] = "idle"
        /\ freeze = 0 /\ ~quiesced /\ tmo = IdleTmo
        /\ \A r \in Req : Unused(rq[r])
        /\ pc["create"] = "queued" <=> ctrl = "NEW"
        /\ pc["create"] = "su_done" <=> ctrl = "LIVE"
        /\ ctrl \in {"NEW", "CONNECTING", "LIVE"}

\* LIVE: nothing is under way, and nothing is frozen.
LiveInv ==
    ctrl = "LIVE" =>
        /\ pc["err"] = "idle" /\ pc["delete"] = "idle"
        /\ pc["reconnect"] \in Done /\ pc["reset"] \in Done
        /\ freeze = 0 /\ ~quiesced

\* RESETTING: error recovery or a reset takes the queues down, and freezes once.
Tears(w) ==
    /\ pc[w] \in {"queued"} \cup TearPc
    /\ freeze = IF pc[w] \in {"queued", "freeze"} THEN 0 ELSE 1
ResettingInv ==
    ctrl = "RESETTING" =>
        /\ pc["delete"] = "idle"
        /\ \/ Tears("err") /\ pc["reconnect"] \in Done /\ pc["reset"] \in Done
           \/ /\ Tears("reset") /\ pc["err"] = "idle"
              /\ pc["reconnect"] = "idle" \/ (pc["reset"] = "queued" /\ pc["reconnect"] = "su_done")

\* CONNECTING: a reconnect is queued or one setup is under way; what the teardown
\* froze is unfrozen right before the controller becomes LIVE.
SetsUp(w, steps) ==
    /\ pc[w] \in steps
    /\ freeze = IF pc[w] = "su_live" THEN 0 ELSE 1
    /\ pc[w] \in {"su_wait", "su_live"} => ~quiesced
ConnectingInv ==
    ctrl = "CONNECTING" /\ pc["create"] = "idle" =>
        /\ pc["err"] = "idle" /\ pc["delete"] = "idle"
        /\ \/ SetsUp("reconnect", SetPc \cup {"queued", "su_again"}) /\ pc["reset"] \in Done
           \/ SetsUp("reset", SetPc) /\ pc["reconnect"] = "idle"

\* DELETING: delete waits for the one item that may still be under way.
DeletingInv ==
    ctrl = "DELETING" =>
        /\ pc["create"] = "idle" /\ pc["delete"] # "idle"
        /\ pc["delete"] # "queued" =>
              pc["err"] = "idle" /\ pc["reconnect"] = "idle" /\ pc["reset"] = "idle"
        /\ \A v, w \in {"err", "reconnect", "reset"} :
              pc[v] \notin Done /\ pc[w] \notin Done => v = w

GoneInv == ctrl = "GONE" => \A w \in Worker : pc[w] = "idle"

CtlInv ==
    /\ ctrl \in {"NEW", "CONNECTING", "LIVE", "RESETTING", "DELETING", "GONE"}
    /\ ctrl = "NEW" => pc["create"] = "queued"
    /\ warned = FALSE /\ freeze \in Int /\ quiesced \in BOOLEAN
    /\ PcOK /\ Creating /\ LiveInv /\ ResettingInv /\ ConnectingInv /\ DeletingInv /\ GoneInv
USE DEF Worker, Others, TearPc, SetPc, Done, Steps

\* A step of the request path changes nothing the control of the driver depends on.
LEMMA CtlFrame ==
    ASSUME CtlInv, UNCHANGED ctlVars, UNCHANGED <<freeze, quiesced>>,
           pc["create"] # "idle" => tmo' = IdleTmo /\ \A r \in Req : Unused(rq'[r])
    PROVE  CtlInv'
BY SMT DEF CtlInv, ctlVars, PcOK, Creating, LiveInv, ResettingInv, ConnectingInv, DeletingInv,
       GoneInv, Tears, SetsUp

\* The request path and the timeout handler preserve CtlInv; a timeout in LIVE queues error
\* recovery when nothing else is under way.
LEMMA CtlRequest ==
    ASSUME CtlInv, RequestStep \/ TimeoutEnd
    PROVE  CtlInv'
<1>1. ASSUME NEW r \in Req, pc["create"] # "idle"
      PROVE  rq[r].st = "free" /\ ~rq[r].h2c /\ ~rq[r].dev /\ tmo = IdleTmo
  BY <1>1 DEF CtlInv, Creating, Unused
<1>2. CASE \E r \in Req : TimeoutLive(r)
  <2>1. PICK r \in Req : TimeoutLive(r)
    BY <1>2
  <2>2. pc["create"] = "idle"
    BY <1>1, <2>1 DEF TimeoutLive
  <2>. QED
    BY <2>1, <2>2 DEF TimeoutLive, ioVars, CtlInv, PcOK, Creating, LiveInv, ResettingInv,
           ConnectingInv, DeletingInv, GoneInv, Tears, SetsUp
<1>3. CASE TimeoutEnd
  BY <1>3, CtlFrame DEF TimeoutEnd, CtlInv, Creating
<1>4. CASE \E r \in Req : \/ Enter(r) \/ QueueRqNotReady(r) \/ QueueRqFailed(r) \/ QueueRqRetry(r)
                         \/ QueueRqSent(r) \/ QeSendDone(r) \/ QeRecvDone(r) \/ CompleteRq(r)
                         \/ TimeoutBegin(r)
  <2>1. pc["create"] = "idle"
    BY <1>1, <1>4 DEF Enter, QueueRqNotReady, QueueRqFailed, QueueRqRetry, QueueRqSent, QeSendDone,
                   QeRecvDone, CompleteRq, TimeoutBegin
  <2>2. UNCHANGED ctlVars /\ UNCHANGED <<freeze, quiesced>>
    BY <1>4 DEF Enter, QueueRqNotReady, QueueRqFailed, QueueRqRetry, QueueRqSent, QeSendDone,
                   QeRecvDone, CompleteRq, TimeoutBegin
  <2>. QED BY <2>1, <2>2, CtlFrame
<1>. QED BY <1>2, <1>3, <1>4 DEF RequestStep

\* While the controller is created no request is in use, so that stopping a queue
\* aborts nothing.
LEMMA NothingToAbort ==
    ASSUME rq \in [Req -> RqType], \A r \in Req : Unused(rq[r]),
           NEW Q, NEW cb \in SUBSET Sending(Q)
    PROVE  /\ \A r \in Req : Unused(Aborted(Q, rq, cb)[r])
           /\ \A r \in Req : Unused(Cancelled(rq)[r])
<1>1. ASSUME NEW r \in Req PROVE Unused(Aborted(Q, rq, cb)[r])
  <2>1. r \notin cb
    BY DEF Sending, Unused
  <2>2. Aborted(Q, rq, cb)[r] = IF QueueOf[r] \in Q THEN [rq[r] EXCEPT !.h2c = FALSE, !.dev = FALSE]
                              ELSE rq[r]
    BY <2>1 DEF Aborted
  <2>. QED BY <2>2 DEF RqType, Unused
<1>2. ASSUME NEW r \in Req PROVE Unused(Cancelled(rq)[r])
  BY DEF Cancelled, Unused
<1>. QED BY <1>1, <1>2

\* What a step of a teardown or of a setup does to the requests does not matter to
\* the control either.
LEMMA WorkAborts ==
    ASSUME CtlInv, rq \in [Req -> RqType], NEW w \in Worker, TeardownStep(w) \/ SetupStep(w),
           pc["create"] # "idle"
    PROVE  tmo' = IdleTmo /\ \A r \in Req : Unused(rq'[r])
<1>1. \A r \in Req : Unused(rq[r])
  BY DEF CtlInv, Creating
<1>2. tmo = IdleTmo
  BY DEF CtlInv, Creating
<1>3. tmo' = tmo
  BY DEF TeardownStep, SetupStep, TeardownFreeze, SyncIoQueues, StopIoQueues, CancelTagset,
         TeardownFree, SetupAdmin, SetupAllocIo, SetupStartQueue, SetupStarted, SetupWaitFreeze,
         SetupFreeIo, SetupAdminDown, SetupLive
<1>4. \/ rq' = rq \/ rq' = Cancelled(rq)
      \/ \E Q : \E cb \in SUBSET Sending(Q) : rq' = Aborted(Q, rq, cb)
  BY DEF TeardownStep, SetupStep, TeardownFreeze, SyncIoQueues, StopIoQueues, CancelTagset,
         TeardownFree, SetupAdmin, SetupAllocIo, SetupStartQueue, SetupStarted, SetupWaitFreeze,
         SetupFreeIo, SetupAdminDown, SetupLive
<1>. QED BY <1>1, <1>2, <1>3, <1>4, NothingToAbort

\* A step of nvme_qdma_teardown_io_queues preserves CtlInv.
LEMMA CtlTeardown ==
    ASSUME CtlInv, rq \in [Req -> RqType], NEW w \in Tearing, TeardownStep(w)
    PROVE  CtlInv'
<1>. USE DEF Tearing
<1>0. pc["create"] # "idle" => tmo' = IdleTmo /\ \A r \in Req : Unused(rq'[r])
  BY WorkAborts
<1>. USE <1>0
<1>1. CASE TeardownFreeze(w)
  BY <1>1, SMT DEF TeardownFreeze, CtlInv, PcOK, Creating, LiveInv, ResettingInv, ConnectingInv,
         DeletingInv,
       GoneInv, Tears, SetsUp, Step, Goto
<1>2. CASE SyncIoQueues(w)
  BY <1>2, SMT DEF SyncIoQueues, CtlInv, PcOK, Creating, LiveInv, ResettingInv, ConnectingInv,
         DeletingInv,
       GoneInv, Tears, SetsUp, Step, Goto
<1>3. CASE StopIoQueues(w)
  BY <1>3, SMT DEF StopIoQueues, CtlInv, PcOK, Creating, LiveInv, ResettingInv, ConnectingInv,
         DeletingInv,
       GoneInv, Tears, SetsUp, Step, Goto
<1>4. CASE CancelTagset(w)
  BY <1>4, SMT DEF CancelTagset, CtlInv, PcOK, Creating, LiveInv, ResettingInv, ConnectingInv,
         DeletingInv,
       GoneInv, Tears, SetsUp, Step, Goto
<1>5. CASE TeardownFree(w)
  BY <1>5, SMT DEF TeardownFree, CtlInv, PcOK, Creating, LiveInv, ResettingInv, ConnectingInv,
         DeletingInv,
       GoneInv, Tears, SetsUp, Step, Goto
<1>. QED BY <1>1, <1>2, <1>3, <1>4, <1>5 DEF TeardownStep

\* A step of nvme_qdma_setup_ctrl preserves CtlInv.
LEMMA CtlSetup ==
    ASSUME CtlInv, rq \in [Req -> RqType], NEW w \in Setting, SetupStep(w)
    PROVE  CtlInv'
<1>. USE DEF Setting
<1>0. pc["create"] # "idle" => tmo' = IdleTmo /\ \A r \in Req : Unused(rq'[r])
  BY WorkAborts
<1>. USE <1>0
<1>1. CASE SetupAdmin(w)
  BY <1>1, SMT DEF SetupAdmin, CtlInv, PcOK, Creating, LiveInv, ResettingInv, ConnectingInv, DeletingInv,
       GoneInv, Tears, SetsUp, Step, Goto
<1>2. CASE SetupAllocIo(w)
  BY <1>2, SMT DEF SetupAllocIo, CtlInv, PcOK, Creating, LiveInv, ResettingInv, ConnectingInv,
         DeletingInv,
       GoneInv, Tears, SetsUp, Step, Goto
<1>3. CASE SetupStartQueue(w)
  <2>1. pc' = pc \/ (pc[w] = "su_start" /\ pc' = Goto(w, "su_cancel"))
    BY <1>3 DEF SetupStartQueue, Step
  <2>2. UNCHANGED <<ctrl, freeze, quiesced, warned>>
    BY <1>3 DEF SetupStartQueue
  <2>3. CASE pc' = pc
    BY <2>2, <2>3, SMT DEF CtlInv, PcOK, Creating, LiveInv, ResettingInv, ConnectingInv, DeletingInv,
           GoneInv, Tears, SetsUp
  <2>4. CASE pc[w] = "su_start" /\ pc' = Goto(w, "su_cancel")
    BY <2>2, <2>4, SMT DEF Goto, CtlInv, PcOK, Creating, LiveInv, ResettingInv, ConnectingInv,
           DeletingInv,
           GoneInv, Tears, SetsUp
  <2>. QED BY <2>1, <2>3, <2>4
<1>4. CASE SetupStarted(w)
  BY <1>4, ZenonT(30) DEF SetupStarted, CtlInv, PcOK, Creating, LiveInv, ResettingInv, ConnectingInv,
         DeletingInv,
       GoneInv, Tears, SetsUp, Step, Goto
<1>5. CASE SetupWaitFreeze(w)
  <2>1. pc[w] = "su_wait" /\ UNCHANGED <<ctrl, warned>>
    BY <1>5 DEF SetupWaitFreeze, Step
  <2>2. CASE pc' = Goto(w, "su_live") /\ freeze' = freeze - 1 /\ quiesced' = quiesced
    BY <2>1, <2>2, SMT DEF Goto, CtlInv, PcOK, Creating, LiveInv, ResettingInv, ConnectingInv,
           DeletingInv,
           GoneInv, Tears, SetsUp
  <2>3. CASE pc' = Goto(w, "su_sync") /\ freeze' = freeze /\ quiesced' = TRUE
    BY <2>1, <2>3 DEF Goto, CtlInv, PcOK, Creating, LiveInv, ResettingInv, ConnectingInv,
           DeletingInv,
           GoneInv, Tears, SetsUp
  <2>. QED BY <1>5, <2>2, <2>3 DEF SetupWaitFreeze, Step
<1>6. CASE SyncIoQueues(w)
  BY <1>6, SMT DEF SyncIoQueues, CtlInv, PcOK, Creating, LiveInv, ResettingInv, ConnectingInv,
         DeletingInv,
       GoneInv, Tears, SetsUp, Step, Goto
<1>7. CASE StopIoQueues(w)
  BY <1>7, SMT DEF StopIoQueues, CtlInv, PcOK, Creating, LiveInv, ResettingInv, ConnectingInv,
         DeletingInv,
       GoneInv, Tears, SetsUp, Step, Goto
<1>8. CASE CancelTagset(w)
  <2>1. CASE w = "create"
    BY <1>8, <2>1, SMT DEF CancelTagset, CtlInv, PcOK, Creating, LiveInv, ResettingInv, ConnectingInv,
           DeletingInv,
           GoneInv, Tears, SetsUp, Step, Goto
  <2>2. CASE w = "reconnect"
    BY <1>8, <2>2, SMT DEF CancelTagset, CtlInv, PcOK, Creating, LiveInv, ResettingInv, ConnectingInv,
           DeletingInv,
           GoneInv, Tears, SetsUp, Step, Goto
  <2>3. CASE w = "reset"
    BY <1>8, <2>3, SMT DEF CancelTagset, CtlInv, PcOK, Creating, LiveInv, ResettingInv, ConnectingInv,
           DeletingInv,
           GoneInv, Tears, SetsUp, Step, Goto
  <2>. QED BY <2>1, <2>2, <2>3
<1>9. CASE SetupFreeIo(w)
  BY <1>9, SMT DEF SetupFreeIo, CtlInv, PcOK, Creating, LiveInv, ResettingInv, ConnectingInv,
         DeletingInv,
       GoneInv, Tears, SetsUp, Step, Goto
<1>10. CASE SetupAdminDown(w)
  BY <1>10, SMT DEF SetupAdminDown, CtlInv, PcOK, Creating, LiveInv, ResettingInv, ConnectingInv,
         DeletingInv,
       GoneInv, Tears, SetsUp, Step, Goto
<1>11. CASE SetupLive(w)
  <2>1. pc[w] = "su_live" /\ UNCHANGED freeze
    BY <1>11 DEF SetupLive, Step
  <2>2. ctrl = "CONNECTING" \/ ctrl = "DELETING"
    BY <2>1 DEF CtlInv, PcOK, Creating, LiveInv, ResettingInv, ConnectingInv, DeletingInv,
           GoneInv, Tears, SetsUp
  <2>3. CASE ctrl = "CONNECTING"
    <3>1. pc' = Goto(w, "su_done") /\ ctrl' = "LIVE" /\ quiesced' = quiesced /\ warned' = warned
      BY <1>11, <2>3 DEF SetupLive, Step, MayChange
    <3>. QED BY <2>1, <2>3, <3>1, SMT DEF Goto, CtlInv, PcOK, Creating, LiveInv, ResettingInv,
           ConnectingInv, DeletingInv,
           GoneInv, Tears, SetsUp
  <2>4. CASE ctrl = "DELETING"
    <3>1. pc' = Goto(w, "su_sync") /\ ctrl' = ctrl /\ quiesced' = TRUE /\ warned' = (warned \/ FALSE)
      BY <1>11, <2>4 DEF SetupLive, Step, MayChange
    <3>2. warned' = FALSE
      BY <3>1 DEF CtlInv
    <3>. QED BY <2>1, <2>4, <3>1, <3>2 DEF Goto, CtlInv, PcOK, Creating, LiveInv, ResettingInv,
           ConnectingInv, DeletingInv,
           GoneInv, Tears, SetsUp
  <2>. QED BY <2>2, <2>3, <2>4
<1>. QED BY <1>1, <1>2, <1>3, <1>4, <1>5, <1>6, <1>7, <1>8, <1>9, <1>10, <1>11 DEF SetupStep

\* The begin and the end of a work item, and what a user asks for, preserve CtlInv.
LEMMA CtlScheduled ==
    ASSUME CtlInv, Scheduled \/ UserStep
    PROVE  CtlInv'
<1>1. CASE CreateCtrl
  BY <1>1 DEF CreateCtrl, ioVars, CtlInv, PcOK, Creating, LiveInv, ResettingInv, ConnectingInv,
         DeletingInv,
       GoneInv, Tears, SetsUp, Step, Goto
<1>2. CASE CreateDone
  BY <1>2, SMT DEF CreateDone, ioVars, CtlInv, PcOK, Creating, LiveInv, ResettingInv, ConnectingInv,
         DeletingInv,
       GoneInv, Tears, SetsUp, Step, Goto
<1>3. CASE ErrorRecoveryWork
  BY <1>3, SMT DEF ErrorRecoveryWork, ioVars, CtlInv, PcOK, Creating, LiveInv, ResettingInv,
         ConnectingInv, DeletingInv,
       GoneInv, Tears, SetsUp, Step, Goto
<1>4. CASE ErrorRecoveryConnect
  <2>1. pc["err"] = "connecting" /\ UNCHANGED ioVars
    BY <1>4 DEF ErrorRecoveryConnect
  <2>2. ctrl \in {"RESETTING", "DELETING"}
    BY <2>1 DEF CtlInv, PcOK, Creating, LiveInv, ResettingInv, ConnectingInv, DeletingInv,
           GoneInv, Tears, SetsUp
  <2>3. CASE ctrl = "RESETTING"
    <3>1. ReconnectOrRemove("err", "CONNECTING", nr)
      BY <1>4, <2>3 DEF ErrorRecoveryConnect, MayChange
    <3>2. warned = FALSE
      BY DEF CtlInv
    <3>3. /\ warned' = FALSE
          /\ \/ /\ ctrl' = "CONNECTING"
                /\ pc' = [pc EXCEPT !["err"] = "idle", !["reconnect"] = Again]
             \/ ctrl' = "DELETING" /\ pc' = [pc EXCEPT !["err"] = "idle", !["delete"] = "queued"]
      BY <3>1, <3>2 DEF ReconnectOrRemove
    <3>. QED BY <2>1, <2>3, <3>3, SMT DEF ioVars, Again, CtlInv, PcOK, Creating, LiveInv,
           ResettingInv, ConnectingInv, DeletingInv,
           GoneInv, Tears, SetsUp
  <2>4. CASE ctrl = "DELETING"
    <3>1. pc' = Goto("err", "idle") /\ warned' = (warned \/ FALSE) /\ ctrl' = ctrl
      BY <1>4, <2>4 DEF ErrorRecoveryConnect, MayChange
    <3>2. warned' = FALSE
      BY <3>1 DEF CtlInv
    <3>. QED BY <2>1, <2>4, <3>1, <3>2 DEF ioVars, Goto, CtlInv, PcOK, Creating, LiveInv,
           ResettingInv, ConnectingInv, DeletingInv,
           GoneInv, Tears, SetsUp
  <2>. QED BY <2>2, <2>3, <2>4
<1>5. CASE ReconnectCtrlWork
  BY <1>5 DEF ReconnectCtrlWork, ioVars, CtlInv, PcOK, Creating, LiveInv, ResettingInv,
         ConnectingInv, DeletingInv,
       GoneInv, Tears, SetsUp, Step, Goto
<1>6. CASE ReconnectDone
  BY <1>6, SMT DEF ReconnectDone, ioVars, CtlInv, PcOK, Creating, LiveInv, ResettingInv,
         ConnectingInv, DeletingInv,
       GoneInv, Tears, SetsUp, Step, Goto
<1>7. CASE ReconnectFailed
  <2>1. pc["reconnect"] = "su_failed" /\ ReconnectOrRemove("reconnect", ctrl,
         nr) /\ UNCHANGED ioVars
    BY <1>7 DEF ReconnectFailed
  <2>2. ctrl \in {"CONNECTING", "DELETING"} /\ warned = FALSE
    BY <2>1 DEF CtlInv, PcOK, Creating, LiveInv, ResettingInv, ConnectingInv, DeletingInv,
           GoneInv, Tears, SetsUp
  <2>3. /\ warned' = FALSE
        /\ \/ ctrl = "DELETING" /\ ctrl' = "DELETING" /\ pc' = [pc EXCEPT !["reconnect"] = "idle"]
           \/ /\ ctrl = "CONNECTING" /\ ctrl' = "CONNECTING"
              /\ pc' = [pc EXCEPT !["reconnect"] = "idle", !["reconnect"] = Again]
           \/ /\ ctrl = "CONNECTING" /\ ctrl' = "DELETING"
              /\ pc' = [pc EXCEPT !["reconnect"] = "idle", !["delete"] = "queued"]
    <3>1. CASE ctrl = "DELETING"
      <4>1. warned' = (warned \/ FALSE)
        BY <2>1, <3>1 DEF ReconnectOrRemove
      <4>. QED BY <2>1, <2>2, <3>1, <4>1 DEF ReconnectOrRemove, Goto
    <3>2. CASE ctrl = "CONNECTING"
      BY <2>1, <2>2, <3>2 DEF ReconnectOrRemove
    <3>. QED BY <2>2, <3>1, <3>2
  <2>. QED BY <2>1, <2>3, SMT DEF ioVars, Again, CtlInv, PcOK, Creating, LiveInv, ResettingInv,
         ConnectingInv, DeletingInv,
           GoneInv, Tears, SetsUp
<1>8. CASE ResetCtrlWork
  BY <1>8 DEF ResetCtrlWork, StopCtrl, Cancellable, ioVars, CtlInv, PcOK, Creating, LiveInv,
         ResettingInv, ConnectingInv, DeletingInv,
       GoneInv, Tears, SetsUp, Step, Goto
<1>9. CASE ResetConnect
  BY <1>9, SMT DEF ResetConnect, MayChange, ioVars, CtlInv, PcOK, Creating, LiveInv, ResettingInv,
         ConnectingInv, DeletingInv,
       GoneInv, Tears, SetsUp, Step, Goto
<1>10. CASE ResetDone
  BY <1>10, SMT DEF ResetDone, ioVars, CtlInv, PcOK, Creating, LiveInv, ResettingInv, ConnectingInv,
         DeletingInv,
       GoneInv, Tears, SetsUp, Step, Goto
<1>11. CASE ResetFailed
  <2>1. pc["reset"] = "su_failed" /\ ReconnectOrRemove("reset", ctrl, nr + 1) /\ UNCHANGED ioVars
    BY <1>11 DEF ResetFailed
  <2>2. ctrl \in {"CONNECTING", "DELETING"} /\ warned = FALSE
    BY <2>1 DEF CtlInv, PcOK, Creating, LiveInv, ResettingInv, ConnectingInv, DeletingInv,
           GoneInv, Tears, SetsUp
  <2>3. /\ warned' = FALSE
        /\ \/ ctrl = "DELETING" /\ ctrl' = "DELETING" /\ pc' = [pc EXCEPT !["reset"] = "idle"]
           \/ /\ ctrl = "CONNECTING" /\ ctrl' = "CONNECTING"
              /\ pc' = [pc EXCEPT !["reset"] = "idle", !["reconnect"] = Again]
           \/ /\ ctrl = "CONNECTING" /\ ctrl' = "DELETING"
              /\ pc' = [pc EXCEPT !["reset"] = "idle", !["delete"] = "queued"]
    <3>1. CASE ctrl = "DELETING"
      <4>1. warned' = (warned \/ FALSE)
        BY <2>1, <3>1 DEF ReconnectOrRemove
      <4>. QED BY <2>1, <2>2, <3>1, <4>1 DEF ReconnectOrRemove, Goto
    <3>2. CASE ctrl = "CONNECTING"
      BY <2>1, <2>2, <3>2 DEF ReconnectOrRemove
    <3>. QED BY <2>2, <3>1, <3>2
  <2>. QED BY <2>1, <2>3, SMT DEF ioVars, Again, CtlInv, PcOK, Creating, LiveInv, ResettingInv,
         ConnectingInv, DeletingInv,
           GoneInv, Tears, SetsUp
<1>12. CASE DeleteCtrlWork
  BY <1>12 DEF DeleteCtrlWork, StopCtrl, Cancellable, ioVars, CtlInv, PcOK, Creating, LiveInv,
         ResettingInv, ConnectingInv, DeletingInv,
       GoneInv, Tears, SetsUp, Step, Goto
<1>13. CASE DeleteDrained
  BY <1>13 DEF DeleteDrained, ioVars, CtlInv, PcOK, Creating, LiveInv, ResettingInv,
         ConnectingInv, DeletingInv,
       GoneInv, Tears, SetsUp, Step, Goto
<1>14. CASE DeleteGone
  BY <1>14 DEF DeleteGone, ioVars, CtlInv, PcOK, Creating, LiveInv, ResettingInv, ConnectingInv,
         DeletingInv,
       GoneInv, Tears, SetsUp, Step, Goto
<1>15. CASE ResetCtrl
  BY <1>15 DEF ResetCtrl, MayChange, ioVars, CtlInv, PcOK, Creating, LiveInv, ResettingInv,
         ConnectingInv, DeletingInv,
       GoneInv, Tears, SetsUp, Step, Goto
<1>16. CASE DeleteCtrl
  BY <1>16, SMT DEF DeleteCtrl, MayChange, ioVars, CtlInv, PcOK, Creating, LiveInv, ResettingInv,
         ConnectingInv, DeletingInv,
       GoneInv, Tears, SetsUp, Step, Goto
<1>. QED BY <1>1, <1>2, <1>3, <1>4, <1>5, <1>6, <1>7, <1>8, <1>9, <1>10, <1>11, <1>12, <1>13,
       <1>14, <1>15, <1>16 DEF Scheduled, UserStep

\* CtlInv is inductive.
LEMMA CtlInductive == ASSUME CtlInv, rq \in [Req -> RqType], [Next]_vars PROVE CtlInv'
<1>1. CASE UNCHANGED vars
  BY <1>1, CtlFrame DEF vars, ctlVars, CtlInv, Creating
<1>. QED
  BY <1>1, CtlRequest, CtlTeardown, CtlSetup, CtlScheduled DEF Next, WorkStep

\* The types hold initially.
LEMMA TypesInitially == ASSUME Init PROVE TypeInv
<1>1. RefOK(NoRequest) /\ NoRequest \in RqType
  BY SMT DEF RefOK, RqType, NoRequest
<1>2. NoQueue \in QType
  BY NvmqConstants, SMT DEF QType, NoQueue
<1>3. RequestsOK(rq) /\ QueuesOK(q)
  BY <1>1, <1>2 DEF Init, RequestsOK, QueuesOK
<1>4. armed \in BOOLEAN /\ tmo \in [req : Req \cup {NoReq}, stop : BOOLEAN]
  BY DEF Init, IdleTmo
<1>5. qi \in [Worker -> 0..(NQ + 1)]
  BY NvmqConstants, SMT DEF Init
<1>. QED BY <1>3, <1>4, <1>5 DEF TypeInv

\* CtlInv holds initially.
LEMMA CtlInitially == ASSUME Init PROVE CtlInv
<1>1. PcOK /\ Creating
  BY DEF Init, PcOK, Creating, Unused, NoRequest
<1>2. LiveInv /\ ResettingInv /\ ConnectingInv /\ DeletingInv /\ GoneInv
  BY DEF Init, LiveInv, ResettingInv, ConnectingInv, DeletingInv, GoneInv
<1>3. warned = FALSE /\ quiesced \in BOOLEAN
  BY Zenon DEF Init
<1>5. freeze \in Int
  BY SMT DEF Init
<1>4. ctrl = "NEW" /\ pc["create"] = "queued"
  BY DEF Init
<1>. QED BY <1>1, <1>2, <1>3, <1>4, <1>5 DEF CtlInv

\* In every controller state exactly the work items the driver means to be under way are, and the
\* tag set is frozen exactly when their steps say so.
THEOREM ControlInvariant == Spec => []CtlInv
<1>1. Spec => []TypeInv
  BY TypesInitially, TypesInductive, PTL DEF Spec
<1>2. TypeInv => rq \in [Req -> RqType]
  BY DEF TypeInv, RequestsOK
<1>3. CtlInv /\ TypeInv /\ [Next]_vars => CtlInv'
  BY <1>2, CtlInductive
<1>. QED BY <1>1, <1>3, CtlInitially, PTL DEF Spec

\* At most one of the creating thread, error recovery, reconnect, reset and delete takes the
\* queues down or sets them up (nvme_qdma_stop_ctrl, nvme_qdma_reconnect_or_remove).
THEOREM NeverReconfiguredTwice == Spec => []OneReconfiguration
<1>1. CtlInv => OneReconfiguration
  BY SMT DEF OneReconfiguration, Working, CtlInv, PcOK, Creating, LiveInv, ResettingInv,
         ConnectingInv, DeletingInv, GoneInv, Tears, SetsUp
<1>. QED BY <1>1, ControlInvariant, PTL

\* The WARN_ON_ONCEs of nvme_qdma_reconnect_or_remove, nvme_qdma_setup_ctrl and
\* nvme_qdma_error_recovery_work never fire.
THEOREM NeverWarned == Spec => []NoStateWarning
<1>1. CtlInv => NoStateWarning
  BY DEF CtlInv, NoStateWarning
<1>. QED BY <1>1, ControlInvariant, PTL

\* When nvme_qdma_setup_ctrl makes the controller LIVE every freeze and quiesce of the teardown
\* before it has been undone.
THEOREM LiveAcceptsIo == Spec => []LiveIsThawed
<1>1. CtlInv => LiveIsThawed
  BY DEF CtlInv, LiveInv, LiveIsThawed
<1>. QED BY <1>1, ControlInvariant, PTL

-----------------------------------------------------------------------------
(* The requests and the queues.                                             *)
Out(r) == rq[r].h2c \/ rq[r].dev

\* The timeout handler has marked queue i not LIVE and is about to stop it.
Stopping(i) == tmo.stop /\ QueueOf[tmo.req] = i

\* What is outstanding belongs to a started request on a running LIVE queue.
OutInv ==
    \A r \in Req : Out(r) =>
        \/ rq[r].st = "started" /\ q[QueueOf[r]].hw = "run" /\ q[QueueOf[r]].live
        \/ Stopping(QueueOf[r])

\* From the end of a teardown to the start of the first queue none is LIVE and no
\* request is started.
NotLive == \A i \in IoQ : ~q[i].live
NoneStarted == \A r \in Req : rq[r].st # "started"
DownPc == {"free", "connecting", "gone", "su_admin", "su_alloc", "su_free", "su_admin_down",
           "su_failed"}
WaitInv ==
    pc["reconnect"] \in {"queued", "su_again"} \/ pc["create"] = "queued" => NotLive /\ NoneStarted

\* A queue that runs is LIVE where requests are accepted.
RunsLive(i) == q[i].hw = "run" => q[i].live \/ Stopping(i)
UpInv == ctrl = "LIVE" => \A i \in IoQ : RunsLive(i)

\* What each step of a teardown or a setup may rely on. nvmq_sync_io_queues has
\* waited for the timeout handler, and the timer stays off behind it.
PhaseInv(w) ==
    /\ pc[w] \in {"sync", "stop", "su_sync", "su_stop"} => quiesced
    /\ pc[w] \in {"stop", "cancel", "free", "connecting"} => tmo = IdleTmo /\ ~armed
    /\ pc[w] \in {"cancel", "su_cancel"} \cup DownPc => NotLive
    /\ pc[w] \in DownPc => NoneStarted
    /\ pc[w] \in {"su_admin", "su_alloc"} => tmo = IdleTmo
    /\ pc[w] = "su_start" =>
          /\ \A i \in IoQ : IF i >= qi[w] THEN ~q[i].live ELSE RunsLive(i)
          /\ \A r \in Req : QueueOf[r] >= qi[w] => rq[r].st # "started"
    /\ pc[w] \in {"su_wait", "su_live"} => \A i \in IoQ : RunsLive(i)

\* A request the timeout handler completes without stopping its queue has nothing
\* outstanding. It cannot be sent again before the handler returns: it is still
\* started, or its queue is not set up again.
StartPc == {"su_admin", "su_alloc", "su_start", "su_wait", "su_live"}
Dead(i) == ~q[i].live /\ ctrl # "LIVE" /\ \A w \in Worker : pc[w] \notin StartPc
TmoInv ==
    /\ tmo = IdleTmo \/ tmo.req \in Req
    /\ tmo # IdleTmo /\ ~tmo.stop =>
          ~Out(tmo.req) /\ (rq[tmo.req].st = "started" \/ Dead(QueueOf[tmo.req]))

RqInv == OutInv /\ WaitInv /\ UpInv /\ (\A w \in Worker : PhaseInv(w)) /\ TmoInv
Inv == TypeInv /\ CtlInv /\ RqInv

-----------------------------------------------------------------------------
(* What the control of the driver says of the work items.                   *)
BusyPc == TearPc \cup SetPc \cup {"gone"}
USE DEF DownPc, StartPc, BusyPc

\* In LIVE no item is taking queues down or setting them up, or about to.
LEMMA LiveIsIdle ==
    ASSUME CtlInv, ctrl = "LIVE"
    PROVE  \A w \in Worker : pc[w] \in Done
BY DEF CtlInv, PcOK, Creating, LiveInv

\* The item under way is the only one, and none is waiting for a reconnect.
LEMMA Alone ==
    ASSUME CtlInv, NEW w \in Worker, pc[w] \in BusyPc
    PROVE  /\ ctrl \notin {"LIVE", "NEW", "GONE"}
           /\ \A v \in Worker : v # w => pc[v] \notin BusyPc
           /\ pc["reconnect"] \notin {"queued", "su_again"} /\ pc["create"] # "queued"
<1>1. CASE pc["create"] # "idle"
  BY <1>1 DEF CtlInv, PcOK, Creating, GoneInv
<1>2. CASE pc["create"] = "idle"
  <2>1. ctrl # "NEW" /\ ctrl # "GONE" /\ ctrl # "LIVE"
    BY <1>2 DEF CtlInv, PcOK, LiveInv, GoneInv
  <2>2. CASE ctrl = "RESETTING"
    BY <1>2, <2>2, SMT DEF CtlInv, PcOK, ResettingInv, Tears
  <2>3. CASE ctrl = "CONNECTING"
    BY <1>2, <2>3, SMT DEF CtlInv, PcOK, ConnectingInv, SetsUp
  <2>4. CASE ctrl = "DELETING"
    BY <1>2, <2>4, SMT DEF CtlInv, PcOK, DeletingInv
  <2>. QED BY <1>2, <2>1, <2>2, <2>3, <2>4 DEF CtlInv
<1>. QED BY <1>1, <1>2

-----------------------------------------------------------------------------
(* The effect of stopping, allocating and freeing queues.                   *)

\* A stopped queue leaves nothing outstanding; a request of it may complete.
LEMMA AbortedIs ==
    ASSUME RequestsOK(rq), NEW Q, NEW cb \in SUBSET Sending(Q), NEW r \in Req
    PROVE  /\ Aborted(Q, rq, cb)[r].st = "started" => rq[r].st = "started"
           /\ ~rq[r].h2c => Aborted(Q, rq, cb)[r].st = rq[r].st
           /\ Aborted(Q, rq, cb)[r].h2c \/ Aborted(Q, rq, cb)[r].dev =>
                 QueueOf[r] \notin Q /\ Aborted(Q, rq, cb)[r] = rq[r]
<1>1. RefOK(rq[r]) /\ rq[r] \in RqType /\ (r \in cb => rq[r].h2c)
  BY DEF RequestsOK, Sending
<1>2. CASE QueueOf[r] \notin Q
  BY <1>2 DEF Aborted
<1>3. CASE QueueOf[r] \in Q /\ r \notin cb
  <2>1. Aborted(Q, rq, cb)[r] = [rq[r] EXCEPT !.h2c = FALSE, !.dev = FALSE]
    BY <1>3 DEF Aborted
  <2>. QED BY <1>1, <2>1 DEF RqType
<1>4. CASE QueueOf[r] \in Q /\ r \in cb
  <2>1. Aborted(Q, rq, cb)[r] = [DropRef(rq[r]) EXCEPT !.h2c = FALSE, !.dev = FALSE]
    BY <1>4 DEF Aborted
  <2>2. DropRef(rq[r]) \in RqType /\ DropRef(rq[r]).st \in {"completing", rq[r].st}
    BY <1>1, <1>4, DropRefIs, SMT DEF RefOK, RqType
  <2>. QED BY <1>1, <1>4, <2>1, <2>2 DEF RqType
<1>. QED BY <1>2, <1>3, <1>4

\* Cancelling ends what is started and nothing else.
LEMMA CancelledIs ==
    ASSUME RequestsOK(rq), NEW r \in Req
    PROVE  /\ Cancelled(rq)[r].st # "started"
           /\ Cancelled(rq)[r].h2c = rq[r].h2c /\ Cancelled(rq)[r].dev = rq[r].dev
BY DEF RequestsOK, RqType, Cancelled

\* What qdma_stop_queue does to a queue: it leaves the LIVE bit alone.
LEMMA HwStopIs ==
    ASSUME NEW Q, NEW qs, QueuesOK(qs), NEW i \in Queue
    PROVE  /\ HwStop(Q, qs)[i].live = qs[i].live
           /\ HwStop(Q, qs)[i].hw = "run" <=> qs[i].hw = "run" /\ i \notin Q
           /\ HwStop(Q, qs)[i].hw = "run" => HwStop(Q, qs)[i].posted = qs[i].posted
BY DEF HwStop, QType, QueuesOK

\* What nvme_qdma_stop_queue does: it stops what is LIVE.
LEMMA StopQueueIs ==
    ASSUME NEW Q, NEW qs, QueuesOK(qs), NEW i \in Queue
    PROVE  /\ StopQueue(Q, qs)[i].live <=> qs[i].live /\ i \notin Q
           /\ StopQueue(Q, qs)[i].hw = "run" <=> qs[i].hw = "run" /\ ~(qs[i].live /\ i \in Q)
           /\ StopQueue(Q, qs)[i].hw = "run" => StopQueue(Q, qs)[i].posted = qs[i].posted
<1>. DEFINE ps == [j \in Queue |-> IF j \in Q THEN [qs[j] EXCEPT !.live = FALSE] ELSE qs[j]]
<1>1. QueuesOK(ps)
  BY DEF QType, QueuesOK
<1>2. ps[i].hw = qs[i].hw /\ (ps[i].live <=> qs[i].live /\ i \notin Q) /\ ps[i].posted = qs[i].posted
  BY DEF QType, QueuesOK
<1>3. StopQueue(Q, qs) = HwStop(LiveOf(Q, qs), ps)
  BY DEF StopQueue
<1>4. i \in LiveOf(Q, qs) <=> qs[i].live /\ i \in Q
  BY DEF LiveOf
<1>. HIDE DEF ps
<1>. QED BY <1>1, <1>2, <1>3, <1>4, HwStopIs, SMT

\* What allocating and freeing do: neither touches the LIVE bit.
LEMMA AllocQueueIs ==
    ASSUME NEW Q, NEW qs, QueuesOK(qs), NEW i \in Queue
    PROVE  AllocQueue(Q, qs)[i].live = qs[i].live
BY DEF AllocQueue, NoQueue, QueuesOK

\* nvmeq_nvmq_free_queue, the same.
LEMMA FreeQueueIs ==
    ASSUME NEW Q, NEW qs, QueuesOK(qs), NEW i \in Queue
    PROVE  /\ FreeQueue(Q, qs)[i].live = qs[i].live
           /\ FreeQueue(Q, qs)[i].hw = "run" => qs[i].hw = "run" /\ FreeQueue(Q, qs)[i] = qs[i]
BY DEF FreeQueue, NoQueue, QueuesOK

\* None of the operations of a teardown or of a failed setup makes an I/O queue LIVE.
LEMMA DownStaysDown ==
    ASSUME QueuesOK(q), NotLive, NEW F, NEW A,
           \/ q' = AllocQueue(A, q) \/ q' = FreeQueue(F, q)
           \/ q' = FreeQueue(F, AllocQueue(A, q)) \/ q' = FreeQueue(F, StopQueue(A, q))
    PROVE  NotLive'
<1>. SUFFICES ASSUME NEW i \in IoQ PROVE ~q'[i].live
  BY DEF NotLive
<1>1. i \in Queue /\ ~q[i].live
  BY NvmqConstants, SMT DEF IoQ, Queue, NotLive
<1>2. QueuesOK(AllocQueue(A, q)) /\ QueuesOK(StopQueue(A, q))
  BY QueueOpsOK
<1>3. ~AllocQueue(A, q)[i].live /\ ~StopQueue(A, q)[i].live /\ ~FreeQueue(F, q)[i].live
  BY <1>1, AllocQueueIs, StopQueueIs, FreeQueueIs, SMT
<1>4. FreeQueue(F, AllocQueue(A, q))[i].live = AllocQueue(A, q)[i].live
  BY <1>1, <1>2, FreeQueueIs, SMT
<1>5. FreeQueue(F, StopQueue(A, q))[i].live = StopQueue(A, q)[i].live
  BY <1>1, <1>2, FreeQueueIs, SMT
<1>. QED BY <1>3, <1>4, <1>5

\* A work item that is between its phases has nothing to show.
LEMMA NoPhase ==
    ASSUME NEW w \in Worker, pc'[w] \notin BusyPc \ {"freeze"}
    PROVE  PhaseInv(w)'
BY DEF PhaseInv

-----------------------------------------------------------------------------
(* The request path.                                                        *)
RequestPath(r) ==
    \/ Enter(r) \/ QueueRqNotReady(r) \/ QueueRqFailed(r) \/ QueueRqRetry(r)
    \/ QueueRqSent(r) \/ QeSendDone(r) \/ QeRecvDone(r) \/ CompleteRq(r)

\* The request path concerns one request: it is sent only where its queue is ready,
\* and otherwise nothing more becomes outstanding.
LEMMA RequestPathIs ==
    ASSUME TypeInv, NEW r \in Req, RequestPath(r)
    PROVE  /\ UNCHANGED <<ctrl, pc, qi, tmo, quiesced>>
           /\ \A i \in Queue : q'[i].live = q[i].live /\ q'[i].hw = q[i].hw
           /\ \A s \in Req \ {r} : rq'[s] = rq[s]
           /\ armed' = armed \/ (~quiesced /\ Ready(QueueOf[r]))
           /\ \/ /\ rq[r].st = "queued" /\ Ready(QueueOf[r]) /\ ~quiesced
                 /\ q[QueueOf[r]].hw = "run" /\ rq'[r].st = "started"
              \/ /\ rq'[r].st = "started" => rq[r].st = "started"
                 /\ Out(r)' => Out(r)
                 /\ rq[r].st = "started" => rq'[r].st = "started" \/ (Out(r) /\ ~Out(r)')
<1>. USE DEF ctlVars, ioVars, RequestPath, Out
<1>1. RefOK(rq[r]) /\ rq \in [Req -> RqType] /\ QueueOf[r] \in Queue /\ q \in [Queue -> QType]
  BY NvmqConstants, SMT DEF TypeInv, RequestsOK, QueuesOK, Queue
<1>2. UNCHANGED <<ctrl, pc, qi, tmo, quiesced>>
  BY DEF Enter, QueueRqNotReady, QueueRqFailed, QueueRqRetry, QueueRqSent, QeSendDone, QeRecvDone,
         CompleteRq
<1>3. \A i \in Queue : q'[i].live = q[i].live /\ q'[i].hw = q[i].hw
  <2>1. q' = q \/ \E n : q' = [q EXCEPT ![QueueOf[r]].posted = n]
    BY DEF Enter, QueueRqNotReady, QueueRqFailed, QueueRqRetry, QueueRqSent, QeSendDone, QeRecvDone,
           CompleteRq
  <2>2. ASSUME NEW n, q' = [q EXCEPT ![QueueOf[r]].posted = n], NEW i \in Queue
        PROVE  q'[i].live = q[i].live /\ q'[i].hw = q[i].hw
    <3>1. q[i] \in QType /\ q'[i] \in {q[i], [q[i] EXCEPT !.posted = n]}
      BY <1>1, <2>2
    <3>. QED BY <3>1 DEF QType
  <2>. QED BY <2>1, <2>2
<1>4. rq' = rq \/ \E x : rq' = [rq EXCEPT ![r] = x]
  BY DEF Enter, QueueRqNotReady, QueueRqFailed, QueueRqRetry, QueueRqSent, QeSendDone, QeRecvDone,
         CompleteRq
<1>5. \A s \in Req \ {r} : rq'[s] = rq[s]
  BY <1>1, <1>4
<1>6. armed' = armed \/ (~quiesced /\ Ready(QueueOf[r]))
  BY DEF Enter, QueueRqNotReady, QueueRqFailed, QueueRqRetry, QueueRqSent, QeSendDone, QeRecvDone,
         CompleteRq
<1>. DEFINE Sent == /\ rq[r].st = "queued" /\ Ready(QueueOf[r]) /\ ~quiesced
                    /\ q[QueueOf[r]].hw = "run" /\ rq'[r].st = "started"
            Less == /\ rq'[r].st = "started" => rq[r].st = "started"
                    /\ Out(r)' => Out(r)
                    /\ rq[r].st = "started" => rq'[r].st = "started" \/ (Out(r) /\ ~Out(r)')
<1>7. CASE Enter(r)
  <2>1. Less
    BY <1>1, <1>7 DEF Enter, RqType
  <2>. QED BY <1>2, <1>3, <1>5, <1>6, <2>1
<1>8. CASE QueueRqNotReady(r) \/ QueueRqFailed(r) \/ QueueRqRetry(r)
  <2>1. Less
    BY <1>1, <1>8, SMT DEF QueueRqNotReady, QueueRqFailed, QueueRqRetry, RqType, NoRequest
  <2>. QED BY <1>2, <1>3, <1>5, <1>6, <2>1
<1>9. CASE QueueRqSent(r)
  <2>1. Sent
    BY <1>1, <1>9 DEF QueueRqSent, CanPost
  <2>. QED BY <1>2, <1>3, <1>5, <1>6, <2>1
<1>10. CASE QeSendDone(r)
  <2>. DEFINE y == [rq[r] EXCEPT !.h2c = FALSE]
  <2>1. /\ y \in RqType /\ y.ref >= 1 /\ ~y.h2c
        /\ y.dev = rq[r].dev /\ y.st = rq[r].st /\ y.ref = rq[r].ref
    BY <1>1, <1>10 DEF QeSendDone, RefOK, RqType
  <2>2. rq'[r] = DropRef(y)
    BY <1>1, <1>10 DEF QeSendDone
  <2>. HIDE DEF y
  <2>3. /\ DropRef(y).st = IF y.ref = 1 THEN "completing" ELSE y.st
        /\ DropRef(y).h2c = y.h2c /\ DropRef(y).dev = y.dev
    BY <2>1, DropRefIs, SMT
  <2>4. Less
    BY <1>1, <1>10, <2>1, <2>2, <2>3, SMT DEF QeSendDone, RefOK, RqType
  <2>. QED BY <1>2, <1>3, <1>5, <1>6, <2>4
<1>11. CASE QeRecvDone(r)
  <2>. DEFINE y == [rq[r] EXCEPT !.dev = FALSE]
  <2>1. /\ y \in RqType /\ y.ref >= 1 /\ ~y.dev
        /\ y.h2c = rq[r].h2c /\ y.st = rq[r].st /\ y.ref = rq[r].ref
    BY <1>1, <1>11 DEF QeRecvDone, RefOK, RqType
  <2>2. rq'[r] = DropRef(y)
    BY <1>1, <1>11 DEF QeRecvDone
  <2>. HIDE DEF y
  <2>3. /\ DropRef(y).st = IF y.ref = 1 THEN "completing" ELSE y.st
        /\ DropRef(y).h2c = y.h2c /\ DropRef(y).dev = y.dev
    BY <2>1, DropRefIs, SMT
  <2>4. Less
    BY <1>1, <1>11, <2>1, <2>2, <2>3, SMT DEF QeRecvDone, RefOK, RqType
  <2>. QED BY <1>2, <1>3, <1>5, <1>6, <2>4
<1>12. CASE CompleteRq(r)
  <2>1. /\ rq[r].st = "completing" /\ rq'[r].st \in {"free", "queued"}
        /\ rq'[r].h2c = rq[r].h2c /\ rq'[r].dev = rq[r].dev
    BY <1>1, <1>12, SMT DEF CompleteRq, RqType
  <2>2. Less
    BY <2>1
  <2>. QED BY <1>2, <1>3, <1>5, <1>6, <2>2
<1>. QED BY <1>7, <1>8, <1>9, <1>10, <1>11, <1>12

\* The request path preserves RqInv: where nothing may be sent no queue is ready.
LEMMA RequestPathKeeps == ASSUME Inv, NEW r \in Req, RequestPath(r) PROVE RqInv'
<1>. DEFINE k == QueueOf[r]
            Sent == /\ rq[r].st = "queued" /\ Ready(k) /\ ~quiesced
                    /\ q[k].hw = "run" /\ rq'[r].st = "started"
            Less == /\ rq'[r].st = "started" => rq[r].st = "started"
                    /\ Out(r)' => Out(r)
                    /\ rq[r].st = "started" => rq'[r].st = "started" \/ (Out(r) /\ ~Out(r)')
<1>1. /\ UNCHANGED <<ctrl, pc, qi, tmo, quiesced>>
      /\ \A i \in Queue : q'[i].live = q[i].live /\ q'[i].hw = q[i].hw
      /\ \A s \in Req \ {r} : rq'[s] = rq[s]
      /\ armed' = armed \/ (~quiesced /\ Ready(k))
      /\ Sent \/ Less
  BY RequestPathIs DEF Inv
<1>2. \A s \in Req : QueueOf[s] \in IoQ /\ QueueOf[s] \in Queue
  BY NvmqConstants, SMT DEF IoQ, Queue
<1>3. \A i \in IoQ : i \in Queue
  BY NvmqConstants, SMT DEF IoQ, Queue
<1>4. \A s \in Req \ {r} : Out(s)' = Out(s)
  BY <1>1 DEF Out
<1>5. UpInv'
  BY <1>1, <1>3 DEF Inv, RqInv, UpInv, RunsLive, Stopping
<1>6. OutInv'
  <2>1. ASSUME NEW s \in Req, s # r, Out(s)'
        PROVE  \/ rq'[s].st = "started" /\ q'[QueueOf[s]].hw = "run" /\ q'[QueueOf[s]].live
               \/ Stopping(QueueOf[s])'
    BY <1>1, <1>2, <1>4, <2>1 DEF Inv, RqInv, OutInv, Stopping
  <2>2. ASSUME Sent
        PROVE  \/ rq'[r].st = "started" /\ q'[k].hw = "run" /\ q'[k].live
               \/ Stopping(k)'
    BY <1>1, <1>2, <2>2 DEF Inv, RqInv, UpInv, RunsLive, Stopping, Ready
  <2>3. ASSUME Less, Out(r)'
        PROVE  \/ rq'[r].st = "started" /\ q'[k].hw = "run" /\ q'[k].live
               \/ Stopping(k)'
    BY <1>1, <1>2, <2>3 DEF Inv, RqInv, OutInv, Stopping
  <2>. QED BY <1>1, <2>1, <2>2, <2>3, SMT DEF OutInv
<1>7. NotLive' = NotLive
  BY <1>1, <1>3 DEF NotLive
<1>8. ASSUME NotLive, NoneStarted, ctrl # "LIVE" PROVE NoneStarted'
  <2>1. ~Ready(k)
    BY <1>2, <1>8 DEF NotLive, Ready
  <2>. QED BY <1>1, <1>8, <2>1 DEF NoneStarted
<1>9. WaitInv'
  <2>1. pc["reconnect"] \in {"queued", "su_again"} \/ pc["create"] = "queued" => ctrl # "LIVE"
    BY LiveIsIdle DEF Inv
  <2>. QED BY <1>1, <1>7, <1>8, <2>1 DEF Inv, RqInv, WaitInv
<1>10. ASSUME NEW w \in Worker PROVE PhaseInv(w)'
  <2>. SUFFICES ASSUME pc[w] \in BusyPc PROVE PhaseInv(w)'
    BY <1>1 DEF PhaseInv
  <2>1. ctrl # "LIVE" /\ PhaseInv(w)
    BY Alone DEF Inv, RqInv
  <2>2. pc[w] \in {"stop", "cancel", "free", "connecting"} => armed' = armed
    <3>1. pc[w] = "stop" => quiesced
      BY <2>1 DEF PhaseInv
    <3>2. pc[w] \in {"cancel", "free", "connecting"} => ~Ready(k)
      BY <1>2, <2>1 DEF PhaseInv, NotLive, Ready
    <3>. QED BY <1>1, <3>1, <3>2
  <2>3. \A i \in IoQ : q'[i].live = q[i].live /\ RunsLive(i)' = RunsLive(i)
    BY <1>1, <1>3 DEF RunsLive, Stopping
  <2>4. ASSUME pc[w] = "su_start", NEW s \in Req, QueueOf[s] >= qi[w] PROVE rq'[s].st # "started"
    <3>1. s = r => ~Ready(k)
      BY <1>2, <2>1, <2>4 DEF PhaseInv, Ready
    <3>. QED BY <1>1, <2>1, <2>4, <3>1 DEF PhaseInv
  <2>5. pc[w] \in DownPc => NoneStarted'
    BY <1>8, <2>1 DEF PhaseInv
  <2>. QED BY <1>1, <1>7, <2>1, <2>2, <2>3, <2>4, <2>5, SMT DEF PhaseInv
<1>11. TmoInv'
  <2>. SUFFICES ASSUME tmo # IdleTmo, ~tmo.stop
                PROVE  ~Out(tmo.req)' /\ (rq'[tmo.req].st = "started" \/ Dead(QueueOf[tmo.req])')
    BY <1>1 DEF Inv, RqInv, TmoInv
  <2>1. tmo.req \in Req /\ ~Out(tmo.req) /\ (rq[tmo.req].st = "started" \/ Dead(QueueOf[tmo.req]))
    BY DEF Inv, RqInv, TmoInv
  <2>2. Dead(QueueOf[tmo.req])' = Dead(QueueOf[tmo.req])
    BY <1>1, <1>2, <2>1 DEF Dead
  <2>3. CASE tmo.req # r
    BY <1>1, <1>4, <2>1, <2>2, <2>3
  <2>4. CASE tmo.req = r
    <3>1. ~Sent
      BY <2>1, <2>4 DEF Dead, Ready
    <3>. QED BY <1>1, <2>1, <2>2, <2>4, <3>1
  <2>. QED BY <2>3, <2>4
<1>. QED BY <1>5, <1>6, <1>9, <1>10, <1>11 DEF RqInv

-----------------------------------------------------------------------------
(* The timeout handler.                                                     *)

\* A timeout in LIVE only queues error recovery.
LEMMA TimeoutLiveKeeps == ASSUME Inv, NEW r \in Req, TimeoutLive(r) PROVE RqInv'
<1>1. /\ UNCHANGED <<q, rq, quiesced, freeze, armed, tmo, qi>>
      /\ ctrl = "LIVE" /\ ctrl' = "RESETTING" /\ pc' = [pc EXCEPT !["err"] = "queued"]
  BY DEF TimeoutLive, ioVars
<1>2. \A w \in Worker : pc[w] \in Done
  BY <1>1, LiveIsIdle DEF Inv
<1>3. pc \in [Worker -> Steps]
  BY DEF Inv, CtlInv, PcOK
<1>4. \A w \in Worker : pc'[w] \in Done \cup {"queued"} /\ (w # "err" => pc'[w] # "queued")
  BY <1>1, <1>2, <1>3
<1>5. OutInv' /\ UpInv'
  BY <1>1 DEF Inv, RqInv, OutInv, Out, UpInv, Stopping
<1>6. WaitInv' /\ \A w \in Worker : PhaseInv(w)'
  BY <1>4 DEF WaitInv, PhaseInv
<1>7. TmoInv'
  BY <1>1 DEF Inv, RqInv, TmoInv, Out, Dead
<1>. QED BY <1>5, <1>6, <1>7 DEF RqInv

\* The handler clears the LIVE bit: what is outstanding on the queue is now its to
\* stop, and if the bit was clear nothing is.
LEMMA TimeoutBeginKeeps == ASSUME Inv, NEW r \in Req, TimeoutBegin(r) PROVE RqInv'
<1>. DEFINE k == QueueOf[r]
<1>0. k \in IoQ /\ k \in Queue /\ (\A i \in IoQ : i \in Queue) /\ q \in [Queue -> QType]
      /\ \A s \in Req : QueueOf[s] \in Queue
  BY NvmqConstants, SMT DEF IoQ, Queue, Inv, TypeInv, QueuesOK
<1>1. /\ UNCHANGED <<rq, quiesced, armed, ctrl, pc, qi>>
      /\ rq[r].st = "started" /\ armed /\ tmo = IdleTmo /\ ctrl # "LIVE"
      /\ tmo' = [req |-> r, stop |-> q[k].live]
      /\ q' = [q EXCEPT ![k].live = FALSE]
  BY DEF TimeoutBegin, ctlVars
<1>2. \A i \in Queue : q'[i].hw = q[i].hw /\ (q'[i].live <=> q[i].live /\ i # k)
  BY <1>0, <1>1 DEF QType
<1>3. \A i : ~Stopping(i) /\ (Stopping(i)' <=> q[k].live /\ i = k)
  BY <1>1 DEF Stopping, IdleTmo
<1>4. \A s : Out(s)' = Out(s)
  BY <1>1 DEF Out
<1>5. OutInv' /\ UpInv'
  BY <1>0, <1>1, <1>2, <1>3, <1>4 DEF Inv, RqInv, OutInv, UpInv
<1>6. NotLive => NotLive'
  BY <1>0, <1>2 DEF NotLive
<1>7. NoneStarted' = NoneStarted /\ ~NoneStarted
  BY <1>1 DEF NoneStarted
<1>8. WaitInv'
  BY <1>1, <1>7 DEF Inv, RqInv, WaitInv
<1>9. ASSUME NEW w \in Worker PROVE PhaseInv(w)'
  <2>1. PhaseInv(w)
    BY DEF Inv, RqInv
  <2>2. pc[w] \notin {"stop"} \cup DownPc
    BY <1>1, <1>7, <2>1 DEF PhaseInv
  <2>3. pc[w] # "cancel"
    BY <1>1, <2>1 DEF PhaseInv
  <2>4. \A i \in IoQ : RunsLive(i) => RunsLive(i)'
    BY <1>0, <1>2, <1>3 DEF RunsLive
  <2>5. \A i \in IoQ : ~q[i].live => ~q'[i].live
    BY <1>0, <1>2
  <2>. QED BY <1>1, <1>6, <2>1, <2>2, <2>3, <2>4, <2>5 DEF PhaseInv
<1>10. TmoInv'
  <2>1. q[k].live \/ ~Out(r)
    BY <1>3 DEF Inv, RqInv, OutInv
  <2>. QED BY <1>1, <1>4, <2>1 DEF TmoInv
<1>. QED BY <1>5, <1>8, <1>9, <1>10 DEF RqInv

\* The handler stops the queue it marked and completes its request.
LEMMA TimeoutEndKeeps == ASSUME Inv, TimeoutEnd PROVE RqInv'
<1>. DEFINE Q == IF tmo.stop THEN {QueueOf[tmo.req]} ELSE {}
<1>0. (\A i \in IoQ : i \in Queue) /\ QueuesOK(q) /\ RequestsOK(rq)
      /\ \A s \in Req : QueueOf[s] \in Queue /\ QueueOf[s] \in IoQ
  BY NvmqConstants, SMT DEF IoQ, Queue, Inv, TypeInv
<1>1. /\ UNCHANGED <<quiesced, armed, ctrl, pc, qi>> /\ tmo # IdleTmo /\ tmo' = IdleTmo
      /\ q' = HwStop(Q, q)
  BY DEF TimeoutEnd, ctlVars
<1>2. PICK cb \in SUBSET Sending(Q) :
         rq' = [Aborted(Q, rq, cb) EXCEPT ![tmo.req] =
                   IF @.st = "started" THEN [@ EXCEPT !.st = "completing"] ELSE @]
  BY DEF TimeoutEnd
<1>3. tmo.req \in Req
  BY <1>1 DEF Inv, RqInv, TmoInv
<1>4. \A i \in Queue : /\ q'[i].live = q[i].live
                       /\ q'[i].hw = "run" <=> q[i].hw = "run" /\ i \notin Q
  BY <1>0, <1>1, HwStopIs, SMT
<1>5. ASSUME NEW s \in Req
      PROVE  /\ rq'[s].st = "started" => rq[s].st = "started" /\ s # tmo.req
             /\ Out(s)' => /\ Out(s) /\ QueueOf[s] \notin Q
                           /\ s # tmo.req => rq'[s].st = rq[s].st
  <2>. DEFINE ab == Aborted(Q, rq, cb)
  <2>1. /\ ab[s].st = "started" => rq[s].st = "started"
        /\ ab[s].h2c \/ ab[s].dev => QueueOf[s] \notin Q /\ ab[s] = rq[s]
    BY <1>0, AbortedIs, SMT
  <2>2. ab \in [Req -> RqType]
    BY <1>0, AbortedOK DEF RequestsOK
  <2>3. rq' = [ab EXCEPT ![tmo.req] =
                 IF ab[tmo.req].st = "started" THEN [ab[tmo.req] EXCEPT !.st = "completing"]
                 ELSE ab[tmo.req]]
    BY <1>2
  <2>. HIDE DEF ab
  <2>4. s # tmo.req => rq'[s] = ab[s]
    BY <2>2, <2>3
  <2>5. s = tmo.req => /\ rq'[s].st # "started"
                       /\ rq'[s].h2c = ab[s].h2c /\ rq'[s].dev = ab[s].dev
    BY <2>2, <2>3 DEF RqType
  <2>. QED BY <2>1, <2>4, <2>5 DEF Out
<1>6. \A i : ~Stopping(i)' /\ (Stopping(i) => i \in Q)
  BY <1>1 DEF Stopping, IdleTmo
<1>. HIDE DEF Q
<1>7. OutInv'
  <2>. SUFFICES ASSUME NEW s \in Req, Out(s)'
                PROVE  rq'[s].st = "started" /\ q'[QueueOf[s]].hw = "run" /\ q'[QueueOf[s]].live
    BY DEF OutInv
  <2>1. Out(s) /\ QueueOf[s] \notin Q /\ (s # tmo.req => rq'[s].st = rq[s].st)
    BY <1>5
  <2>2. rq[s].st = "started" /\ q[QueueOf[s]].hw = "run" /\ q[QueueOf[s]].live
    BY <1>6, <2>1 DEF Inv, RqInv, OutInv
  <2>3. s # tmo.req
    BY <1>1, <2>1 DEF Inv, RqInv, TmoInv, Q
  <2>. QED BY <1>0, <1>4, <2>1, <2>2, <2>3
<1>8. ASSUME NEW i \in IoQ PROVE q'[i].live = q[i].live /\ (RunsLive(i) => RunsLive(i)')
  <2>1. i \in Queue
    BY <1>0
  <2>2. /\ q'[i].live = q[i].live
        /\ q'[i].hw = "run" => q[i].hw = "run" /\ i \notin Q
    BY <1>4, <2>1
  <2>3. i \notin Q => ~Stopping(i)
    BY <1>6
  <2>. QED BY <2>2, <2>3 DEF RunsLive
<1>9. UpInv'
  BY <1>1, <1>8 DEF Inv, RqInv, UpInv
<1>10. (NotLive => NotLive') /\ (NoneStarted => NoneStarted')
  BY <1>5, <1>8 DEF NotLive, NoneStarted
<1>11. WaitInv'
  BY <1>1, <1>10 DEF Inv, RqInv, WaitInv
<1>12. ASSUME NEW w \in Worker PROVE PhaseInv(w)'
  <2>1. PhaseInv(w)
    BY DEF Inv, RqInv
  <2>. QED BY <1>1, <1>5, <1>8, <1>10, <2>1 DEF PhaseInv
<1>13. TmoInv'
  BY <1>1 DEF TmoInv
<1>. QED BY <1>7, <1>9, <1>11, <1>12, <1>13 DEF RqInv

-----------------------------------------------------------------------------
(* Work items.                                                              *)

\* The begin and the end of a work item leave the queues and the requests alone: a
\* setup begins only when no timeout handler is under way, and a reconnect is
\* queued only behind a teardown.
LEMMA ScheduledKeeps == ASSUME Inv, Scheduled \/ UserStep PROVE RqInv'
<1>. DEFINE Keep == WaitInv' /\ (\A w \in Worker : PhaseInv(w)')
            Began == tmo = IdleTmo \/ \A w \in Worker : pc'[w] \in StartPc => pc[w] \in StartPc
<1>0. /\ UNCHANGED <<q, rq, quiesced, armed, tmo, qi>> /\ (ctrl' = "LIVE" => ctrl = "LIVE")
  <2>1. CASE Scheduled
    BY <2>1
       DEF Scheduled, CreateCtrl, CreateDone, ErrorRecoveryWork, ErrorRecoveryConnect,
           ReconnectCtrlWork, ReconnectDone, ReconnectFailed, ResetCtrlWork, ResetConnect, ResetDone,
           ResetFailed, DeleteCtrlWork, DeleteDrained, DeleteGone, ioVars, ReconnectOrRemove
  <2>2. CASE UserStep
    BY <2>2 DEF UserStep, ResetCtrl, DeleteCtrl, ioVars
  <2>. QED BY <2>1, <2>2
<1>1. OutInv' /\ UpInv'
  BY <1>0 DEF Inv, RqInv, OutInv, Out, UpInv, Stopping, RunsLive
<1>2. NotLive' = NotLive /\ NoneStarted' = NoneStarted /\ \A i : RunsLive(i)' = RunsLive(i)
  BY <1>0 DEF NotLive, NoneStarted, RunsLive, Stopping
<1>3. ASSUME NEW w \in Worker, pc'[w] = pc[w] PROVE PhaseInv(w)'
  BY <1>0, <1>2, <1>3 DEF Inv, RqInv, PhaseInv
<1>4. ASSUME NEW w \in Worker, pc'[w] \notin BusyPc \ {"freeze"} PROVE PhaseInv(w)'
  BY <1>4, NoPhase
<1>5. ASSUME NEW w \in Worker, pc'[w] = "su_admin", NotLive, NoneStarted, tmo = IdleTmo
      PROVE  PhaseInv(w)'
  BY <1>0, <1>2, <1>5 DEF PhaseInv
<1>6. ASSUME NEW w \in Worker, pc[w] \in DownPc PROVE NotLive /\ NoneStarted
  BY <1>6 DEF Inv, RqInv, PhaseInv
<1>7. /\ pc["reconnect"] \in {"queued", "su_again"} => NotLive /\ NoneStarted
      /\ pc["create"] = "queued" => NotLive /\ NoneStarted
      /\ WaitInv
  BY DEF Inv, RqInv, WaitInv
<1>8. pc \in [Worker -> Steps]
  BY DEF Inv, CtlInv, PcOK
<1>. USE DEF Step, Goto
<1>9. ASSUME CreateCtrl PROVE Keep /\ Began
  <2>1. pc["create"] = "queued" /\ pc' = [pc EXCEPT !["create"] = "su_admin"]
    BY <1>9 DEF CreateCtrl
  <2>2. tmo = IdleTmo
    BY <2>1 DEF Inv, CtlInv, Creating
  <2>. QED BY <1>2, <1>3, <1>5, <1>7, <1>8, <2>1, <2>2 DEF WaitInv
<1>10. ASSUME ReconnectCtrlWork PROVE Keep /\ Began
  <2>1. pc["reconnect"] = "queued" /\ pc' = [pc EXCEPT !["reconnect"] = "su_admin"] /\ tmo = IdleTmo
    BY <1>10 DEF ReconnectCtrlWork
  <2>. QED BY <1>2, <1>3, <1>5, <1>7, <1>8, <2>1 DEF WaitInv
<1>11. ASSUME ResetConnect PROVE Keep /\ Began
  <2>1. /\ pc["reset"] = "connecting"
        /\ \E s \in {"su_admin", "idle"} : pc' = [pc EXCEPT !["reset"] = s]
    BY <1>11 DEF ResetConnect
  <2>2. NotLive /\ NoneStarted /\ tmo = IdleTmo
    BY <1>6, <2>1 DEF Inv, RqInv, PhaseInv
  <2>. QED BY <1>2, <1>3, <1>4, <1>5, <1>7, <1>8, <2>1, <2>2 DEF WaitInv
<1>12. ASSUME ErrorRecoveryConnect \/ ReconnectFailed \/ ResetFailed PROVE Keep /\ Began
  <2>1. PICK w \in Worker : /\ pc[w] \in {"connecting", "su_failed"}
                            /\ \/ pc' = [pc EXCEPT ![w] = "idle"]
                               \/ pc' = [pc EXCEPT ![w] = "idle", !["reconnect"] = Again]
                               \/ pc' = [pc EXCEPT ![w] = "idle", !["delete"] = "queued"]
    BY <1>12 DEF ErrorRecoveryConnect, ReconnectFailed, ResetFailed, ReconnectOrRemove
  <2>2. NotLive /\ NoneStarted
    BY <1>6, <2>1
  <2>3. \A v \in Worker : pc'[v] = pc[v] \/ pc'[v] \in {"idle", "queued", "su_again"}
    BY <1>8, <2>1 DEF Again
  <2>. QED BY <1>2, <1>3, <1>4, <2>2, <2>3 DEF WaitInv
<1>13. ASSUME ResetCtrlWork \/ DeleteCtrlWork PROVE Keep /\ Began
  <2>1. \E w \in {"reset", "delete"}, s \in {"freeze", "drain"} :
           pc' = [pc EXCEPT !["err"] = "idle", !["reconnect"] = "idle", ![w] = s]
    BY <1>13 DEF ResetCtrlWork, DeleteCtrlWork, StopCtrl
  <2>2. /\ \A v \in Worker : pc'[v] = pc[v] \/ pc'[v] \in {"idle", "freeze", "drain"}
        /\ pc'["reconnect"] = "idle" /\ pc'["create"] = pc["create"]
    BY <1>8, <2>1
  <2>. QED BY <1>2, <1>3, <1>4, <1>7, <2>2 DEF WaitInv
<1>14. ASSUME \/ CreateDone \/ ErrorRecoveryWork \/ ReconnectDone \/ ResetDone \/ DeleteDrained
              \/ DeleteGone \/ UserStep
       PROVE  Keep /\ Began
  <2>1. \/ \E w \in Worker \ {"reconnect"}, s \in {"idle", "freeze"} : pc' = [pc EXCEPT ![w] = s]
        \/ \E w \in {"reset", "delete"} : pc' = [pc EXCEPT ![w] = "queued"]
        \/ pc' = [pc EXCEPT !["reconnect"] = "idle"]
        \/ pc["reconnect"] = "su_again" /\ pc' = [pc EXCEPT !["reconnect"] = "queued"]
    BY <1>14 DEF CreateDone, ErrorRecoveryWork, ReconnectDone, ResetDone, DeleteDrained, DeleteGone,
                 UserStep, ResetCtrl, DeleteCtrl
  <2>2. /\ \A v \in Worker : pc'[v] = pc[v] \/ pc'[v] \in {"idle", "freeze", "queued"}
        /\ pc'["create"] = "queued" => pc["create"] = "queued"
        /\ pc'["reconnect"] \in {"queued", "su_again"} => pc["reconnect"] \in {"queued", "su_again"}
    BY <1>8, <2>1
  <2>. QED BY <1>2, <1>3, <1>4, <1>7, <2>2 DEF WaitInv
<1>15. Keep /\ Began
  BY <1>9, <1>10, <1>11, <1>12, <1>13, <1>14 DEF Scheduled
<1>16. TmoInv'
  <2>1. \A i : tmo # IdleTmo /\ Dead(i) => Dead(i)'
    BY <1>0, <1>15 DEF Dead
  <2>. QED BY <1>0, <2>1 DEF Inv, RqInv, TmoInv, Out
<1>. QED BY <1>1, <1>15, <1>16 DEF RqInv

\* What a step of work item w, which is alone, has to show.
WorkOK(w, b) ==
    /\ pc[w] \in BusyPc /\ b \in BusyPc \cup {"su_done"} /\ pc' = [pc EXCEPT ![w] = b]
    /\ tmo' = tmo /\ (b \in StartPc => pc[w] \in StartPc) /\ (ctrl' = ctrl \/ pc[w] = "su_live")
    /\ \A s \in Req : /\ Out(s)' => Out(s)
                      /\ rq[s].st = "started" /\ ~Out(s) =>
                            rq'[s].st = "started" \/ pc[w] \in {"cancel", "su_cancel"}
    /\ \A i \in IoQ : q'[i].live => q[i].live \/ pc[w] = "su_start"
    /\ OutInv' /\ UpInv' /\ PhaseInv(w)'

\* It then preserves RqInv.
LEMMA WorkFrame ==
    ASSUME Inv, NEW w \in Worker, NEW b, WorkOK(w, b)
    PROVE  RqInv'
<1>. USE DEF WorkOK
<1>1. /\ ctrl \notin {"LIVE", "NEW", "GONE"}
      /\ \A v \in Worker : v # w => pc[v] \notin BusyPc
      /\ pc["reconnect"] \notin {"queued", "su_again"} /\ pc["create"] # "queued"
  BY Alone, SMT DEF Inv
<1>2. pc \in [Worker -> Steps]
  BY DEF Inv, CtlInv, PcOK
<1>3. pc'[w] = b /\ \A v \in Worker : v # w => pc'[v] = pc[v]
  BY <1>2
<1>4. WaitInv'
  BY <1>1, <1>3 DEF WaitInv
<1>5. \A v \in Worker : PhaseInv(v)'
  <2>1. ASSUME NEW v \in Worker, v # w PROVE PhaseInv(v)'
    <3>1. pc'[v] \notin BusyPc
      BY <1>1, <1>3, <2>1
    <3>. QED BY <3>1, NoPhase
  <2>. QED BY <2>1
<1>6. TmoInv'
  <2>. SUFFICES ASSUME tmo # IdleTmo, ~tmo.stop
                PROVE  ~Out(tmo.req)' /\ (rq'[tmo.req].st = "started" \/ Dead(QueueOf[tmo.req])')
    BY DEF Inv, RqInv, TmoInv
  <2>1. tmo.req \in Req /\ ~Out(tmo.req) /\ (rq[tmo.req].st = "started" \/ Dead(QueueOf[tmo.req]))
    BY DEF Inv, RqInv, TmoInv
  <2>2. QueueOf[tmo.req] \in IoQ
    BY <2>1, NvmqConstants DEF IoQ
  <2>3. ASSUME Dead(QueueOf[tmo.req]) PROVE Dead(QueueOf[tmo.req])'
    BY <1>1, <1>3, <2>2, <2>3 DEF Dead
  <2>4. ASSUME pc[w] \in {"cancel", "su_cancel"} PROVE Dead(QueueOf[tmo.req])'
    <3>1. NotLive
      BY <2>4 DEF Inv, RqInv, PhaseInv
    <3>. QED BY <1>1, <1>3, <2>2, <2>4, <3>1, SMT DEF Dead, NotLive
  <2>. QED BY <2>1, <2>3, <2>4
<1>. QED BY <1>4, <1>5, <1>6 DEF RqInv

\* Stopping or freeing the LIVE queues keeps OutInv.
LEMMA OutAborts ==
    ASSUME Inv, NEW Q, NEW cb \in SUBSET Sending(Q), rq' = Aborted(Q, rq, cb), tmo' = tmo,
           \A i \in IoQ \ Q : ~q[i].live
    PROVE  /\ OutInv'
           /\ \A s \in Req : /\ Out(s)' => Out(s)
                             /\ rq'[s].st = "started" => rq[s].st = "started"
                             /\ rq[s].st = "started" /\ ~Out(s) => rq'[s].st = "started"
<1>1. ASSUME NEW s \in Req
      PROVE  /\ rq'[s].st = "started" => rq[s].st = "started"
             /\ ~rq[s].h2c => rq'[s].st = rq[s].st
             /\ Out(s)' => QueueOf[s] \notin Q /\ rq'[s] = rq[s]
  BY AbortedIs, SMT DEF Out, Inv, TypeInv
<1>2. \A s \in Req : QueueOf[s] \in IoQ
  BY NvmqConstants DEF IoQ
<1>3. ASSUME NEW s \in Req, Out(s)' PROVE Out(s) /\ Stopping(QueueOf[s])'
  <2>1. Out(s)
    BY <1>1, <1>3 DEF Out
  <2>. QED BY <1>1, <1>2, <1>3, <2>1 DEF Inv, RqInv, OutInv, Stopping
<1>. QED BY <1>1, <1>3 DEF OutInv, Out

\* A step of nvme_qdma_teardown_io_queues, or of the error path of a setup.
LEMMA TeardownKeeps == ASSUME Inv, NEW w \in Worker, TeardownStep(w) PROVE RqInv'
<1>. USE DEF Step, Goto
<1>0. PhaseInv(w) /\ OutInv /\ pc \in [Worker -> Steps]
  BY DEF Inv, RqInv, CtlInv, PcOK
<1>q. QueuesOK(q) /\ RequestsOK(rq)
  BY DEF Inv, TypeInv
<1>i. (\A i \in IoQ : i \in Queue /\ i # 0) /\ (\A s \in Req : QueueOf[s] \in IoQ)
  BY NvmqConstants, SMT DEF IoQ, Queue
<1>1. pc[w] \in BusyPc => ctrl # "LIVE"
  BY Alone DEF Inv
<1>2. CASE TeardownFreeze(w)
  <2>1. /\ pc[w] = "freeze" /\ pc' = [pc EXCEPT ![w] = "sync"]
        /\ UNCHANGED <<q, rq, tmo, ctrl>> /\ quiesced' = TRUE
    BY <1>2 DEF TeardownFreeze
  <2>2. PhaseInv(w)'
    BY <1>0, <2>1 DEF PhaseInv
  <2>3. OutInv' /\ UpInv' /\ \A s \in Req : Out(s)' = Out(s)
    BY <1>0, <1>1, <2>1 DEF OutInv, UpInv, Out, Stopping
  <2>9. WorkOK(w, "sync")
    BY <2>1, <2>2, <2>3 DEF WorkOK
  <2>. QED BY <2>9, WorkFrame
<1>3. CASE SyncIoQueues(w)
  <2>1. /\ UNCHANGED <<q, rq, tmo, ctrl, quiesced>> /\ armed' = FALSE /\ tmo = IdleTmo
        /\ \/ pc[w] = "sync" /\ pc' = [pc EXCEPT ![w] = "stop"]
           \/ pc[w] = "su_sync" /\ pc' = [pc EXCEPT ![w] = "su_stop"]
    BY <1>3 DEF SyncIoQueues
  <2>2. PhaseInv(w)'
    BY <1>0, <2>1 DEF PhaseInv
  <2>3. OutInv' /\ UpInv' /\ \A s \in Req : Out(s)' = Out(s)
    BY <1>0, <1>1, <2>1 DEF OutInv, UpInv, Out, Stopping
  <2>9. WorkOK(w, "stop") \/ WorkOK(w, "su_stop")
    BY <2>1, <2>2, <2>3 DEF WorkOK
  <2>. QED BY <2>9, WorkFrame
<1>4. CASE StopIoQueues(w)
  <2>1. /\ UNCHANGED <<tmo, ctrl, armed, quiesced>> /\ q' = StopQueue(IoQ, q)
        /\ \/ pc[w] = "stop" /\ pc' = [pc EXCEPT ![w] = "cancel"]
           \/ pc[w] = "su_stop" /\ pc' = [pc EXCEPT ![w] = "su_cancel"]
    BY <1>4 DEF StopIoQueues
  <2>2. PICK cb \in SUBSET Sending(LiveOf(IoQ, q)) : rq' = Aborted(LiveOf(IoQ, q), rq, cb)
    BY <1>4 DEF StopIoQueues
  <2>3. \A i \in IoQ \ LiveOf(IoQ, q) : ~q[i].live
    BY DEF LiveOf
  <2>4. /\ OutInv'
        /\ \A s \in Req : /\ Out(s)' => Out(s)
                          /\ rq[s].st = "started" /\ ~Out(s) => rq'[s].st = "started"
    BY <2>1, <2>2, <2>3, OutAborts
  <2>5. NotLive'
    BY <1>q, <1>i, <2>1, StopQueueIs DEF NotLive
  <2>6. PhaseInv(w)' /\ UpInv'
    BY <1>0, <1>1, <2>1, <2>5 DEF PhaseInv, UpInv
  <2>7. \A i \in IoQ : q'[i].live => q[i].live
    BY <2>5 DEF NotLive
  <2>9. WorkOK(w, "cancel") \/ WorkOK(w, "su_cancel")
    BY <2>1, <2>4, <2>6, <2>7 DEF WorkOK
  <2>. QED BY <2>9, WorkFrame
<1>5. CASE CancelTagset(w)
  <2>1. /\ UNCHANGED <<q, tmo, ctrl, armed, quiesced>> /\ rq' = Cancelled(rq)
        /\ \/ pc[w] = "cancel" /\ pc' = [pc EXCEPT ![w] = "free"]
           \/ pc[w] = "su_cancel" /\ pc' = [pc EXCEPT ![w] = "su_free"]
    BY <1>5 DEF CancelTagset
  <2>2. \A s \in Req : rq'[s].st # "started" /\ Out(s)' = Out(s)
    BY <1>q, <2>1, CancelledIs DEF Out
  <2>3. NotLive /\ NotLive' /\ NoneStarted'
    BY <1>0, <2>1, <2>2 DEF PhaseInv, NotLive, NoneStarted
  <2>4. OutInv' /\ UpInv'
    BY <1>0, <1>i, <1>1, <2>1, <2>2, <2>3 DEF OutInv, UpInv, Stopping, NotLive
  <2>5. PhaseInv(w)'
    BY <1>0, <2>1, <2>3 DEF PhaseInv
  <2>9. WorkOK(w, "free") \/ WorkOK(w, "su_free")
    BY <2>1, <2>2, <2>4, <2>5 DEF WorkOK
  <2>. QED BY <2>9, WorkFrame
<1>6. CASE TeardownFree(w)
  <2>1. /\ UNCHANGED <<tmo, ctrl, armed>> /\ q' = FreeQueue(Queue, StopQueue({0}, q))
        /\ pc[w] = "free" /\ \E b \in {"gone", "connecting"} : pc' = [pc EXCEPT ![w] = b]
    BY <1>6 DEF TeardownFree
  <2>2. PICK cb \in SUBSET Sending(Freeing(IoQ, q)) : rq' = Aborted(Freeing(IoQ, q), rq, cb)
    BY <1>6 DEF TeardownFree
  <2>3. NotLive /\ NoneStarted
    BY <1>0, <2>1 DEF PhaseInv
  <2>4. /\ OutInv'
        /\ \A s \in Req : /\ Out(s)' => Out(s)
                          /\ rq'[s].st = "started" => rq[s].st = "started"
                          /\ rq[s].st = "started" /\ ~Out(s) => rq'[s].st = "started"
    <3>1. \A i \in IoQ \ Freeing(IoQ, q) : ~q[i].live
      BY <2>3 DEF NotLive
    <3>. QED BY <2>1, <2>2, <3>1, OutAborts
  <2>5. NotLive' /\ NoneStarted'
    <3>1. NotLive'
      BY <1>q, <2>1, <2>3, DownStaysDown
    <3>. QED BY <2>3, <2>4, <3>1 DEF NoneStarted
  <2>6. PhaseInv(w)' /\ UpInv'
    BY <1>0, <1>1, <2>1, <2>5 DEF PhaseInv, UpInv
  <2>7. \A i \in IoQ : q'[i].live => q[i].live
    BY <2>5 DEF NotLive
  <2>9. WorkOK(w, "gone") \/ WorkOK(w, "connecting")
    BY <2>1, <2>4, <2>6, <2>7 DEF WorkOK
  <2>. QED BY <2>9, WorkFrame
<1>. QED BY <1>2, <1>3, <1>4, <1>5, <1>6 DEF TeardownStep

\* A step of nvme_qdma_setup_ctrl.
LEMMA SetupKeeps == ASSUME Inv, NEW w \in Worker, SetupStep(w) PROVE RqInv'
<1>. USE DEF Step, Goto
<1>0. PhaseInv(w) /\ OutInv /\ pc \in [Worker -> Steps]
  BY DEF Inv, RqInv, CtlInv, PcOK
<1>q. QueuesOK(q) /\ RequestsOK(rq)
  BY DEF Inv, TypeInv
<1>i. (\A i \in IoQ : i \in Queue /\ i # 0) /\ (\A s \in Req : QueueOf[s] \in IoQ)
  BY NvmqConstants, SMT DEF IoQ, Queue
<1>n. IoQ = 1..NQ /\ NQ \in Nat /\ qi \in [Worker -> 0..(NQ + 1)]
  BY NvmqConstants DEF Inv, TypeInv, IoQ
<1>1. pc[w] \in BusyPc => ctrl # "LIVE"
  BY Alone DEF Inv
<1>2. CASE SyncIoQueues(w) \/ StopIoQueues(w) \/ CancelTagset(w)
  BY <1>2, TeardownKeeps DEF TeardownStep
<1>3. CASE SetupAdmin(w)
  <2>1. /\ UNCHANGED <<rq, tmo, ctrl>> /\ pc[w] = "su_admin"
        /\ \E b \in {"su_alloc", "su_failed"} : pc' = [pc EXCEPT ![w] = b]
        /\ q' = [AllocQueue({0}, q) EXCEPT ![0].live = TRUE] \/ q' = [q EXCEPT ![0] = NoQueue]
    BY <1>3 DEF SetupAdmin
  <2>2. \A i \in IoQ : q'[i] = q[i]
    <3>1. \A i \in IoQ : AllocQueue({0}, q)[i] = q[i]
      BY <1>i DEF AllocQueue
    <3>2. DOMAIN AllocQueue({0}, q) = Queue /\ DOMAIN q = Queue
      BY <1>q DEF AllocQueue, QueuesOK
    <3>. QED BY <1>i, <2>1, <3>1, <3>2
  <2>3. OutInv' /\ UpInv' /\ \A s \in Req : Out(s)' = Out(s)
    BY <1>0, <1>i, <1>1, <2>1, <2>2, SMT DEF OutInv, UpInv, Out, Stopping
  <2>4. PhaseInv(w)'
    BY <1>0, <2>1, <2>2 DEF PhaseInv, NotLive, NoneStarted
  <2>9. WorkOK(w, "su_alloc") \/ WorkOK(w, "su_failed")
    BY <2>1, <2>2, <2>3, <2>4 DEF WorkOK
  <2>. QED BY <2>9, WorkFrame
<1>4. CASE SetupAllocIo(w)
  <2>1. /\ UNCHANGED <<rq, tmo, ctrl>> /\ pc[w] = "su_alloc"
        /\ \/ /\ pc' = [pc EXCEPT ![w] = "su_start"] /\ qi' = [qi EXCEPT ![w] = 1]
              /\ q' = AllocQueue(IoQ, q)
           \/ /\ pc' = [pc EXCEPT ![w] = "su_admin_down"] /\ qi' = qi
              /\ \E F, A : q' = FreeQueue(F, AllocQueue(A, q))
    BY <1>4 DEF SetupAllocIo
  <2>2. NotLive /\ NoneStarted
    BY <1>0, <2>1 DEF PhaseInv
  <2>3. \A i \in IoQ : ~q'[i].live
    <3>1. NotLive'
      BY <1>q, <2>1, <2>2, DownStaysDown
    <3>. QED BY <3>1 DEF NotLive
  <2>4. OutInv' /\ UpInv' /\ \A s \in Req : Out(s)' = Out(s)
    BY <1>0, <1>i, <1>1, <2>1, <2>2 DEF OutInv, UpInv, Out, Stopping, NotLive
  <2>5. PhaseInv(w)'
    <3>1. /\ \/ pc'[w] = "su_start" /\ qi'[w] = 1
             \/ pc'[w] = "su_admin_down"
          /\ \A s \in Req : rq'[s].st # "started"
      BY <1>0, <1>n, <2>1, <2>2 DEF NoneStarted
    <3>2. \A i \in IoQ : i >= 1
      BY <1>n, SMT
    <3>. QED BY <2>3, <3>1, <3>2 DEF PhaseInv, NotLive, NoneStarted
  <2>9. WorkOK(w, "su_start") \/ WorkOK(w, "su_admin_down")
    BY <2>1, <2>3, <2>4, <2>5 DEF WorkOK
  <2>. QED BY <2>9, WorkFrame
<1>5. CASE SetupStartQueue(w) /\ UNCHANGED pc
  <2>1. /\ UNCHANGED <<rq, tmo, ctrl, pc>> /\ pc[w] = "su_start" /\ qi[w] \in IoQ
        /\ q' = [q EXCEPT ![qi[w]].live = TRUE] /\ qi' = [qi EXCEPT ![w] = qi[w] + 1]
    BY <1>0, <1>n, <1>5 DEF SetupStartQueue
  <2>2. \A i \in IoQ : q'[i].hw = q[i].hw /\ (q'[i].live <=> q[i].live \/ i = qi[w])
    BY <1>q, <1>i, <2>1 DEF QueuesOK, QType
  <2>3. OutInv' /\ UpInv' /\ \A s \in Req : Out(s)' = Out(s)
    BY <1>0, <1>i, <1>1, <2>1, <2>2 DEF OutInv, UpInv, Out, Stopping
  <2>4. qi'[w] = qi[w] + 1 /\ qi[w] \in Int
    BY <1>n, <2>1, SMT
  <2>5. \A i \in IoQ : IF i >= qi'[w] THEN ~q'[i].live ELSE RunsLive(i)'
    BY <1>0, <1>n, <2>1, <2>2, <2>4, SMT DEF PhaseInv, RunsLive, Stopping
  <2>6. \A s \in Req : QueueOf[s] >= qi'[w] => rq'[s].st # "started"
    BY <1>0, <1>n, <1>i, <2>1, <2>4, SMT DEF PhaseInv
  <2>7. PhaseInv(w)'
    BY <2>1, <2>5, <2>6 DEF PhaseInv
  <2>8. pc' = [pc EXCEPT ![w] = "su_start"]
    BY <1>0, <2>1
  <2>9. WorkOK(w, "su_start")
    BY <2>1, <2>2, <2>3, <2>7, <2>8 DEF WorkOK
  <2>. QED BY <2>9, WorkFrame
<1>6. CASE SetupStartQueue(w) /\ pc' = [pc EXCEPT ![w] = "su_cancel"]
  <2>. DEFINE k == qi[w]
              Q == {k} \cup LiveOf(1..(k - 1), q)
  <2>1. /\ UNCHANGED <<tmo, ctrl>> /\ pc[w] = "su_start" /\ k \in IoQ
        /\ q' = HwStop({k}, StopQueue(1..(k - 1), q))
    BY <1>0, <1>n, <1>6 DEF SetupStartQueue
  <2>2. PICK cb \in SUBSET Sending(Q) : rq' = Aborted(Q, rq, cb)
    BY <1>0, <1>n, <1>6 DEF SetupStartQueue
  <2>3. \A i \in IoQ : i >= k => ~q[i].live
    BY <1>0, <2>1 DEF PhaseInv
  <2>4. \A i \in IoQ \ Q : ~q[i].live
    BY <1>n, <2>1, <2>3, SMT DEF LiveOf
  <2>. HIDE DEF Q
  <2>5. /\ OutInv'
        /\ \A s \in Req : /\ Out(s)' => Out(s)
                          /\ rq[s].st = "started" /\ ~Out(s) => rq'[s].st = "started"
    BY <2>1, <2>2, <2>4, OutAborts
  <2>6. \A i \in IoQ : ~q'[i].live
    <3>. DEFINE L == 1..(k - 1)
    <3>1. q' = HwStop({k}, StopQueue(L, q))
      BY <2>1
    <3>2. \A i \in IoQ : i \in L \/ i >= k
      BY <1>n, <2>1, SMT
    <3>. HIDE DEF L, k
    <3>3. QueuesOK(StopQueue(L, q))
      BY <1>q, QueueOpsOK
    <3>4. ASSUME NEW i \in IoQ PROVE q'[i].live => q[i].live /\ i \notin L
      <4>1. i \in Queue
        BY <1>i
      <4>2. q'[i].live = StopQueue(L, q)[i].live
        BY <3>1, <3>3, <4>1, HwStopIs, SMT
      <4>3. StopQueue(L, q)[i].live => q[i].live /\ i \notin L
        BY <1>q, <4>1, StopQueueIs
      <4>. QED BY <4>2, <4>3
    <3>. QED BY <2>3, <3>2, <3>4
  <2>7. PhaseInv(w)' /\ UpInv'
    BY <1>0, <1>1, <1>6, <2>1, <2>6 DEF PhaseInv, UpInv, NotLive
  <2>9. WorkOK(w, "su_cancel")
    BY <1>6, <2>1, <2>5, <2>6, <2>7 DEF WorkOK
  <2>. QED BY <2>9, WorkFrame
<1>7. CASE SetupStarted(w)
  <2>1. /\ UNCHANGED <<q, rq, tmo, ctrl>> /\ pc[w] = "su_start" /\ qi[w] = NQ + 1
        /\ \E b \in {"su_live", "su_wait"} : pc' = [pc EXCEPT ![w] = b]
    BY <1>7 DEF SetupStarted
  <2>2. \A i \in IoQ : RunsLive(i)'
    BY <1>0, <1>n, <2>1, SMT DEF PhaseInv, RunsLive, Stopping
  <2>3. OutInv' /\ UpInv' /\ \A s \in Req : Out(s)' = Out(s)
    BY <1>0, <1>1, <2>1 DEF OutInv, UpInv, Out, Stopping
  <2>4. PhaseInv(w)'
    BY <1>0, <2>1, <2>2 DEF PhaseInv
  <2>9. WorkOK(w, "su_live") \/ WorkOK(w, "su_wait")
    BY <2>1, <2>3, <2>4 DEF WorkOK
  <2>. QED BY <2>9, WorkFrame
<1>8. CASE SetupWaitFreeze(w)
  <2>1. /\ UNCHANGED <<q, rq, tmo, ctrl>> /\ pc[w] = "su_wait"
        /\ \/ pc' = [pc EXCEPT ![w] = "su_live"]
           \/ pc' = [pc EXCEPT ![w] = "su_sync"] /\ quiesced' = TRUE
    BY <1>8 DEF SetupWaitFreeze
  <2>2. \A i \in IoQ : RunsLive(i)'
    BY <1>0, <2>1 DEF PhaseInv, RunsLive, Stopping
  <2>3. OutInv' /\ UpInv' /\ \A s \in Req : Out(s)' = Out(s)
    BY <1>0, <1>1, <2>1 DEF OutInv, UpInv, Out, Stopping
  <2>4. PhaseInv(w)'
    BY <1>0, <2>1, <2>2 DEF PhaseInv
  <2>9. WorkOK(w, "su_live") \/ WorkOK(w, "su_sync")
    BY <2>1, <2>3, <2>4 DEF WorkOK
  <2>. QED BY <2>9, WorkFrame
<1>9. CASE SetupFreeIo(w)
  <2>1. /\ UNCHANGED <<tmo, ctrl>> /\ q' = FreeQueue(IoQ, q)
        /\ pc[w] = "su_free" /\ pc' = [pc EXCEPT ![w] = "su_admin_down"]
    BY <1>9 DEF SetupFreeIo
  <2>2. PICK cb \in SUBSET Sending(Freeing(IoQ, q)) : rq' = Aborted(Freeing(IoQ, q), rq, cb)
    BY <1>9 DEF SetupFreeIo
  <2>3. NotLive /\ NoneStarted
    BY <1>0, <2>1 DEF PhaseInv
  <2>4. /\ OutInv'
        /\ \A s \in Req : /\ Out(s)' => Out(s)
                          /\ rq'[s].st = "started" => rq[s].st = "started"
                          /\ rq[s].st = "started" /\ ~Out(s) => rq'[s].st = "started"
    <3>1. \A i \in IoQ \ Freeing(IoQ, q) : ~q[i].live
      BY <2>3 DEF NotLive
    <3>. QED BY <2>1, <2>2, <3>1, OutAborts
  <2>5. NotLive' /\ NoneStarted' /\ \A i \in IoQ : q'[i].live => q[i].live
    <3>1. NotLive'
      BY <1>q, <2>1, <2>3, DownStaysDown
    <3>. QED BY <2>3, <2>4, <3>1 DEF NotLive, NoneStarted
  <2>6. PhaseInv(w)' /\ UpInv'
    BY <1>0, <1>1, <2>1, <2>5 DEF PhaseInv, UpInv
  <2>9. WorkOK(w, "su_admin_down")
    BY <2>1, <2>4, <2>5, <2>6 DEF WorkOK
  <2>. QED BY <2>9, WorkFrame
<1>10. CASE SetupAdminDown(w)
  <2>1. /\ UNCHANGED <<rq, tmo, ctrl>> /\ q' = FreeQueue({0}, StopQueue({0}, q))
        /\ pc[w] = "su_admin_down" /\ pc' = [pc EXCEPT ![w] = "su_failed"]
    BY <1>10 DEF SetupAdminDown
  <2>2. NotLive /\ NoneStarted
    BY <1>0, <2>1 DEF PhaseInv
  <2>3. NotLive'
    BY <1>q, <2>1, <2>2, DownStaysDown
  <2>4. OutInv' /\ UpInv' /\ \A s \in Req : Out(s)' = Out(s)
    BY <1>0, <1>i, <1>1, <2>1, <2>2 DEF OutInv, UpInv, Out, Stopping, NotLive
  <2>5. NoneStarted' /\ PhaseInv(w)'
    BY <1>0, <2>1, <2>2, <2>3 DEF PhaseInv, NoneStarted
  <2>6. \A i \in IoQ : q'[i].live => q[i].live
    BY <2>3 DEF NotLive
  <2>9. WorkOK(w, "su_failed")
    BY <2>1, <2>4, <2>5, <2>6 DEF WorkOK
  <2>. QED BY <2>9, WorkFrame
<1>11. CASE SetupLive(w)
  <2>1. /\ UNCHANGED <<q, rq, tmo>> /\ pc[w] = "su_live"
        /\ \/ pc' = [pc EXCEPT ![w] = "su_done"]
           \/ pc' = [pc EXCEPT ![w] = "su_sync"] /\ quiesced' = TRUE
    BY <1>11 DEF SetupLive
  <2>2. \A i \in IoQ : RunsLive(i)'
    BY <1>0, <2>1 DEF PhaseInv, RunsLive, Stopping
  <2>3. OutInv' /\ UpInv' /\ \A s \in Req : Out(s)' = Out(s)
    BY <1>0, <2>1, <2>2 DEF OutInv, UpInv, Out, Stopping
  <2>4. PhaseInv(w)'
    BY <1>0, <2>1, <2>2 DEF PhaseInv
  <2>9. WorkOK(w, "su_done") \/ WorkOK(w, "su_sync")
    BY <2>1, <2>3, <2>4 DEF WorkOK
  <2>. QED BY <2>9, WorkFrame
<1>. QED BY <1>2, <1>3, <1>4, <1>5, <1>6, <1>7, <1>8, <1>9, <1>10, <1>11
         DEF SetupStep, SetupStartQueue

-----------------------------------------------------------------------------
(* The theorem.                                                             *)

\* RqInv is inductive, given the types and the control.
LEMMA RqInductive == ASSUME Inv, [Next]_vars PROVE RqInv'
<1>1. CASE UNCHANGED vars
  <2>1. UNCHANGED <<q, rq, tmo, pc, ctrl, quiesced, armed, qi>>
    BY <1>1 DEF vars
  <2>2. \A i : (Stopping(i)' <=> Stopping(i)) /\ (RunsLive(i)' <=> RunsLive(i))
    BY <2>1 DEF Stopping, RunsLive
  <2>3. \A r : Out(r)' <=> Out(r)
    BY <2>1 DEF Out
  <2>4. (NotLive' <=> NotLive) /\ (NoneStarted' <=> NoneStarted)
    BY <2>1 DEF NotLive, NoneStarted
  <2>5. OutInv' /\ UpInv'
    BY <2>1, <2>2, <2>3 DEF Inv, RqInv, OutInv, UpInv
  <2>6. WaitInv'
    BY <2>1, <2>4 DEF Inv, RqInv, WaitInv
  <2>7. ASSUME NEW w \in Worker PROVE PhaseInv(w)'
    BY <2>1, <2>2, <2>4 DEF Inv, RqInv, PhaseInv
  <2>8. TmoInv'
    BY <2>1, <2>3 DEF Inv, RqInv, TmoInv, Dead
  <2>. QED BY <2>5, <2>6, <2>7, <2>8 DEF RqInv
<1>2. CASE RequestStep
  <2>1. PICK r \in Req : RequestPath(r) \/ TimeoutLive(r) \/ TimeoutBegin(r)
    BY <1>2 DEF RequestStep, RequestPath
  <2>. QED BY <2>1, RequestPathKeeps, TimeoutLiveKeeps, TimeoutBeginKeeps
<1>3. CASE TimeoutEnd
  BY <1>3, TimeoutEndKeeps
<1>4. CASE Scheduled \/ UserStep
  BY <1>4, ScheduledKeeps
<1>5. CASE \E w \in Worker : TeardownStep(w) \/ SetupStep(w)
  BY <1>5, TeardownKeeps, SetupKeeps
<1>. QED BY <1>1, <1>2, <1>3, <1>4, <1>5 DEF Next, WorkStep, Tearing, Setting

\* RqInv holds initially.
LEMMA RqInitially == ASSUME Init PROVE RqInv
<1>1. /\ \A r \in Req : ~Out(r) /\ rq[r].st # "started"
      /\ \A i \in Queue : ~q[i].live /\ q[i].hw # "run"
      /\ tmo = IdleTmo /\ ctrl = "NEW"
      /\ \A w \in Worker : pc[w] \in {"idle", "queued"}
  BY DEF Init, NoRequest, NoQueue, Out
<1>2. NotLive /\ NoneStarted
  BY <1>1, NvmqConstants, SMT DEF NotLive, NoneStarted, IoQ, Queue
<1>3. OutInv /\ WaitInv /\ UpInv /\ TmoInv
  BY <1>1, <1>2 DEF OutInv, WaitInv, UpInv, TmoInv
<1>4. \A w \in Worker : PhaseInv(w)
  BY <1>1 DEF PhaseInv
<1>. QED BY <1>3, <1>4 DEF RqInv

\* The types, the control and the requests together.
THEOREM DriverInvariant == Spec => []Inv
<1>1. Init => Inv
  BY TypesInitially, CtlInitially, RqInitially DEF Inv
<1>2. Inv /\ [Next]_vars => Inv'
  <2>1. TypeInv => rq \in [Req -> RqType]
    BY DEF TypeInv, RequestsOK
  <2>. QED BY <2>1, TypesInductive, CtlInductive, RqInductive DEF Inv
<1>. QED BY <1>1, <1>2, PTL DEF Spec

\* nvme_qdma_complete_rq frees the buffers of a request and gives its tag back: by
\* then its send has completed and no completion entry for it can arrive, whatever
\* timeouts, resets, reconnects and failing setups came between. The exception is a
\* queue that the timeout handler is about to stop.
THEOREM NothingOutstanding == Spec => []NothingOutstandingAfterEnd
<1>1. Inv => NothingOutstandingAfterEnd
  BY DEF Inv, RqInv, OutInv, Out, Stopping, NothingOutstandingAfterEnd
<1>. QED BY <1>1, DriverInvariant, PTL
=============================================================================
