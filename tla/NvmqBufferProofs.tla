--------------------------- MODULE NvmqBufferProofs ---------------------------
(****************************************************************************)
(* Proofs about NvmqDriver: the response buffers of its queues.             *)
(****************************************************************************)
EXTENDS NvmqDriverProofs, FiniteSetTheorems

\* Most leaves are first-order reasoning over sets and functions, which Zenon finds at
\* once; the leaves with arithmetic, records or sequences name SMT.
USE Zenon

USE DEF Worker, Others, TearPc, SetPc, Done, Steps, DownPc, StartPc, BusyPc

Owed(i) == {r \in Req : QueueOf[r] = i /\ rq[r].dev}

\* The number of completion entries owed on a queue is a number, and no larger
\* number is owed when nothing is added.
LEMMA OwedCounts ==
    ASSUME NEW i, NEW S \in SUBSET Owed(i)
    PROVE  /\ IsFiniteSet(Owed(i)) /\ Cardinality(Owed(i)) \in Nat
           /\ IsFiniteSet(S) /\ Cardinality(S) \in Nat /\ Cardinality(S) <= Cardinality(Owed(i))
<1>1. IsFiniteSet(Owed(i))
  BY NvmqConstants, FS_Subset DEF Owed
<1>. QED BY <1>1, FS_Subset, FS_CardinalityType

\* A step that adds nothing owed and takes no buffer from a running queue.
LEMMA CqeFrame ==
    ASSUME TypeInv, TypeInv', CqeHasBuffer,
           \A s \in Req : rq'[s].dev => rq[s].dev,
           \A i \in IoQ : q'[i].hw = "run" =>
              \/ q[i].hw = "run" /\ q'[i].posted >= q[i].posted
              \/ \A s \in Req : QueueOf[s] = i => ~rq[s].dev
    PROVE  CqeHasBuffer'
<1>. SUFFICES ASSUME NEW i \in IoQ, q'[i].hw = "run"
              PROVE  Cardinality(Owed(i)') <= q'[i].posted
  BY DEF CqeHasBuffer, Owed
<1>1. Owed(i)' \in SUBSET Owed(i)
  BY DEF Owed
<1>2. q[i].posted \in Nat /\ q'[i].posted \in Nat
  <2>1. i \in Queue
    BY NvmqConstants, SMT DEF IoQ, Queue
  <2>2. q[i] \in QType /\ q'[i] \in QType
    BY <2>1 DEF TypeInv, QueuesOK
  <2>3. \A x \in QType : x.posted \in Nat
    BY NvmqConstants, SMT DEF QType
  <2>. QED BY <2>2, <2>3
<1>3. CASE q[i].hw = "run" /\ q'[i].posted >= q[i].posted
  <2>1. Cardinality(Owed(i)) <= q[i].posted
    BY <1>3 DEF CqeHasBuffer, Owed
  <2>2. /\ Cardinality(Owed(i)) \in Nat /\ Cardinality(Owed(i)') \in Nat
        /\ Cardinality(Owed(i)') <= Cardinality(Owed(i))
    BY <1>1, OwedCounts
  <2>. QED BY <1>2, <1>3, <2>1, <2>2, SMT
<1>4. CASE \A s \in Req : QueueOf[s] = i => ~rq[s].dev
  <2>1. Owed(i)' = {}
    BY <1>1, <1>4 DEF Owed
  <2>. QED BY <1>2, <2>1, FS_EmptySet, SMT
<1>. QED BY <1>3, <1>4

\* queue_rq posts the buffer before it sends, and a completion entry takes one.
LEMMA CqeRequestPath ==
    ASSUME TypeInv, TypeInv', CqeHasBuffer, NEW r \in Req, RequestPath(r) PROVE CqeHasBuffer'
<1>. DEFINE k == QueueOf[r]
<1>1. /\ RefOK(rq[r]) /\ rq \in [Req -> RqType]
      /\ k \in Queue /\ k \in IoQ /\ q \in [Queue -> QType]
      /\ q' \in [Queue -> QType] /\ \A i \in IoQ : i \in Queue
  BY NvmqConstants, SMT DEF TypeInv, RequestsOK, QueuesOK, Queue, IoQ
<1>2. \A i \in Queue : q[i].posted \in Nat /\ q'[i].posted \in Nat
  <2>1. \A x \in QType : x.posted \in Nat
    BY NvmqConstants, SMT DEF QType
  <2>. QED BY <1>1, <2>1
<1>3. \A i \in IoQ : q'[i].hw = q[i].hw
  BY <1>1, RequestPathIs
<1>4. \A s \in Req \ {r} : rq'[s] = rq[s]
  BY RequestPathIs
<1>5. \A i \in IoQ : i # k => Owed(i)' = Owed(i)
  BY <1>4 DEF Owed
<1>6. ASSUME NEW i \in IoQ, i # k, q'[i].hw = "run", q'[i].posted = q[i].posted
      PROVE  Cardinality(Owed(i)') <= q'[i].posted
  BY <1>3, <1>5, <1>6 DEF CqeHasBuffer, Owed
<1>7. CASE \/ Enter(r) \/ QueueRqNotReady(r) \/ QueueRqFailed(r) \/ QueueRqRetry(r)
           \/ QeSendDone(r) \/ CompleteRq(r)
  <2>1. \A i \in IoQ : q'[i].posted >= q[i].posted
    BY <1>1, <1>2, <1>7, SMT
       DEF Enter, QueueRqNotReady, QueueRqFailed, QueueRqRetry, QeSendDone, CompleteRq, QType
  <2>2. rq'[r].dev => rq[r].dev
    <3>1. CASE Enter(r) \/ QueueRqNotReady(r) \/ QueueRqFailed(r) \/ QueueRqRetry(r)
      BY <1>1, <3>1, SMT DEF Enter, QueueRqNotReady, QueueRqFailed, QueueRqRetry, RqType, NoRequest
    <3>3. CASE CompleteRq(r)
      BY <1>1, <3>3 DEF CompleteRq, RqType
    <3>2. CASE QeSendDone(r)
      <4>. DEFINE y == [rq[r] EXCEPT !.h2c = FALSE]
      <4>1. y \in RqType /\ y.ref >= 1 /\ y.dev = rq[r].dev
        BY <1>1, <3>2 DEF QeSendDone, RefOK, RqType
      <4>2. rq'[r] = DropRef(y)
        BY <1>1, <3>2 DEF QeSendDone
      <4>. HIDE DEF y
      <4>. QED BY <4>1, <4>2, DropRefIs, SMT
    <3>. QED BY <1>7, <3>1, <3>2, <3>3
  <2>. QED BY <1>3, <1>4, <2>1, <2>2, CqeFrame
<1>8. CASE QueueRqSent(r)
  <2>1. q[k].hw = "run" /\ q' = [q EXCEPT ![k].posted = q[k].posted + 1]
    BY <1>1, <1>8 DEF QueueRqSent, CanPost
  <2>2. q'[k].posted = q[k].posted + 1 /\ \A i \in IoQ : i # k => q'[i] = q[i]
    BY <1>1, <2>1, SMT DEF QType
  <2>3. Cardinality(Owed(k)') <= Cardinality(Owed(k)) + 1 /\ Cardinality(Owed(k)') \in Nat
    <3>1. Owed(k)' \in SUBSET (Owed(k) \cup {r})
      BY <1>4 DEF Owed
    <3>2. IsFiniteSet(Owed(k)) /\ Cardinality(Owed(k)) \in Nat
      BY OwedCounts
    <3>3. /\ IsFiniteSet(Owed(k) \cup {r})
          /\ Cardinality(Owed(k) \cup {r}) \in {Cardinality(Owed(k)), Cardinality(Owed(k)) + 1}
      BY <3>2, FS_AddElement
    <3>4. /\ IsFiniteSet(Owed(k)') /\ Cardinality(Owed(k)') \in Nat
          /\ Cardinality(Owed(k)') <= Cardinality(Owed(k) \cup {r})
      BY <3>1, <3>3, FS_Subset, FS_CardinalityType
    <3>. QED BY <3>2, <3>3, <3>4, SMT
  <2>4. Cardinality(Owed(k)) <= q[k].posted /\ Cardinality(Owed(k)) \in Nat
    BY <1>1, <2>1, OwedCounts DEF CqeHasBuffer, Owed
  <2>5. Cardinality(Owed(k)') <= q'[k].posted
    BY <1>1, <1>2, <2>2, <2>3, <2>4, SMT
  <2>. QED BY <1>6, <2>2, <2>5 DEF CqeHasBuffer, Owed
<1>9. CASE QeRecvDone(r)
  <2>1. rq[r].dev /\ q[k].hw = "run" /\ q' = [q EXCEPT ![k].posted = q[k].posted - 1]
    BY <1>1, <1>9 DEF QeRecvDone
  <2>2. q'[k].posted = q[k].posted - 1 /\ \A i \in IoQ : i # k => q'[i] = q[i]
    BY <1>1, <2>1, SMT DEF QType
  <2>3. ~rq'[r].dev
    <3>. DEFINE y == [rq[r] EXCEPT !.dev = FALSE]
    <3>1. y \in RqType /\ y.ref >= 1 /\ ~y.dev
      BY <1>1, <1>9 DEF QeRecvDone, RefOK, RqType
    <3>2. rq'[r] = DropRef(y)
      BY <1>1, <1>9 DEF QeRecvDone
    <3>. HIDE DEF y
    <3>. QED BY <3>1, <3>2, DropRefIs, SMT
  <2>4. Owed(k)' = Owed(k) \ {r} /\ r \in Owed(k)
    BY <1>4, <2>1, <2>3 DEF Owed
  <2>5. Cardinality(Owed(k)') = Cardinality(Owed(k)) - 1 /\ Cardinality(Owed(k)) \in Nat
    <3>1. IsFiniteSet(Owed(k)) /\ Cardinality(Owed(k)) \in Nat
      BY OwedCounts
    <3>. QED BY <2>4, <3>1, FS_RemoveElement
  <2>6. Cardinality(Owed(k)) <= q[k].posted
    BY <1>1, <2>1 DEF CqeHasBuffer, Owed
  <2>7. Cardinality(Owed(k)') <= q'[k].posted
    BY <1>1, <1>2, <2>2, <2>5, <2>6, SMT
  <2>. QED BY <1>6, <2>2, <2>7 DEF CqeHasBuffer, Owed
<1>. QED BY <1>7, <1>8, <1>9 DEF RequestPath

\* Stopping and freeing queues takes what is owed with the buffers; a queue is
\* allocated only when nothing is owed on it.
LEMMA CqeWork ==
    ASSUME Inv, TypeInv', CqeHasBuffer,
           TimeoutEnd \/ \E w \in Worker : TeardownStep(w) \/ SetupStep(w)
    PROVE  CqeHasBuffer'
<1>1. QueuesOK(q) /\ RequestsOK(rq) /\ TypeInv /\ \A i \in IoQ : i \in Queue /\ i # 0
  BY NvmqConstants, SMT DEF Inv, TypeInv, Queue, IoQ
<1>2. \A i \in IoQ : q[i].posted \in Nat
  <2>1. \A x \in QType : x.posted \in Nat
    BY NvmqConstants, SMT DEF QType
  <2>. QED BY <1>1, <2>1 DEF QueuesOK
<1>3. \A s \in Req : rq'[s].dev => rq[s].dev
  <2>1. ASSUME NEW Q, NEW cb \in SUBSET Sending(Q), NEW s \in Req, Aborted(Q, rq, cb)[s].dev
        PROVE  rq[s].dev
    <3>1. Aborted(Q, rq, cb)[s].h2c \/ Aborted(Q, rq, cb)[s].dev => Aborted(Q, rq, cb)[s] = rq[s]
      BY <1>1, AbortedIs, SMT
    <3>. QED BY <2>1, <3>1
  <2>2. CASE TimeoutEnd
    <3>. DEFINE Q == IF tmo.stop THEN {QueueOf[tmo.req]} ELSE {}
    <3>1. PICK cb \in SUBSET Sending(Q) :
             rq' = [Aborted(Q, rq, cb) EXCEPT ![tmo.req] =
                       IF @.st = "started" THEN [@ EXCEPT !.st = "completing"] ELSE @]
      BY <2>2 DEF TimeoutEnd
    <3>. DEFINE ab == Aborted(Q, rq, cb)
    <3>2. ab \in [Req -> RqType] /\ \A s \in Req : ab[s].dev => rq[s].dev
      BY <1>1, <2>1, AbortedOK DEF RequestsOK
    <3>3. rq' = [ab EXCEPT ![tmo.req] =
                   IF ab[tmo.req].st = "started" THEN [ab[tmo.req] EXCEPT !.st = "completing"]
                   ELSE ab[tmo.req]]
      BY <3>1
    <3>. HIDE DEF ab
    <3>4. ASSUME NEW s \in Req, rq'[s].dev PROVE rq[s].dev
      <4>1. CASE s # tmo.req
        BY <3>2, <3>3, <3>4, <4>1
      <4>2. CASE s = tmo.req
        <5>1. rq'[s] \in {ab[s], [ab[s] EXCEPT !.st = "completing"]} /\ ab[s] \in RqType
          BY <3>2, <3>3, <4>2
        <5>. QED BY <3>2, <3>4, <5>1 DEF RqType
      <4>. QED BY <4>1, <4>2
    <3>. QED BY <3>4
  <2>3. CASE \E w \in Worker : TeardownStep(w) \/ SetupStep(w)
    <3>1. \/ rq' = rq \/ rq' = Cancelled(rq)
          \/ \E Q : \E cb \in SUBSET Sending(Q) : rq' = Aborted(Q, rq, cb)
      BY <2>3, Zenon
         DEF TeardownStep, SetupStep, TeardownFreeze, SyncIoQueues, StopIoQueues, CancelTagset,
             TeardownFree, SetupAdmin, SetupAllocIo, SetupStartQueue, SetupStarted, SetupWaitFreeze,
             SetupFreeIo, SetupAdminDown, SetupLive
    <3>. QED BY <1>1, <2>1, <3>1, CancelledIs
  <2>. QED BY <2>2, <2>3
<1>. DEFINE Kept == \A i \in IoQ : q'[i].hw = "run" => q[i].hw = "run" /\ q'[i].posted = q[i].posted
<1>4. ASSUME NEW Q, NEW R,
             \/ q' = HwStop(Q, q) \/ q' = StopQueue(Q, q) \/ q' = FreeQueue(Q, q)
             \/ q' = HwStop(Q, StopQueue(R, q)) \/ q' = FreeQueue(Q, StopQueue(R, q))
      PROVE  Kept
  <2>. SUFFICES ASSUME NEW i \in IoQ, q'[i].hw = "run"
                PROVE  q[i].hw = "run" /\ q'[i].posted = q[i].posted
    OBVIOUS
  <2>. DEFINE p == StopQueue(R, q)
  <2>1. QueuesOK(p)
    BY <1>1, QueueOpsOK
  <2>0. i \in Queue
    BY <1>1
  <2>2. p[i].hw = "run" => q[i].hw = "run" /\ p[i].posted = q[i].posted
    BY <1>1, <2>0, StopQueueIs, SMT
  <2>3. CASE q' = HwStop(Q, q) \/ q' = StopQueue(Q, q) \/ q' = FreeQueue(Q, q)
    BY <1>1, <2>0, <2>3, HwStopIs, StopQueueIs, FreeQueueIs, SMT
  <2>4. CASE q' = HwStop(Q, p) \/ q' = FreeQueue(Q, p)
    <3>. HIDE DEF p
    <3>1. p[i].hw = "run" /\ q'[i].posted = p[i].posted
      BY <2>0, <2>1, <2>4, HwStopIs, FreeQueueIs, SMT
    <3>. QED BY <2>2, <3>1
  <2>. QED BY <1>4, <2>3, <2>4
<1>5. ASSUME Kept PROVE CqeHasBuffer'
  BY <1>1, <1>2, <1>3, <1>5, CqeFrame, SMT
<1>6. CASE TimeoutEnd
  <2>1. \E Q : q' = HwStop(Q, q)
    BY <1>6 DEF TimeoutEnd
  <2>. QED BY <1>4, <1>5, <2>1
<1>7. ASSUME NEW w \in Worker, TeardownStep(w) \/ SetupStep(w) PROVE CqeHasBuffer'
  <2>1. CASE \/ TeardownFreeze(w) \/ SyncIoQueues(w) \/ CancelTagset(w) \/ SetupStarted(w)
             \/ SetupWaitFreeze(w) \/ SetupLive(w)
    BY <1>5, <2>1 DEF TeardownFreeze, SyncIoQueues, CancelTagset, SetupStarted, SetupWaitFreeze,
                      SetupLive
  <2>2. CASE StopIoQueues(w) \/ TeardownFree(w) \/ SetupFreeIo(w) \/ SetupAdminDown(w)
    <3>1. PICK Q, R : \/ q' = StopQueue(Q, q) \/ q' = FreeQueue(Q, q)
                      \/ q' = FreeQueue(Q, StopQueue(R, q))
      BY <2>2 DEF StopIoQueues, TeardownFree, SetupFreeIo, SetupAdminDown
    <3>. QED BY <1>4, <1>5, <3>1
  <2>3. CASE SetupAdmin(w)
    <3>1. q' = [AllocQueue({0}, q) EXCEPT ![0].live = TRUE] \/ q' = [q EXCEPT ![0] = NoQueue]
      BY <2>3 DEF SetupAdmin
    <3>2. \A i \in IoQ : q'[i] = q[i]
      <4>1. \A i \in IoQ : AllocQueue({0}, q)[i] = q[i]
        BY <1>1, Zenon DEF AllocQueue
      <4>2. DOMAIN AllocQueue({0}, q) = Queue /\ DOMAIN q = Queue
        BY <1>1 DEF AllocQueue, QueuesOK
      <4>. QED BY <1>1, <3>1, <4>1, <4>2
    <3>. QED BY <1>5, <3>2
  <2>4. CASE SetupAllocIo(w)
    <3>1. pc[w] = "su_alloc"
      BY <2>4 DEF SetupAllocIo, Step
    <3>2. NotLive /\ tmo = IdleTmo
      BY <3>1 DEF Inv, RqInv, PhaseInv
    <3>3. \A s \in Req : QueueOf[s] \in IoQ
      BY NvmqConstants DEF IoQ
    <3>4. \A s \in Req : ~rq[s].dev
      BY <3>2, <3>3 DEF Inv, RqInv, OutInv, Out, Stopping, IdleTmo, NotLive
    <3>. QED BY <1>1, <1>3, <3>4, CqeFrame
  <2>5. CASE SetupStartQueue(w)
    <3>1. \/ q' = [q EXCEPT ![qi[w]].live = TRUE]
          \/ \E Q, R : q' = HwStop(Q, StopQueue(R, q))
      BY <2>5 DEF SetupStartQueue
    <3>2. ASSUME q' = [q EXCEPT ![qi[w]].live = TRUE] PROVE Kept
      BY <1>1, <3>2 DEF QueuesOK, QType
    <3>. QED BY <1>4, <1>5, <3>1, <3>2
  <2>. QED BY <1>7, <2>1, <2>2, <2>3, <2>4, <2>5 DEF TeardownStep, SetupStep
<1>. QED BY <1>6, <1>7

\* A command is sent only after a buffer for its completion entry was posted, and no
\* failed send, stopped queue or reconnect upsets the count: the device never finds
\* the response ring empty.
THEOREM CqeFindsBuffer == Spec => []CqeHasBuffer
<1>1. Init => CqeHasBuffer
  BY SMT DEF Init, CqeHasBuffer, NoQueue, IoQ, Queue
<1>2. Inv /\ Inv' /\ CqeHasBuffer /\ [Next]_vars => CqeHasBuffer'
  <2>. SUFFICES ASSUME Inv, Inv', CqeHasBuffer, [Next]_vars PROVE CqeHasBuffer'
    OBVIOUS
  <2>1. TypeInv /\ TypeInv'
    BY DEF Inv
  <2>2. ASSUME UNCHANGED <<q, rq>> PROVE CqeHasBuffer'
    BY <2>2 DEF CqeHasBuffer
  <2>3. CASE RequestStep
    <3>1. PICK r \in Req : RequestPath(r) \/ TimeoutLive(r) \/ TimeoutBegin(r)
      BY <2>3 DEF RequestStep, RequestPath
    <3>2. CASE RequestPath(r)
      BY <2>1, <3>2, CqeRequestPath
    <3>3. CASE TimeoutLive(r)
      BY <2>2, <3>3 DEF TimeoutLive, ioVars
    <3>4. CASE TimeoutBegin(r)
      <4>1. rq' = rq /\ q' = [q EXCEPT ![QueueOf[r]].live = FALSE]
        BY <3>4 DEF TimeoutBegin
      <4>2. q \in [Queue -> QType]
        BY <2>1 DEF TypeInv, QueuesOK
      <4>3. \A i \in IoQ : i \in Queue
        BY NvmqConstants, SMT DEF IoQ, Queue
      <4>4. \A i \in IoQ : q'[i].hw = q[i].hw /\ q'[i].posted = q[i].posted
        BY <4>1, <4>2, <4>3 DEF QType
      <4>. QED BY <4>1, <4>4 DEF CqeHasBuffer
    <3>. QED BY <3>1, <3>2, <3>3, <3>4
  <2>4. CASE Scheduled \/ UserStep
    <3>1. UNCHANGED <<q, rq>>
      BY <2>4
         DEF Scheduled, UserStep, CreateCtrl, CreateDone, ErrorRecoveryWork, ErrorRecoveryConnect,
             ReconnectCtrlWork, ReconnectDone, ReconnectFailed, ResetCtrlWork, ResetConnect,
             ResetDone, ResetFailed, DeleteCtrlWork, DeleteDrained, DeleteGone, ResetCtrl,
             DeleteCtrl, ioVars
    <3>. QED BY <2>2, <3>1
  <2>5. CASE TimeoutEnd \/ \E w \in Worker : TeardownStep(w) \/ SetupStep(w)
    BY <2>1, <2>5, CqeWork
  <2>6. CASE UNCHANGED vars
    BY <2>2, <2>6 DEF vars
  <2>. QED BY <2>3, <2>4, <2>5, <2>6 DEF Next, WorkStep, Tearing, Setting
<1>. QED BY <1>1, <1>2, DriverInvariant, PTL DEF Spec
=============================================================================
