---------------------------- MODULE HlsAccCompute ----------------------------
(***************************************************************************)
(* The scheduler of the compute engine (lib/hlsacccompute): requests that  *)
(* ask for operators and DMA channels, the waiting and the working queue,  *)
(* preemption by pause_request, and the command and completion queue of    *)
(* the hardware controller.                                                *)
(*                                                                         *)
(* All handlers run on the compute thread and call each other: run_request *)
(* calls pause_request, a pause polls a channel, the channel's callback    *)
(* frees the request, and freeing one schedules the next.  The variable    *)
(* stack is that call stack, top first; a handler is cut where it calls    *)
(* another one, and the hardware and the threads that create requests may  *)
(* move at each cut.                                                       *)
(*                                                                         *)
(* A program is the sequence of the operator types it asks for, with one   *)
(* input and one output channel.  Data is left out: an operator that has   *)
(* been fed delivers its last output some time later.                      *)
(***************************************************************************)
EXTENDS Integers, Sequences, FiniteSets, SequencesExt

CONSTANTS Req,        \* the objects of request_poolv2
          Type,       \* operator types
          Op,         \* operator elements (slots of the FPGA)
          TypeOf,     \* the type of each element
          TxCh, RxCh, \* the compute channels
          SwPrograms, \* the programs with software_data
          SwThreads,  \* number of sw_resources
          Loads,      \* what is asked of the device: request objects, the programs,
                      \* priorities and run_ways (1 software, 2 hardware) they are
                      \* created with, how often one object is used, channels
          VO,         \* a virtual object, where a channel is expected
          Null

ASSUME SchedAssumption ==
    /\ TypeOf \in [Op -> Type]
    /\ SwPrograms \subseteq Seq(Type) \ {<< >>} /\ SwThreads \in Nat
    /\ \A l \in Loads :
          /\ l.reqs \subseteq Req /\ l.programs \subseteq Seq(Type) \ {<< >>}
          /\ l.prios \subseteq Nat /\ l.ways \subseteq {1, 2} /\ l.uses \in Nat
          /\ l.tx \subseteq TxCh /\ l.rx \subseteq RxCh
    /\ Null \notin Req \cup Op \cup TxCh \cup RxCh \cup {VO}
    /\ VO \notin TxCh \cup RxCh

VARIABLES load,       \* what is asked of the device; never changes
          req,        \* the request objects
          op,         \* the operator elements: state, request
          elements,   \* the list of elements of each type, first one first
          tx_channel_pool, rx_channel_pool,
          rx_req,     \* the req field of the RX channels
          polled,     \* channels whose poller runs
          out,        \* RX channels with the last output waiting to be polled
          waiting_queue,
          working_queue,
          dev_state,
          sw_pool,    \* free sw_resources
          msgs,       \* messages to the compute thread
          stack, ret, \* the call stack, the value the last run returned
          sq, cq,     \* commands to, completions from the controller
          fed         \* requests whose operators work on their data

reqVars == <<req, waiting_queue, working_queue, dev_state>>
opVars == <<op, elements>>
chVars == <<tx_channel_pool, rx_channel_pool, rx_req, polled, out>>
hwVars == <<sq, cq, fed>>
vars == <<load, reqVars, opVars, chVars, sw_pool, msgs, stack, ret, hwVars>>

\* A request after memset: program, channels and next_request are NULL.
FreshReq(uses) ==
    [status |-> "IDLE", program |-> << >>, priority |-> 0, run_way |-> 0,
     op_elm |-> << >>, tx |-> Null, rx |-> Null, waiting_preempt_req |-> 0,
     next_request |-> Null, uses |-> uses]

Init ==
    /\ load \in Loads
    /\ req = [r \in Req |-> FreshReq(0)]
    /\ op = [o \in Op |-> [state |-> "IDLE", request |-> Null]]
    /\ elements = [t \in Type |-> SetToSeq({o \in Op : TypeOf[o] = t})]
    /\ tx_channel_pool = SetToSeq(load.tx) /\ rx_channel_pool = SetToSeq(load.rx)
    /\ rx_req = [c \in RxCh |-> Null]
    /\ polled = {} /\ out = {}
    /\ waiting_queue = << >> /\ working_queue = {}
    /\ dev_state = "IDLE"
    /\ sw_pool = SwThreads
    /\ msgs = << >> /\ stack = << >> /\ ret = 0
    /\ sq = << >> /\ cq = << >> /\ fed = {}

-----------------------------------------------------------------------------
\* Frames of the call stack; Return replaces the running one by others.
Frame(fn, r) == [fn |-> fn, r |-> r, preempt |-> FALSE, by |-> Null, again |-> << >>]
RunFrame(r, preempt) == [Frame("run", r) EXCEPT !.preempt = preempt]
PauseFrame(r, by) == [Frame("pause", r) EXCEPT !.by = by]
SchedFrame(r, again) == [Frame("sched", r) EXCEPT !.again = again]

Running(fn) == stack # << >> /\ Head(stack).fn = fn
Return(frames) == stack' = frames \o Tail(stack)

Command(opc, r, cb) == [opc |-> opc, r |-> r, cb |-> cb]

\* Move an element to the tail or to the head of its type's list.
ToTail(e, o) == [e EXCEPT ![TypeOf[o]] = Append(RemoveFirst(@, o), o)]
ToHead(e, o) == [e EXCEPT ![TypeOf[o]] = Cons(o, RemoveFirst(@, o))]

-----------------------------------------------------------------------------
\* create_request on an I/O thread, and the message to the compute thread.
spdk_hlsacccompute_create_request(r, program, priority, run_way) ==
    /\ req[r].program = << >>
    /\ req[r].uses < load.uses
    /\ req' = [req EXCEPT ![r] = [@ EXCEPT !.status = "APPLYING", !.program = program,
                                  !.priority = priority, !.run_way = run_way,
                                  !.uses = @ + 1]]
    /\ msgs' = Append(msgs, [kind |-> "run", r |-> r])
    /\ UNCHANGED <<load, opVars, waiting_queue, working_queue, dev_state, chVars, sw_pool,
                   stack, ret, hwVars>>

\* A message that starts a request: preemptive from priority 120 on.
spdk_hlsacccompute_run_request ==
    /\ stack = << >> /\ msgs # << >> /\ Head(msgs).kind = "run"
    /\ LET r == Head(msgs).r IN
       stack' = <<RunFrame(r, req[r].priority >= 120), Frame("run_request", r)>>
    /\ msgs' = Tail(msgs)
    /\ UNCHANGED <<load, reqVars, opVars, chVars, sw_pool, ret, hwVars>>

\* Mutant: the request is queued and its status not set.
NextSchedKeepsStatus(r, rq, q) ==
    req' = rq /\ waiting_queue' = IF rq[r].program # << >> THEN Append(q, r) ELSE q

\* prepare_for_next_sched: a freed request has no device and is not queued.
NextSched(r, rq, q) ==
    /\ req' = [rq EXCEPT ![r].status = "WAITING"]
    /\ waiting_queue' = IF rq[r].program # << >> THEN Append(q, r) ELSE q

RunRequestReturn ==
    /\ Running("run_request")
    /\ Return(<< >>)
    /\ IF ret = -1 THEN NextSched(Head(stack).r, req, waiting_queue)
                   ELSE UNCHANGED <<req, waiting_queue>>
    /\ UNCHANGED <<load, working_queue, dev_state, opVars, chVars, sw_pool, msgs, ret, hwVars>>

-----------------------------------------------------------------------------
\* __run_request, a request that is new or was waiting.
Applying(r) ==
    /\ Running("run")
    /\ r = Head(stack).r
    /\ req[r].status \in {"APPLYING", "WAITING"}

RunReturns(value) == Return(<< >>) /\ ret' = value

\* Software mode needs a program of one operator with software_data and a free
\* thread; a longer program is sent back to the queue for the hardware.
RunSoftware(r) ==
    /\ Applying(r) /\ req[r].run_way = 1
    /\ dev_state' = "IDLE"
    /\ IF Len(req[r].program) # 1
       THEN /\ req' = [req EXCEPT ![r].run_way = 0]
            /\ RunReturns(-1)
            /\ UNCHANGED <<working_queue, sw_pool, msgs>>
       ELSE IF req[r].program \notin SwPrograms \/ sw_pool = 0
       THEN RunReturns(-1) /\ UNCHANGED <<req, working_queue, sw_pool, msgs>>
       ELSE /\ req' = [req EXCEPT ![r].status = "EXECUTING"]
            /\ working_queue' = working_queue \cup {r}
            /\ sw_pool' = sw_pool - 1
            /\ msgs' = Append(msgs, [kind |-> "sw", r |-> r])
            /\ RunReturns(0)
    /\ UNCHANGED <<load, waiting_queue, opVars, chVars, hwVars>>

\* The element the code takes for one more operator of type t: the first of the
\* list, moved on past each element already taken.
NextElm(t, o) ==
    LET i == SelectInSeq(elements[t], LAMBDA x : x = o)
    IN  IF i < Len(elements[t]) THEN elements[t][i + 1] ELSE Null
Pick(t, taken) ==
    FoldLeft(LAMBDA o, x : IF o = x THEN NextElm(t, o) ELSE o, Head(elements[t]), taken)

\* An element this request may not have: in use and not to be preempted, or of an
\* owner that is being preempted already.
Unavailable(o, preempt) ==
    \/ op[o].state # "IDLE" /\ (~preempt \/ op[o].state = "LOCKED")
    \/ op[o].state = "WORKING" /\ op[o].request = Null
    \/ op[o].request # Null /\ req[op[o].request].status \in {"WAITING", "WAITING_PAUSE"}

\* The elements for a whole program: free ones, ones to preempt, all of them in
\* program order; the loop stops at the first one it may not have.
Selection(r, preempt) ==
    FoldLeft(LAMBDA s, t :
               IF ~s.ok THEN s
               ELSE LET o == Pick(t, s.free \o s.used) IN
                    [ok |-> ~Unavailable(o, preempt),
                     free |-> IF op[o].state = "IDLE" THEN Append(s.free, o) ELSE s.free,
                     used |-> IF op[o].state = "IDLE" THEN s.used ELSE Append(s.used, o),
                     elm |-> Append(s.elm, o)],
             [ok |-> TRUE, free |-> << >>, used |-> << >>, elm |-> << >>],
             req[r].program)

\* Mutant: the early return leaves dev_state as it is.
RunBusyStaysBusy(r, s) ==
    /\ ~s.ok
    /\ req' = [req EXCEPT ![r].op_elm = s.elm]
    /\ dev_state' = "RUN_REQUEST"
    /\ RunReturns(-1)
    /\ UNCHANGED <<load, waiting_queue, working_queue, opVars, chVars, sw_pool, msgs, hwVars>>

\* What becomes of a request for the hardware with the selection s.
RunBusy(r, s) ==
    /\ ~s.ok
    /\ req' = [req EXCEPT ![r].op_elm = s.elm]
    /\ dev_state' = "IDLE"
    /\ RunReturns(-1)
    /\ UNCHANGED <<load, waiting_queue, working_queue, opVars, chVars, sw_pool, msgs, hwVars>>

\* An owner of the same or a higher priority is not preempted.
Refused(r, s) ==
    \E i \in DOMAIN s.used : /\ op[s.used[i]].request # Null
                             /\ req[op[s.used[i]].request].priority >= req[r].priority

\* Here dev_state stays RUN_REQUEST.
RunRefused(r, s) ==
    /\ s.ok /\ Refused(r, s)
    /\ req' = [req EXCEPT ![r].op_elm = s.elm]
    /\ dev_state' = "RUN_REQUEST"
    /\ RunReturns(-1)
    /\ UNCHANGED <<load, waiting_queue, working_queue, opVars, chVars, sw_pool, msgs, hwVars>>

\* The selected elements become LOCKED and move to the end of their lists.
Lock(r, s) ==
    /\ op' = [o \in Op |-> IF o \in Range(s.elm)
                           THEN [state |-> "LOCKED", request |-> r] ELSE op[o]]
    /\ elements' = FoldLeft(ToTail, elements, s.used \o s.free)
    /\ dev_state' = "RUN_REQUEST"

\* Mutant: the RX channel is taken from the other pool.
RxGotFromTx(r) == IF req[r].rx # Null \/ tx_channel_pool = << >> THEN req[r].rx
                                                                ELSE Head(tx_channel_pool)

\* apply_channel for the RX channel, then for the TX channel: what r gets.
RxGot(r) == IF req[r].rx # Null \/ rx_channel_pool = << >> THEN req[r].rx
                                                         ELSE Head(rx_channel_pool)
TxGot(r) == IF req[r].tx # Null \/ tx_channel_pool = << >> \/ RxGot(r) = Null
            THEN req[r].tx ELSE Head(tx_channel_pool)
ApplyChannels(r) ==
    /\ VO \notin {RxGot(r), TxGot(r)}
    /\ rx_channel_pool' = IF RxGot(r) # req[r].rx THEN Tail(rx_channel_pool) ELSE rx_channel_pool
    /\ tx_channel_pool' = IF TxGot(r) # req[r].tx THEN Tail(tx_channel_pool) ELSE tx_channel_pool
    /\ rx_req' = [c \in RxCh |-> IF c = RxGot(r) THEN r ELSE rx_req[c]]
    /\ out' = out \ {RxGot(r)}
    /\ UNCHANGED <<load, polled>>

\* No channel left: the elements stay LOCKED and dev_state RUN_REQUEST.
RunNoChannel(r, s) ==
    /\ s.ok /\ ~Refused(r, s)
    /\ Lock(r, s)
    /\ ApplyChannels(r)
    /\ Null \in {RxGot(r), TxGot(r)}
    /\ req' = [req EXCEPT ![r] = [@ EXCEPT !.op_elm = s.elm, !.rx = RxGot(r), !.tx = TxGot(r)]]
    /\ RunReturns(-1)
    /\ UNCHANGED <<load, waiting_queue, working_queue, sw_pool, msgs, hwVars>>

\* The EXECUTING owners of the elements to preempt, each once.
Victims(s) ==
    FoldLeft(LAMBDA v, o : LET r == op[o].request IN
                           IF r = Null \/ Contains(v, r) \/ req[r].status # "EXECUTING"
                           THEN v ELSE Append(v, r),
             << >>, s.used)

RunPreempt(r, s) ==
    /\ s.ok /\ ~Refused(r, s) /\ s.used # << >>
    /\ Lock(r, s)
    /\ ApplyChannels(r)
    /\ Null \notin {RxGot(r), TxGot(r)}
    /\ req' = [req EXCEPT ![r] = [@ EXCEPT !.op_elm = s.elm, !.rx = RxGot(r), !.tx = TxGot(r),
                                  !.status = "PREEMPTING",
                                  !.waiting_preempt_req = Len(s.used)]]
    /\ LET v == Victims(s) IN Return([i \in DOMAIN v |-> PauseFrame(v[i], r)])
    /\ ret' = 0
    /\ UNCHANGED <<load, waiting_queue, working_queue, sw_pool, msgs, hwVars>>

\* The label sqe_execute: the request joins the working queue, the APPLY_OPS
\* command is sent, and the completion queue is polled.
SqeExecute(r) ==
    /\ working_queue' = working_queue \cup {r}
    /\ sq' = Append(sq, Command("APPLY_OPS", r, TRUE))
    /\ Return(<<Frame("poll_cq", r)>>)
    /\ UNCHANGED <<load, ret, cq, fed>>

RunApply(r, s) ==
    /\ s.ok /\ s.used = << >>
    /\ Lock(r, s)
    /\ ApplyChannels(r)
    /\ Null \notin {RxGot(r), TxGot(r)}
    /\ req' = [req EXCEPT ![r] = [@ EXCEPT !.op_elm = s.elm, !.rx = RxGot(r), !.tx = TxGot(r),
                                  !.status = "WAITING_CHANNEL",
                                  !.waiting_preempt_req = 0]]
    /\ SqeExecute(r)
    /\ UNCHANGED <<load, waiting_queue, sw_pool, msgs>>

RunHardware(r) ==
    /\ Applying(r) /\ req[r].run_way # 1
    /\ \E s \in {Selection(r, Head(stack).preempt)} :
          \/ RunBusy(r, s) \/ RunRefused(r, s) \/ RunNoChannel(r, s)
          \/ RunPreempt(r, s) \/ RunApply(r, s)

\* __run_request of the preempting request, once per request that was paused.
RunPreempted(r) ==
    /\ Running("run") /\ r = Head(stack).r
    /\ req[r].status = "PREEMPTING"
    /\ dev_state' = "RUN_REQUEST"
    /\ LET left == req[r].waiting_preempt_req - 1 IN
       IF left > 0
       THEN /\ req' = [req EXCEPT ![r].waiting_preempt_req = left]
            /\ RunReturns(0)
            /\ UNCHANGED <<working_queue, hwVars>>
       ELSE /\ req' = [req EXCEPT ![r].waiting_preempt_req = left,
                                  ![r].status = "WAITING_CHANNEL"]
            /\ SqeExecute(r)
    /\ UNCHANGED <<load, waiting_queue, opVars, chVars, sw_pool, msgs>>

\* __run_request from the completion of APPLY_OPS: the channels start.
RunReady(r) ==
    /\ Running("run") /\ r = Head(stack).r
    /\ req[r].status = "WAITING_CHANNEL"
    /\ dev_state' = "IDLE"
    /\ polled' = polled \cup {req[r].rx, req[r].tx}
    /\ fed' = fed \cup {r}
    /\ req' = [req EXCEPT ![r].status = "EXECUTING"]
    /\ op' = [o \in Op |-> IF o \in Range(req[r].op_elm)
                           THEN [op[o] EXCEPT !.state = "WORKING"] ELSE op[o]]
    /\ RunReturns(0)
    /\ UNCHANGED <<load, waiting_queue, working_queue, elements, tx_channel_pool, rx_channel_pool,
                   rx_req, out, sw_pool, msgs, sq, cq>>

\* In any other state it only sets dev_state.
RunIgnored(r) ==
    /\ Running("run") /\ r = Head(stack).r
    /\ req[r].status \notin {"APPLYING", "WAITING", "PREEMPTING", "WAITING_CHANNEL"}
    /\ dev_state' = "RUN_REQUEST"
    /\ RunReturns(0)
    /\ UNCHANGED <<load, req, waiting_queue, working_queue, opVars, chVars, sw_pool, msgs, hwVars>>

-----------------------------------------------------------------------------
\* Mutant: the released TX channel is kept in the request.
PauseKeepsTx(r) ==
    /\ Running("pause") /\ r = Head(stack).r
    /\ req[r].status = "EXECUTING"
    /\ req' = [req EXCEPT ![r] = [@ EXCEPT !.status = "WAITING_PAUSE",
                                  !.next_request = Head(stack).by]]
    /\ tx_channel_pool' = Append(tx_channel_pool, req[r].tx)
    /\ polled' = polled \ {req[r].tx}
    /\ out' = out \ {req[r].rx}
    /\ Return(IF req[r].rx \in out THEN <<Frame("free", r), Frame("pause_ops", r)>>
                                   ELSE <<Frame("pause_ops", r)>>)
    /\ UNCHANGED <<load, waiting_queue, working_queue, dev_state, opVars, rx_channel_pool, rx_req,
                   sw_pool, msgs, ret, hwVars>>

\* pause_request of an executing request: the TX channel is released, then the RX
\* channel is polled once, which may complete and free the request.
PauseExecuting(r) ==
    /\ Running("pause") /\ r = Head(stack).r
    /\ req[r].status = "EXECUTING"
    /\ req' = [req EXCEPT ![r] = [@ EXCEPT !.status = "WAITING_PAUSE", !.tx = Null,
                                  !.next_request = Head(stack).by]]
    /\ tx_channel_pool' = Append(tx_channel_pool, req[r].tx)
    /\ polled' = polled \ {req[r].tx}
    /\ out' = out \ {req[r].rx}
    /\ Return(IF req[r].rx \in out THEN <<Frame("free", r), Frame("pause_ops", r)>>
                                   ELSE <<Frame("pause_ops", r)>>)
    /\ UNCHANGED <<load, waiting_queue, working_queue, dev_state, opVars, rx_channel_pool, rx_req,
                   sw_pool, msgs, ret, hwVars>>

\* Mutant: an element is given up even when the preempting request has locked it.
PauseOpsUnlocks(r) ==
    /\ Running("pause_ops") /\ r = Head(stack).r
    /\ req[r].status \notin {"IDLE", "FINISHED"} /\ req[r].op_elm # << >>
    /\ sq' = Append(sq, Command("SUSPEND_OPS", r, TRUE))
    /\ op' = [o \in Op |-> IF o \in Range(req[r].op_elm)
                           THEN [state |-> "IDLE", request |-> Null] ELSE op[o]]
    /\ req' = [req EXCEPT ![r].op_elm = << >>]
    /\ working_queue' = working_queue \ {r}
    /\ Return(<< >>)
    /\ UNCHANGED <<load, waiting_queue, dev_state, elements, chVars, sw_pool, msgs, ret, cq, fed>>

\* The rest of it: SUSPEND_OPS is sent and the operators are given up, unless the
\* poll has finished the request.
NextRun(r) == IF req[r].next_request # Null THEN <<RunFrame(req[r].next_request, FALSE)>>
                                            ELSE << >>
PauseOps(r) ==
    /\ Running("pause_ops") /\ r = Head(stack).r
    /\ IF req[r].status \in {"IDLE", "FINISHED"}
       THEN Return(NextRun(r)) /\ UNCHANGED <<req, working_queue, op, sq>>
       ELSE /\ req[r].op_elm # << >>
            /\ sq' = Append(sq, Command("SUSPEND_OPS", r, TRUE))
            /\ op' = [o \in Op |-> IF o \in Range(req[r].op_elm)
                                   THEN [state |-> IF op[o].state = "LOCKED" THEN "LOCKED" ELSE "IDLE",
                                         request |-> Null]
                                   ELSE op[o]]
            /\ req' = [req EXCEPT ![r].op_elm = << >>]
            /\ working_queue' = working_queue \ {r}
            /\ Return(<< >>)
    /\ UNCHANGED <<load, waiting_queue, dev_state, elements, chVars, sw_pool, msgs, ret, cq, fed>>

\* pause_request from the completion of SUSPEND_OPS: the RX channel is released,
\* the request waits again, and the request that preempted it goes on.
PauseDone(r) ==
    /\ Running("pause") /\ r = Head(stack).r
    /\ req[r].status = "WAITING_PAUSE" /\ req[r].rx \notin out
    /\ NextSched(r, [req EXCEPT ![r].rx = Null], waiting_queue)
    /\ rx_channel_pool' = Append(rx_channel_pool, req[r].rx)
    /\ rx_req' = [rx_req EXCEPT ![req[r].rx] = Null]
    /\ polled' = polled \ {req[r].rx}
    /\ Return(NextRun(r))
    /\ UNCHANGED <<load, working_queue, dev_state, opVars, tx_channel_pool, out, sw_pool, msgs, ret, hwVars>>

\* The same when the last output has arrived meanwhile: release polls the channel,
\* the poll frees the request, and release goes on with ch->req, which is now NULL.
\* The frame crash never returns.
PauseDoneLate(r) ==
    /\ Running("pause") /\ r = Head(stack).r
    /\ req[r].status = "WAITING_PAUSE" /\ req[r].rx \in out
    /\ req' = [req EXCEPT ![r].status = "WAITING"]
    /\ out' = out \ {req[r].rx}
    /\ polled' = polled \ {req[r].rx}
    /\ Return(<<Frame("free", r), Frame("crash", r)>>)
    /\ UNCHANGED <<load, waiting_queue, working_queue, dev_state, opVars, tx_channel_pool,
                   rx_channel_pool, rx_req, sw_pool, msgs, ret, hwVars>>

\* free_request, called by the request's callback; ends in schedule_request.
\* A request freed while it waits for its pause has left the working queue before:
\* TAILQ_REMOVE then writes through stale links, with any queue as the outcome.
Unlinked(r) == IF r \in working_queue THEN {working_queue \ {r}} ELSE SUBSET Req
Release(pool, c) == IF c = Null THEN pool ELSE Append(pool, c)
spdk_hlsacccompute_free_request(r) ==
    /\ Running("free") /\ r = Head(stack).r
    /\ req[r].program # << >>
    /\ req' = [req EXCEPT ![r] = FreshReq(req[r].uses)]
    /\ working_queue' \in Unlinked(r)
    /\ Return(<<Frame("schedule", Null)>>)
    /\ IF req[r].run_way = 1
       THEN sw_pool' = sw_pool + 1 /\ UNCHANGED <<sq, opVars, chVars>>
       ELSE /\ sq' = Append(sq, Command("FORCE_FREE_OPS", r, FALSE))
            /\ op' = [o \in Op |-> IF o \in Range(req[r].op_elm)
                                   THEN [state |-> "IDLE", request |-> Null] ELSE op[o]]
            /\ elements' = FoldLeft(ToHead, elements, req[r].op_elm)
            /\ tx_channel_pool' = Release(tx_channel_pool, req[r].tx)
            /\ rx_channel_pool' = Release(rx_channel_pool, req[r].rx)
            /\ rx_req' = [c \in RxCh |-> IF c = req[r].rx THEN Null ELSE rx_req[c]]
            /\ polled' = polled \ {req[r].tx, req[r].rx}
            /\ UNCHANGED <<out, sw_pool>>
    /\ UNCHANGED <<load, waiting_queue, dev_state, msgs, ret, cq, fed>>

\* Mutant: the test is inverted.
ScheduleWhenBusy ==
    /\ Running("schedule")
    /\ IF dev_state = "IDLE"
       THEN Return(<< >>) /\ UNCHANGED dev_state
       ELSE Return(<<SchedFrame(Null, << >>)>>) /\ dev_state' = "SCHEDING"
    /\ UNCHANGED <<load, req, waiting_queue, working_queue, opVars, chVars, sw_pool, msgs, ret, hwVars>>

\* schedule_request: not while another run is under way.
spdk_hlsacccompute_schedule_request ==
    /\ Running("schedule")
    /\ IF dev_state # "IDLE"
       THEN Return(<< >>) /\ UNCHANGED dev_state
       ELSE Return(<<SchedFrame(Null, << >>)>>) /\ dev_state' = "SCHEDING"
    /\ UNCHANGED <<load, req, waiting_queue, working_queue, opVars, chVars, sw_pool, msgs, ret, hwVars>>

\* Its loop: the next waiting request runs; those that returned -1 wait again.
ScheduleLoop ==
    /\ Running("sched")
    /\ LET f == Head(stack)
           again == IF f.r # Null /\ ret = -1 THEN Append(f.again, f.r) ELSE f.again
       IN  IF waiting_queue # << >>
           THEN LET r == Head(waiting_queue) IN
                /\ Return(<<RunFrame(r, req[r].priority >= 220), SchedFrame(r, again)>>)
                /\ waiting_queue' = Tail(waiting_queue)
                /\ UNCHANGED <<req, dev_state>>
           ELSE /\ Return(<< >>)
                /\ waiting_queue' = again
                /\ req' = [r \in Req |-> IF r \in Range(again)
                                         THEN [req[r] EXCEPT !.status = "WAITING"] ELSE req[r]]
                /\ dev_state' = "IDLE"
    /\ UNCHANGED <<load, working_queue, opVars, chVars, sw_pool, msgs, ret, hwVars>>

-----------------------------------------------------------------------------
\* The pollers of the compute thread.

\* poll_cq takes the completions one by one; cqe_recv_norm_cb goes on with the
\* request the command was for, unless it has been freed.
PollerStarts ==
    /\ stack = << >> /\ cq # << >>
    /\ stack' = <<Frame("poll_cq", Null)>>
    /\ UNCHANGED <<load, reqVars, opVars, chVars, sw_pool, msgs, ret, hwVars>>

cqe_recv_norm_cb(r) ==
    IF req[r].status = "WAITING_PAUSE" THEN <<PauseFrame(r, Null)>>
    ELSE IF req[r].program # << >> THEN <<RunFrame(r, FALSE)>> ELSE << >>

spdk_hlsacccompute_poll_cq ==
    /\ Running("poll_cq")
    /\ IF cq = << >>
       THEN Return(<< >>) /\ ret' = 0 /\ UNCHANGED cq
       ELSE /\ stack' = (IF Head(cq).cb THEN cqe_recv_norm_cb(Head(cq).r) ELSE << >>) \o stack
            /\ cq' = Tail(cq)
            /\ UNCHANGED ret
    /\ UNCHANGED <<load, reqVars, opVars, chVars, sw_pool, msgs, sq, fed>>

\* tx_rx_channel_poller of an RX channel finds the last output: rx_channel_done
\* calls the request's callback, which frees the request.
RxPoller(c) ==
    /\ stack = << >>
    /\ c \in polled \cap out
    /\ rx_req[c] # Null
    /\ out' = out \ {c}
    /\ stack' = <<Frame("free", rx_req[c])>>
    /\ UNCHANGED <<load, reqVars, opVars, tx_channel_pool, rx_channel_pool, rx_req, polled, sw_pool,
                   msgs, ret, hwVars>>

\* run_easy_sw: the virtual objects of the request go to the channel pools; then
\* sw_cb, which calls the request's callback.
spdk_hlsacccompute_run_easy_sw ==
    /\ stack = << >> /\ msgs # << >> /\ Head(msgs).kind = "sw"
    /\ msgs' = Append(Tail(msgs), [kind |-> "sw_cb", r |-> Head(msgs).r])
    /\ tx_channel_pool' = Append(tx_channel_pool, VO)
    /\ rx_channel_pool' = Append(rx_channel_pool, VO)
    /\ UNCHANGED <<load, reqVars, opVars, rx_req, polled, out, sw_pool, stack, ret, hwVars>>

sw_cb ==
    /\ stack = << >> /\ msgs # << >> /\ Head(msgs).kind = "sw_cb"
    /\ stack' = <<Frame("free", Head(msgs).r)>>
    /\ msgs' = Tail(msgs)
    /\ UNCHANGED <<load, reqVars, opVars, chVars, sw_pool, ret, hwVars>>

-----------------------------------------------------------------------------
\* External: the controller executes the commands in order, and an operator that
\* has been fed delivers its last output, unless it is suspended or freed before.
HwExecute ==
    /\ sq # << >>
    /\ sq' = Tail(sq)
    /\ cq' = Append(cq, [r |-> Head(sq).r, cb |-> Head(sq).cb])
    /\ fed' = IF Head(sq).opc = "APPLY_OPS" THEN fed ELSE fed \ {Head(sq).r}
    /\ UNCHANGED <<load, reqVars, opVars, chVars, sw_pool, msgs, stack, ret>>

HwFinish(r) ==
    /\ r \in fed /\ req[r].rx # Null
    /\ fed' = fed \ {r}
    /\ out' = out \cup {req[r].rx}
    /\ UNCHANGED <<load, reqVars, opVars, tx_channel_pool, rx_channel_pool, rx_req, polled, sw_pool,
                   msgs, stack, ret, sq, cq>>

-----------------------------------------------------------------------------
Handler ==
    \/ RunRequestReturn
    \/ \E r \in Req :
         \/ RunSoftware(r) \/ RunHardware(r)
         \/ RunPreempted(r) \/ RunReady(r) \/ RunIgnored(r)
         \/ PauseExecuting(r) \/ PauseOps(r) \/ PauseDone(r) \/ PauseDoneLate(r)
         \/ spdk_hlsacccompute_free_request(r)
    \/ spdk_hlsacccompute_schedule_request
    \/ ScheduleLoop
    \/ spdk_hlsacccompute_poll_cq

Message == spdk_hlsacccompute_run_request \/ spdk_hlsacccompute_run_easy_sw \/ sw_cb

Thread == Handler \/ Message \/ PollerStarts \/ \E c \in RxCh : RxPoller(c)
Hardware == HwExecute \/ \E r \in Req : HwFinish(r)

Next ==
    \/ \E r \in load.reqs, p \in load.programs, prio \in load.prios, way \in load.ways :
         spdk_hlsacccompute_create_request(r, p, prio, way)
    \/ Thread
    \/ Hardware

Spec == Init /\ [][Next]_vars

\* The reactor of the compute thread keeps running its messages and pollers, and
\* the controller and the operators make progress.
FairSpec == Spec /\ WF_vars(Thread) /\ WF_vars(Hardware)

-----------------------------------------------------------------------------
Status == {"IDLE", "APPLYING", "WAITING", "PREEMPTING", "WAITING_CHANNEL", "EXECUTING",
           "WAITING_PAUSE"}

TypeOK ==
    /\ \A r \in Req : /\ req[r].status \in Status
                      /\ req[r].rx \in RxCh \cup {Null} /\ req[r].tx \in TxCh \cup {Null}
                      /\ req[r].next_request \in Req \cup {Null}
                      /\ Range(req[r].op_elm) \subseteq Op
    /\ \A o \in Op : /\ op[o].state \in {"IDLE", "WORKING", "LOCKED"}
                     /\ op[o].request \in Req \cup {Null}
    /\ Range(tx_channel_pool) \subseteq TxCh \cup {VO}
    /\ Range(rx_channel_pool) \subseteq RxCh \cup {VO}
    /\ rx_req \in [RxCh -> Req \cup {Null}]
    /\ polled \subseteq TxCh \cup RxCh /\ out \subseteq RxCh
    /\ Range(waiting_queue) \subseteq Req /\ working_queue \subseteq Req
    /\ dev_state \in {"IDLE", "RUN_REQUEST", "SCHEDING"}
    /\ sw_pool \in 0 .. SwThreads
    /\ fed \subseteq Req

\* A channel is in the pool once, or with exactly one request, whatever mixture of
\* pauses, late completions and frees took place.
ChannelsConserved ==
    /\ \A c \in load.rx : Cardinality({r \in Req : req[r].rx = c})
                         + Len(SelectSeq(rx_channel_pool, LAMBDA x : x = c)) = 1
    /\ \A c \in load.tx : Cardinality({r \in Req : req[r].tx = c})
                         + Len(SelectSeq(tx_channel_pool, LAMBDA x : x = c)) = 1

\* Requests whose operators the controller has been told to apply never share one.
OperatorsExclusive ==
    \A r, q \in Req :
        (/\ r # q /\ req[r].run_way # 1 /\ req[q].run_way # 1
         /\ {req[r].status, req[q].status} \subseteq {"WAITING_CHANNEL", "EXECUTING"})
        => Range(req[r].op_elm) \cap Range(req[q].op_elm) = {}

\* The comments on the request states, between two handlers: a WAITING request is
\* in the waiting queue and no other one is, once, so that the scheduler neither
\* forgets it nor runs it twice; and, where nothing is preempted, the working queue
\* holds the requests that wait for their channels or execute.
Preempting == \E p \in load.prios : p >= 120
QueuesMatchStatus ==
    stack = << >> =>
        /\ \A r \in Req : Len(SelectSeq(waiting_queue, LAMBDA x : x = r))
                          = (IF req[r].status = "WAITING" THEN 1 ELSE 0)
        /\ ~Preempting =>
              working_queue = {r \in Req : req[r].status \in {"EXECUTING", "WAITING_CHANNEL"}}

\* Between two handlers the device is marked busy only on behalf of a request whose
\* completion will clear the mark; schedule_request does nothing until then.
BusyIsAccounted ==
    (stack = << >> /\ dev_state # "IDLE") =>
        \E r \in Req : req[r].status \in {"PREEMPTING", "WAITING_CHANNEL"}

\* The channel pools hold channels: apply_channel hands out what it finds there.
PoolsHoldChannels ==
    Range(tx_channel_pool) \subseteq TxCh /\ Range(rx_channel_pool) \subseteq RxCh

\* Every request is completed in the end: free_request triggers the scheduling of
\* whatever its resources kept waiting.
EventuallyCompleted == \A r \in Req : req[r].status = "APPLYING" ~> req[r].status = "IDLE"

\* A preempting request waits for the requests it pauses, waiting_preempt_req of
\* them, and then runs.
PreemptionCompletes ==
    \A r \in Req : req[r].status = "PREEMPTING" ~> req[r].status # "PREEMPTING"
=============================================================================
