---------------------------- MODULE OffloadProofs ----------------------------
(****************************************************************************)
(* Proofs about Offload: transfers, remote calls and the success that an    *)
(* application reports.                                                     *)
(****************************************************************************)
EXTENDS Offload, TLAPS

\* Most leaves are first-order reasoning over sets and functions, which Zenon finds at
\* once; the leaves with arithmetic, records or sequences name SMT.
USE Zenon

-----------------------------------------------------------------------------
(* One transfer.                                                            *)
Xfer(W) == [next : Nat, stop : BOOLEAN, at : [W -> {"loop", "fetch", "io", "done"}],
            request : [W -> Nat], retries : [W -> Nat],
            record : [Requests -> {"none", "ok", "failed"}], moved : [Requests -> Nat]]

\* Every request below next has its record or a worker on it, no two workers are on
\* the same one, and a worker leaves when there is no request left or one has failed.
InHand(x, w) ==
    x.at[w] = "io" => /\ x.request[w] \in Requests /\ x.request[w] < x.next
                      /\ x.record[x.request[w]] = "none"
Apart(x) ==
    \A v, w \in Workers(x) :
        x.at[v] = "io" /\ x.at[w] = "io" /\ x.request[v] = x.request[w] => v = w
Accounted(x, i) ==
    /\ x.moved[i] = IF x.record[i] = "ok" THEN 1 ELSE 0
    /\ i >= x.next => x.record[i] = "none"
    /\ i < x.next /\ x.record[i] = "none" =>
          \E w \in Workers(x) : x.at[w] = "io" /\ x.request[w] = i
    /\ x.record[i] = "failed" => x.stop
Left(x, w) == x.at[w] = "done" => x.stop \/ x.next >= Chunks
XferInv(x) ==
    /\ Workers(x) # {} /\ x \in Xfer(Workers(x))
    /\ \A w \in Workers(x) : InHand(x, w) /\ Left(x, w)
    /\ Apart(x)
    /\ \A i \in Requests : Accounted(x, i)
    /\ x.stop => \E i \in Requests : x.record[i] = "failed"
Whole(x) == \A i \in Requests : x.moved[i] = 1

\* A transfer starts with every request to be made.
LEMMA XferFresh ==
    ASSUME NEW d \in Nat \ {0}
    PROVE  XferInv(TransferOf(d))
<1> DEFINE x == TransferOf(d)
<1>1. /\ x.next = 0 /\ x.stop = FALSE /\ x.at = [w \in 1 .. d |-> "loop"]
      /\ x.record = [i \in Requests |-> "none"] /\ x.moved = [i \in Requests |-> 0]
      /\ Workers(x) = 1 .. d
  BY DEF TransferOf, Workers
<1>2. Workers(x) # {} /\ x \in Xfer(Workers(x))
  <2>1. 1 \in 1 .. d
    BY SMT
  <2> QED BY <1>1, <2>1 DEF Xfer, TransferOf
<1>3. \A w \in Workers(x) : InHand(x, w) /\ Left(x, w)
  BY <1>1 DEF InHand, Left
<1>4. Apart(x)
  BY <1>1 DEF Apart
<1>5. \A i \in Requests : Accounted(x, i)
  BY <1>1, SMT DEF Accounted, Requests
<1>6. x.stop => \E i \in Requests : x.record[i] = "failed"
  BY <1>1
<1> QED BY <1>2, <1>3, <1>4, <1>5, <1>6, Zenon DEF XferInv

\* Every step of a worker keeps the account.
LEMMA XferStep ==
    ASSUME NEW x, XferInv(x), NEW w \in Workers(x),
           NEW y \in WorkerStep(x, w) \cup WorkerInterrupted(x, w) \cup WorkerFails(x, w)
    PROVE  XferInv(y)
<1> USE OffloadConstants
<1> DEFINE W == Workers(x)
<1>x. /\ x \in Xfer(W) /\ \A v \in W : InHand(x, v) /\ Left(x, v)
      /\ Apart(x) /\ \A i \in Requests : Accounted(x, i)
      /\ x.stop => \E i \in Requests : x.record[i] = "failed"
  BY DEF XferInv
<1>t. /\ x.next \in Nat /\ x.stop \in BOOLEAN /\ x.at \in [W -> {"loop", "fetch", "io", "done"}]
      /\ x.request \in [W -> Nat] /\ x.retries \in [W -> Nat]
      /\ x.record \in [Requests -> {"none", "ok", "failed"}] /\ x.moved \in [Requests -> Nat]
  BY <1>x DEF Xfer
<1>r. \A i \in Requests : i \in Nat /\ i < Chunks
  BY SMT DEF Requests
<1>n. 0 \in Nat /\ \A n \in Nat : n + 1 \in Nat
  BY SMT
<1>1. CASE x.at[w] = "loop" /\ y = [x EXCEPT !.at[w] = IF x.stop THEN "done" ELSE "fetch"]
  <2>1. /\ y.next = x.next /\ y.stop = x.stop /\ y.request = x.request /\ y.record = x.record
        /\ y.moved = x.moved /\ y.at = [x.at EXCEPT ![w] = IF x.stop THEN "done" ELSE "fetch"]
        /\ y \in Xfer(W) /\ Workers(y) = W
    BY <1>1, <1>x, <1>t DEF Xfer, Workers
  <2>2. \A v \in W : InHand(y, v) /\ Left(y, v)
    BY <1>1, <1>x, <1>t, <2>1, SMT DEF InHand, Left
  <2>3. Apart(y)
    BY <1>1, <1>x, <1>t, <2>1, SMT DEF Apart
  <2>4. \A i \in Requests : Accounted(y, i)
    BY <1>1, <1>x, <1>t, <2>1, SMT DEF Accounted
  <2> QED BY <1>x, <2>1, <2>2, <2>3, <2>4 DEF XferInv
<1>2. CASE x.at[w] = "fetch" /\ x.next >= Chunks /\ y = [x EXCEPT !.next = @ + 1, !.at[w] = "done"]
  <2>1. /\ y.next = x.next + 1 /\ y.stop = x.stop /\ y.request = x.request /\ y.record = x.record
        /\ y.moved = x.moved /\ y.at = [x.at EXCEPT ![w] = "done"]
        /\ y \in Xfer(W) /\ Workers(y) = W
    <3>1. /\ y.next = x.next + 1 /\ y.stop = x.stop /\ y.request = x.request /\ y.record = x.record
          /\ y.moved = x.moved /\ y.at = [x.at EXCEPT ![w] = "done"]
      BY <1>2, <1>x, <1>t DEF Xfer
    <3>2. y \in Xfer(W)
      BY <1>2, <1>x, <1>t, <1>n, Zenon DEF Xfer
    <3>3. Workers(y) = W
      BY <3>1, <1>t DEF Workers
    <3> QED BY <3>1, <3>2, <3>3
  <2>2. \A v \in W : InHand(y, v) /\ Left(y, v)
    BY <1>2, <1>x, <1>t, <2>1, <1>r, SMT DEF InHand, Left
  <2>3. Apart(y)
    BY <1>2, <1>x, <1>t, <2>1, SMT DEF Apart
  <2>4. \A i \in Requests : Accounted(y, i)
    BY <1>2, <1>x, <1>t, <1>r, <2>1, SMT DEF Accounted
  <2> QED BY <1>x, <2>1, <2>2, <2>3, <2>4 DEF XferInv
<1>3. CASE /\ x.at[w] = "fetch" /\ x.next < Chunks
           /\ y = [x EXCEPT !.next = @ + 1, !.request[w] = x.next, !.at[w] = "io"]
  <2>1. /\ y.next = x.next + 1 /\ y.stop = x.stop /\ y.request = [x.request EXCEPT ![w] = x.next]
        /\ y.record = x.record /\ y.moved = x.moved /\ y.at = [x.at EXCEPT ![w] = "io"]
        /\ y \in Xfer(W) /\ Workers(y) = W
    <3>1. /\ y.next = x.next + 1 /\ y.stop = x.stop /\ y.request = [x.request EXCEPT ![w] = x.next]
          /\ y.record = x.record /\ y.moved = x.moved /\ y.at = [x.at EXCEPT ![w] = "io"]
      BY <1>3, <1>x, <1>t DEF Xfer
    <3>2. y \in Xfer(W)
      BY <1>3, <1>x, <1>t, <1>n, Zenon DEF Xfer
    <3>3. Workers(y) = W
      BY <3>1, <1>t DEF Workers
    <3> QED BY <3>1, <3>2, <3>3
  <2>r. x.next \in Requests
    BY <1>3, <1>t, SMT DEF Requests
  <2>2. \A v \in W : InHand(y, v) /\ Left(y, v)
    <3> TAKE v \in W
    <3>1. CASE v = w
      <4>1. y.at[v] = "io" /\ y.request[v] = x.next /\ x.record[x.next] = "none"
        BY <3>1, <1>x, <1>t, <2>1, <2>r, SMT DEF Accounted
      <4> QED BY <4>1, <2>1, <2>r, <1>t, SMT DEF InHand, Left
    <3>2. CASE v # w
      <4>1. y.at[v] = x.at[v] /\ y.request[v] = x.request[v]
        BY <3>2, <2>1, <1>t
      <4> QED BY <4>1, <1>x, <1>t, <2>1, <1>r, SMT DEF InHand, Left
    <3> QED BY <3>1, <3>2
  <2>3. Apart(y)
    <3> SUFFICES ASSUME NEW u \in W, NEW v \in W, y.at[u] = "io", y.at[v] = "io",
                        y.request[u] = y.request[v], u # v
                 PROVE  FALSE
      BY <2>1 DEF Apart
    <3>1. \A v1 \in W : v1 # w => y.at[v1] = x.at[v1] /\ y.request[v1] = x.request[v1]
      BY <2>1, <1>t
    <3>2. \A v1 \in W : v1 # w /\ y.at[v1] = "io" => y.request[v1] < x.next
      BY <3>1, <1>x DEF InHand
    <3>3. y.request[w] = x.next
      BY <2>1, <1>t
    <3> QED BY <3>1, <3>2, <3>3, <1>x, <1>t, SMT DEF Apart
  <2>4. \A i \in Requests : Accounted(y, i)
    <3> TAKE i \in Requests
    <3>1. i = x.next => y.at[w] = "io" /\ y.request[w] = i
      BY <2>1, <1>t
    <3>2. \A v \in W : v # w => y.at[v] = x.at[v] /\ y.request[v] = x.request[v]
      BY <2>1, <1>t
    <3>3. i < x.next + 1 <=> i < x.next \/ i = x.next
      BY <1>t, <1>r, SMT
    <3>4. Accounted(x, i)
      BY <1>x
    <3>5. i < x.next /\ x.record[i] = "none" => \E v \in W : y.at[v] = "io" /\ y.request[v] = i
      BY <3>4, <3>2, <1>3 DEF Accounted
    <3>6. i >= x.next + 1 => i >= x.next
      BY <1>t, <1>r, SMT
    <3> QED BY <3>1, <3>3, <3>4, <3>5, <3>6, <2>1 DEF Accounted
  <2> QED BY <1>x, <2>1, <2>2, <2>3, <2>4 DEF XferInv
<1>4. CASE /\ x.at[w] = "io"
           /\ y = [x EXCEPT !.record[x.request[w]] = "ok", !.moved[x.request[w]] = @ + 1,
                            !.at[w] = "loop", !.retries[w] = 0]
  <2> DEFINE j == x.request[w]
  <2>j. j \in Requests /\ x.record[j] = "none" /\ j < x.next /\ x.moved[j] = 0
    BY <1>4, <1>x DEF InHand, Accounted
  <2>1. /\ y.next = x.next /\ y.stop = x.stop /\ y.request = x.request
        /\ y.record = [x.record EXCEPT ![j] = "ok"] /\ y.moved = [x.moved EXCEPT ![j] = @ + 1]
        /\ y.at = [x.at EXCEPT ![w] = "loop"]
        /\ y \in Xfer(W) /\ Workers(y) = W
    <3>1. /\ y.next = x.next /\ y.stop = x.stop /\ y.request = x.request
          /\ y.record = [x.record EXCEPT ![j] = "ok"] /\ y.moved = [x.moved EXCEPT ![j] = @ + 1]
          /\ y.at = [x.at EXCEPT ![w] = "loop"]
      BY <1>4, <1>x, <1>t, <2>j DEF Xfer
    <3>2. y \in Xfer(W)
      BY <1>4, <1>x, <1>t, <1>n, <2>j, Zenon DEF Xfer
    <3>3. Workers(y) = W
      BY <3>1, <1>t DEF Workers
    <3> QED BY <3>1, <3>2, <3>3
  <2>v. \A v \in W : v # w /\ x.at[v] = "io" => x.request[v] # j
    BY <1>4, <1>x DEF Apart
  <2> HIDE DEF j
  <2>2. \A v \in W : InHand(y, v) /\ Left(y, v)
    BY <1>4, <1>x, <1>t, <2>1, <2>v, SMT DEF InHand, Left
  <2>3. Apart(y)
    BY <1>4, <1>x, <1>t, <2>1, SMT DEF Apart
  <2>4. \A i \in Requests : Accounted(y, i)
    <3> TAKE i \in Requests
    <3>1. CASE i = j
      <4>1. y.moved[i] = 1 /\ y.record[i] = "ok"
        BY <3>1, <2>1, <2>j, <1>t, SMT
      <4> QED BY <4>1, <3>1, <2>1, <2>j, <1>t, <1>r, SMT DEF Accounted
    <3>2. CASE i # j
      <4>1. y.moved[i] = x.moved[i] /\ y.record[i] = x.record[i]
        BY <3>2, <2>1, <1>t
      <4>2. \A v \in W : x.at[v] = "io" /\ x.request[v] = i => y.at[v] = "io" /\ y.request[v] = i
        BY <3>2, <2>1, <1>t DEF j
      <4>3. Accounted(x, i)
        BY <1>x
      <4> QED BY <4>1, <4>2, <4>3, <2>1 DEF Accounted
    <3> QED BY <3>1, <3>2
  <2>5. y.stop => \E i \in Requests : y.record[i] = "failed"
    BY <1>x, <1>t, <2>1, <2>j, SMT
  <2> QED BY <1>x, <2>1, <2>2, <2>3, <2>4, <2>5 DEF XferInv
<1>5. CASE /\ x.at[w] = "io"
           /\ y = [x EXCEPT !.record[x.request[w]] = "failed", !.stop = TRUE, !.at[w] = "done"]
  <2> DEFINE j == x.request[w]
  <2>j. j \in Requests /\ x.record[j] = "none" /\ j < x.next /\ x.moved[j] = 0
    BY <1>5, <1>x DEF InHand, Accounted
  <2>1. /\ y.next = x.next /\ y.stop = TRUE /\ y.request = x.request
        /\ y.record = [x.record EXCEPT ![j] = "failed"] /\ y.moved = x.moved
        /\ y.at = [x.at EXCEPT ![w] = "done"]
        /\ y \in Xfer(W) /\ Workers(y) = W
    <3>1. /\ y.next = x.next /\ y.stop = TRUE /\ y.request = x.request
          /\ y.record = [x.record EXCEPT ![j] = "failed"] /\ y.moved = x.moved
          /\ y.at = [x.at EXCEPT ![w] = "done"]
      BY <1>5, <1>x, <1>t, <2>j DEF Xfer
    <3>2. y \in Xfer(W)
      BY <1>5, <1>x, <1>t, <2>j, Zenon DEF Xfer
    <3>3. Workers(y) = W
      BY <3>1, <1>t DEF Workers
    <3> QED BY <3>1, <3>2, <3>3
  <2>v. \A v \in W : v # w /\ x.at[v] = "io" => x.request[v] # j
    BY <1>5, <1>x DEF Apart
  <2>0. x.request[w] = j
    OBVIOUS
  <2> HIDE DEF j
  <2>2. \A v \in W : InHand(y, v) /\ Left(y, v)
    BY <1>5, <1>x, <1>t, <2>1, <2>v, SMT DEF InHand, Left
  <2>3. Apart(y)
    BY <1>5, <1>x, <1>t, <2>1, SMT DEF Apart
  <2>4. \A i \in Requests : Accounted(y, i)
    <3> TAKE i \in Requests
    <3>1. CASE i = j
      <4>1. y.moved[i] = 0 /\ y.record[i] = "failed"
        BY <3>1, <2>1, <2>j, <1>t
      <4> QED BY <4>1, <3>1, <2>1, <2>j, <1>t, <1>r, SMT DEF Accounted
    <3>2. CASE i # j
      <4>1. y.moved[i] = x.moved[i] /\ y.record[i] = x.record[i]
        BY <3>2, <2>1, <1>t, SMT
      <4>2. \A v \in W : x.at[v] = "io" /\ x.request[v] = i => y.at[v] = "io" /\ y.request[v] = i
        BY <3>2, <2>1, <2>0, <1>t
      <4>3. Accounted(x, i)
        BY <1>x
      <4> QED BY <4>1, <4>2, <4>3, <2>1 DEF Accounted
    <3> QED BY <3>1, <3>2
  <2>5. y.record[j] = "failed"
    BY <1>t, <2>1, <2>j
  <2> QED BY <1>x, <2>1, <2>2, <2>3, <2>4, <2>5, <2>j DEF XferInv
<1>6. CASE x.at[w] = "io" /\ y = [x EXCEPT !.retries[w] = @ + 1]
  <2>1. /\ y.next = x.next /\ y.stop = x.stop /\ y.request = x.request /\ y.record = x.record
        /\ y.moved = x.moved /\ y.at = x.at /\ y \in Xfer(W) /\ Workers(y) = W
    BY <1>6, <1>x, <1>t, SMT DEF Xfer, Workers
  <2> QED BY <1>x, <2>1, SMT DEF XferInv, InHand, Left, Apart, Accounted
<1>7. x.at[w] = "fetch" => x.next >= Chunks \/ x.next < Chunks
  BY <1>t, SMT
<1> QED BY <1>1, <1>2, <1>3, <1>4, <1>5, <1>6, <1>7
        DEF WorkerStep, WorkerLoop, WorkerClaim, WorkerMoves, WorkerInterrupted, WorkerFails

\* When the workers are gone, no failed record means that everything was moved once.
LEMMA XferExact ==
    ASSUME NEW x, XferInv(x)
    PROVE  /\ \A i \in Requests : x.moved[i] <= 1
           /\ Joined(x) => (TransferResult(x) <=> Whole(x))
<1> USE OffloadConstants
<1>1. \A i \in Requests : x.moved[i] <= 1
  BY SMT DEF XferInv, Accounted
<1>2. ASSUME Joined(x), TransferResult(x), NEW i \in Requests
      PROVE  x.moved[i] = 1
  <2>1. ~x.stop
    BY <1>2 DEF XferInv, TransferResult
  <2>2. x.next >= Chunks
    BY <1>2, <2>1 DEF XferInv, Joined, Left
  <2>3. i < x.next
    BY <2>2, SMT DEF Requests, XferInv, Xfer
  <2>4. x.record[i] # "none"
    BY <1>2, <2>3 DEF XferInv, Accounted, Joined
  <2>5. x.record[i] \in {"none", "ok", "failed"} /\ x.record[i] # "failed"
    BY <1>2 DEF XferInv, Xfer, TransferResult
  <2> QED BY <2>4, <2>5 DEF XferInv, Accounted
<1>3. Whole(x) => TransferResult(x)
  BY SMT DEF Whole, TransferResult, XferInv, Accounted
<1> QED BY <1>1, <1>2, <1>3 DEF Whole

-----------------------------------------------------------------------------
(* The applications.                                                        *)
Parts == {"enc", "dec"}
Flags == {"fd", "in", "out", "rs", "prog", "act"}
Pcs == {"open", "input", "output", "copy", "write", "writing", "range", "unstale", "load",
        "activate", "execute", "wait", "read", "reading", "verify", "dump", "save", "passed",
        "release", "call", "calling", "check", "answered", "store", "stored", "compare",
        "clean", "exit"}
App == [pc : Pcs, part : Parts, held : SUBSET Flags, run : 1 .. MaxRuns,
        status : {"failed", "passed", "stored"}]
AppType == mix \in Mixes /\ app \in [Procs -> App]

\* Which part of an application a can be where, and what it has reported by then; k is
\* its kind.
FlowOK(k, a) ==
    /\ k \in {"remote", "elsewhere"} => a.part = "enc"
    /\ k = "full" /\ a.pc \in {"verify", "release", "call", "calling", "answered"} => a.part = "enc"
    /\ k = "full" /\ a.pc \in {"store", "stored", "compare", "save", "passed"} => a.part = "dec"
    /\ k = "full" /\ a.status # "failed" => a.part = "dec"
    /\ a.status # "failed" => a.pc \in {"clean", "exit", "compare", "save", "passed"}

\* Where the last transfer was whole (w).
AfterRead == {"verify", "dump", "save", "passed", "store", "stored", "compare", "release", "call",
              "calling", "check"}
WholeOK(k, a, w) ==
    k # "elsewhere" /\ (a.pc \in AfterRead \/ a.status # "failed") => w

\* Where the call of this run, which is at s, is still to come, and where it was answered.
SetUpPcs == {"open", "input", "output", "copy", "write", "writing", "range", "unstale", "load",
             "activate", "execute", "wait", "read", "reading"}
BeforeCall == SetUpPcs \cup {"verify", "release", "call"}
CallOK(k, a, s) ==
    k \in {"remote", "full", "elsewhere"} /\ a.part = "enc" /\ a.pc \in BeforeCall => s = "none"
AnswerOK(k, a, s) ==
    /\ k = "remote" /\ (a.pc \in {"check", "dump", "passed"} \/ a.status # "failed") => s = "ok"
    /\ k = "full" /\ (a.part = "dec" \/ a.pc = "answered") => s = "ok"
    /\ k = "elsewhere" /\ (a.pc = "passed" \/ a.status # "failed") => s = "ok"
ProcOK(k, a, w, s) == FlowOK(k, a) /\ WholeOK(k, a, w) /\ CallOK(k, a, s) /\ AnswerOK(k, a, s)
ProcInv(p) == ProcOK(Kind(p), app[p], Whole(xfer[p]), call[Conn(p)].pc)
LaterInv(p) == \A r \in 1 .. MaxRuns : r > app[p].run => At(<<p, r>>, "none")

\* How an application goes from a to b, transfers and calls aside.
Same(a, b) == b.run = a.run /\ b.part = a.part /\ b.status = a.status
HostEdges == {<<"encrypt", "verify", "dump">>, <<"encrypt", "dump", "passed">>,
              <<"decrypt", "verify", "save">>, <<"decrypt", "save", "passed">>,
              <<"remote", "verify", "release">>, <<"remote", "release", "call">>,
              <<"remote", "check", "dump">>, <<"remote", "dump", "passed">>,
              <<"full", "verify", "release">>, <<"full", "release", "call">>,
              <<"full", "store", "stored">>, <<"full", "compare", "save">>,
              <<"full", "save", "passed">>}
CallEdges == {<<"remote", "check">>, <<"full", "answered">>, <<"elsewhere", "passed">>}
Edge(k, a, b, w, s) ==
    \/ Same(a, b) /\ b.pc \in {a.pc, "clean", "exit"}
    \/ Same(a, b) /\ a.pc \in SetUpPcs /\ b.pc \in SetUpPcs
    \/ /\ Same(a, b) /\ a.pc = "reading" /\ w
       /\ b.pc = IF k = "full" /\ a.part = "dec" THEN "store" ELSE "verify"
    \/ Same(a, b) /\ <<k, a.pc, b.pc>> \in HostEdges
    \/ Same(a, b) /\ a.pc = "calling" /\ s = "ok" /\ <<k, b.pc>> \in CallEdges
    \/ /\ Same(a, b) /\ a.pc = "clean" /\ b.pc = "compare"
       /\ k = "full" /\ a.part = "dec" /\ a.status = "stored"
    \/ /\ b.run = a.run /\ b.part = a.part /\ b.status = a.pc /\ b.pc \in {"clean", "exit"}
       /\ a.pc = "passed" \/ (a.pc = "stored" /\ k = "full")
    \/ /\ b.run = a.run /\ b.part = "dec" /\ b.status = a.status /\ b.pc = "open"
       /\ a.pc = "answered" /\ k = "full"

Kinds == {"encrypt", "decrypt", "remote", "full", "elsewhere", "none"}

\* Each of these ways keeps what is known of an application.
LEMMA EdgeKeeps ==
    ASSUME NEW k \in Kinds, NEW a \in App, NEW b \in App, NEW w, NEW s,
           ProcOK(k, a, w, s), Edge(k, a, b, w, s)
    PROVE  ProcOK(k, b, w, s)
<1> USE DEF ProcOK
<1>0. /\ a.pc \in Pcs /\ a.part \in Parts /\ a.status \in {"failed", "passed", "stored"}
      /\ b.pc \in Pcs /\ b.part \in Parts /\ b.status \in {"failed", "passed", "stored"}
  BY DEF App
<1>1. CASE Same(a, b) /\ b.pc \in {a.pc, "clean", "exit"}
  BY <1>1 DEF FlowOK, WholeOK, CallOK, AnswerOK, Same, AfterRead, BeforeCall, SetUpPcs
<1>2. CASE Same(a, b) /\ a.pc \in SetUpPcs /\ b.pc \in SetUpPcs
  BY <1>2, SMT DEF FlowOK, WholeOK, CallOK, AnswerOK, Same, AfterRead, BeforeCall, SetUpPcs
<1>3. CASE /\ Same(a, b) /\ a.pc = "reading" /\ w
           /\ b.pc = IF k = "full" /\ a.part = "dec" THEN "store" ELSE "verify"
  BY <1>3, <1>0 DEF FlowOK, WholeOK, CallOK, AnswerOK, Same, AfterRead, BeforeCall, SetUpPcs, Parts
<1>4. CASE Same(a, b) /\ <<k, a.pc, b.pc>> \in HostEdges
  BY <1>4, <1>0 DEF FlowOK, WholeOK, CallOK, AnswerOK, Same, AfterRead, BeforeCall, SetUpPcs, HostEdges
<1>5. CASE Same(a, b) /\ a.pc = "calling" /\ s = "ok" /\ <<k, b.pc>> \in CallEdges
  BY <1>5, <1>0 DEF FlowOK, WholeOK, CallOK, AnswerOK, Same, AfterRead, BeforeCall, SetUpPcs, CallEdges
<1>6. CASE /\ Same(a, b) /\ a.pc = "clean" /\ b.pc = "compare"
           /\ k = "full" /\ a.part = "dec" /\ a.status = "stored"
  BY <1>6 DEF FlowOK, WholeOK, CallOK, AnswerOK, Same, AfterRead, BeforeCall, SetUpPcs
<1>7. CASE /\ b.run = a.run /\ b.part = a.part /\ b.status = a.pc /\ b.pc \in {"clean", "exit"}
           /\ a.pc = "passed" \/ (a.pc = "stored" /\ k = "full")
  BY <1>7 DEF FlowOK, WholeOK, CallOK, AnswerOK, AfterRead, BeforeCall, SetUpPcs
<1>8. CASE /\ b.run = a.run /\ b.part = "dec" /\ b.status = a.status /\ b.pc = "open"
           /\ a.pc = "answered" /\ k = "full"
  BY <1>8 DEF FlowOK, WholeOK, CallOK, AnswerOK, AfterRead, BeforeCall, SetUpPcs
<1> QED BY <1>1, <1>2, <1>3, <1>4, <1>5, <1>6, <1>7, <1>8 DEF Edge

-----------------------------------------------------------------------------
(* One call.                                                                *)
Ops == {"echo", "adds_native", "roundtrip"}
CallRec == [pc : {"none", "connect", "send", "header", "words", "trailer", "ok", "failed"}, op : Ops]
Reply == {[kind |-> "none"], [kind |-> "error"]} \cup
         [kind : {"response"}, conn : Conns, op : Ops, words : {"native", "cpu"}]
NetRec == [up : 0 .. 2, down : 0 .. 3, rep : Reply, gone : BOOLEAN, hung : BOOLEAN]
RpcType ==
    /\ call \in [Conns -> CallRec] /\ net \in [Conns -> NetRec]
    /\ backlog \in Seq(Conns) /\ served \in SUBSET Conns
    /\ srv \in [pc : {"accept", "read", "process", "words", "trailer", "down"}, conn : Conns \cup {NoConn}]

Reading == {"header", "words", "trailer"}
Busy == {"read", "process", "words", "trailer"}

\* What the state of a call k, of its connection n, its place in the backlog (b), in the
\* server's hands (t) and among the answered ones (d) have to do with one another.
ConnOK(c, k, n, b, t, d) ==
    /\ k.pc \in {"none", "connect"} => n = NoNet /\ ~b /\ t \notin Busy
    /\ (b \/ t \in Busy) /\ ~n.gone => k.pc \in Reading \cup {"send"}
    /\ (n.up = 2 \/ t \in Busy \ {"read"}) /\ ~n.gone => k.pc \in Reading
    /\ n.rep.kind = "response" =>
          /\ n.rep.conn = c /\ n.rep.words = ResultWords(n.rep.op)
          /\ k.pc \in Reading /\ n.rep.op = k.op
    /\ n.down = 3 \/ k.pc = "ok" => d
InBacklog(c) == \E i \in DOMAIN backlog : backlog[i] = c
Turn(c) == IF srv.conn = c THEN srv.pc ELSE "accept"
ConnInv(c) == ConnOK(c, call[c], net[c], InBacklog(c), Turn(c), c \in served)
RpcInv == RpcType /\ \A c \in Conns : ConnInv(c)

\* A step that concerns the connection c alone leaves the others as they are.
LEMMA OthersKeep ==
    ASSUME RpcInv, RpcType', NEW c, ConnInv(c)',
           \A d \in Conns \ {c} : /\ call'[d] = call[d] /\ net'[d] = net[d]
                                  /\ InBacklog(d)' => InBacklog(d)
                                  /\ Turn(d)' = Turn(d) \/ Turn(d)' = "accept"
                                  /\ d \in served => d \in served'
    PROVE  RpcInv'
<1> SUFFICES ASSUME NEW d \in Conns, d # c PROVE ConnInv(d)'
  BY DEF RpcInv
<1>1. ConnOK(d, call[d], net[d], InBacklog(d), Turn(d), d \in served)
  BY DEF RpcInv, ConnInv
<1>2. "accept" \notin Busy
  BY DEF Busy
<1>3. ConnOK(d, call'[d], net'[d], InBacklog(d)', Turn(d)', d \in served')
  BY <1>1, <1>2 DEF ConnOK
<1> QED BY <1>3 DEF ConnInv

\* What closing a connection leaves of it.
LEMMA ClosedIs ==
    ASSUME NEW n \in NetRec
    PROVE  /\ ClosedByClient(n) \in NetRec /\ ClosedByClient(n).gone = TRUE
           /\ ClosedByClient(n).rep.kind = "none" /\ ClosedByClient(n).down = 0
           /\ ClosedByServer(n) \in NetRec
           /\ ClosedByServer(n).gone = n.gone
           /\ n.gone => ClosedByServer(n).rep.kind = "none" /\ ClosedByServer(n).down = 0
           /\ ~n.gone => /\ ClosedByServer(n).rep = n.rep /\ ClosedByServer(n).down = n.down
                         /\ ClosedByServer(n).up = 0
<1> DEFINE none == [kind |-> "none"]
<1>1. none \in Reply /\ none.kind = "none"
  BY DEF Reply
<1>2. n.up \in 0 .. 2 /\ n.down \in 0 .. 3 /\ n.rep \in Reply /\ n.gone \in BOOLEAN /\ n.hung \in BOOLEAN
  BY DEF NetRec
<1>3. NoNet = [up |-> 0, down |-> 0, rep |-> none, gone |-> FALSE, hung |-> FALSE]
  BY DEF NoNet
<1> HIDE DEF none
<1>4. NoNet \in NetRec
  BY <1>1, <1>3, SMT DEF NetRec
<1>5. GoneNet \in NetRec /\ GoneNet.gone = TRUE /\ GoneNet.rep = none /\ GoneNet.down = 0
  <2>1. GoneNet \in NetRec
    BY <1>4, Zenon DEF NetRec, GoneNet
  <2>2. GoneNet.gone = TRUE /\ GoneNet.rep = NoNet.rep /\ GoneNet.down = NoNet.down
    BY <1>4 DEF NetRec, GoneNet
  <2> QED BY <2>1, <2>2, <1>3
<1>6. /\ ClosedByClient(n) \in NetRec /\ ClosedByClient(n).gone = TRUE
      /\ ClosedByClient(n).rep.kind = "none" /\ ClosedByClient(n).down = 0
  <2>1. CASE n.hung
    BY <2>1, <1>5, <1>1 DEF ClosedByClient
  <2>2. CASE ~n.hung
    <3>1. ClosedByClient(n) = [up |-> n.up, down |-> 0, rep |-> none, gone |-> TRUE, hung |-> FALSE]
      BY <2>2, <1>3 DEF ClosedByClient
    <3>2. ClosedByClient(n) \in NetRec
      BY <3>1, <1>1, <1>2, SMT DEF NetRec
    <3> QED BY <3>1, <3>2, <1>1, SMT
  <2> QED BY <2>1, <2>2
<1>7. CASE n.gone
  <2>1. ClosedByServer(n) = GoneNet
    BY <1>7 DEF ClosedByServer
  <2> QED BY <2>1, <1>7, <1>6, <1>5, <1>1
<1>8. CASE ~n.gone
  <2>1. ClosedByServer(n) = [up |-> 0, down |-> n.down, rep |-> n.rep, gone |-> n.gone, hung |-> TRUE]
    BY <1>8 DEF ClosedByServer, NetRec
  <2>2. ClosedByServer(n) \in NetRec
    BY <2>1, <1>2, SMT DEF NetRec
  <2> QED BY <2>1, <2>2, <1>6, <1>8, SMT
<1> QED BY <1>7, <1>8

\* The client closes its connection.
LEMMA ReturnKeeps ==
    ASSUME RpcInv, NEW c \in Conns, NEW pc \in {"ok", "failed"}, pc = "ok" => c \in served,
           Return(c, pc)
    PROVE  RpcInv'
<1>1. /\ call'[c] = [NoCall EXCEPT !.pc = pc] /\ net'[c] = ClosedByClient(net[c])
      /\ \A d \in Conns \ {c} : call'[d] = call[d] /\ net'[d] = net[d]
      /\ backlog' = backlog /\ srv' = srv /\ served' = served
  BY DEF Return, RpcInv, RpcType
<1>2. call'[c] \in CallRec /\ call'[c].pc = pc
  BY <1>1 DEF CallRec, NoCall, Ops
<1>3. net'[c] \in NetRec /\ net'[c].gone = TRUE /\ net'[c].rep.kind = "none" /\ net'[c].down = 0
  <2>1. net[c] \in NetRec
    BY DEF RpcInv, RpcType
  <2>2. /\ ClosedByClient(net[c]) \in NetRec /\ ClosedByClient(net[c]).gone = TRUE
        /\ ClosedByClient(net[c]).rep.kind = "none" /\ ClosedByClient(net[c]).down = 0
    BY <2>1, ClosedIs
  <2>3. net'[c] = ClosedByClient(net[c])
    BY <1>1
  <2> QED BY <2>2, <2>3
<1>4. RpcType'
  <2>1. call' \in [Conns -> CallRec]
    BY <1>2 DEF Return, RpcInv, RpcType
  <2>2. net' \in [Conns -> NetRec]
    BY <1>3 DEF Return, RpcInv, RpcType
  <2> QED BY <1>1, <2>1, <2>2 DEF RpcInv, RpcType
<1>5. ConnInv(c)'
  <2>1. ConnOK(c, call'[c], net'[c], InBacklog(c)', Turn(c)', c \in served')
    BY <1>1, <1>2, <1>3, SMT DEF ConnOK
  <2> QED BY <2>1 DEF ConnInv
<1> QED BY <1>1, <1>4, <1>5, OthersKeep DEF InBacklog, Turn

\* The client goes on to the next part of the answer.
LEMMA ThenKeeps ==
    ASSUME RpcInv, NEW c \in Conns, NEW pc \in Reading, call[c].pc \in Reading,
           Then(c, pc), UNCHANGED <<net, backlog, srv, served>>
    PROVE  RpcInv'
<1>1. call[c] \in CallRec /\ call \in [Conns -> CallRec]
  BY DEF RpcInv, RpcType
<1>2. call' = [call EXCEPT ![c].pc = pc]
  BY DEF Then
<1>3. /\ call'[c].op = call[c].op /\ call'[c].pc = pc /\ call'[c] \in CallRec
      /\ \A d \in Conns \ {c} : call'[d] = call[d]
  BY <1>1, <1>2 DEF CallRec, Reading
<1>4. call' \in [Conns -> CallRec]
  BY <1>1, <1>2, <1>3
<1>5. RpcType'
  BY <1>4 DEF RpcInv, RpcType
<1>6. ConnInv(c)'
  <2>1. ConnOK(c, call[c], net[c], InBacklog(c), Turn(c), c \in served)
    BY DEF RpcInv, ConnInv
  <2>2. ConnOK(c, call'[c], net[c], InBacklog(c), Turn(c), c \in served)
    BY <2>1, <1>3 DEF ConnOK, Reading
  <2> QED BY <2>2 DEF ConnInv, InBacklog, Turn
<1> QED BY <1>3, <1>5, <1>6, OthersKeep DEF InBacklog, Turn

\* What is in the backlog after a connection came in.
LEMMA BacklogAppend ==
    ASSUME RpcType, NEW c \in Conns, backlog' = Append(backlog, c)
    PROVE  backlog' \in Seq(Conns) /\ \A d : InBacklog(d)' => InBacklog(d) \/ d = c
<1>1. backlog \in Seq(Conns)
  BY DEF RpcType
<1>2. backlog' \in Seq(Conns)
  BY <1>1, SMT
<1>3. Len(backlog') = Len(backlog) + 1 /\ backlog'[Len(backlog) + 1] = c
      /\ \A i \in 1 .. Len(backlog) : backlog'[i] = backlog[i]
  BY <1>1, SMT
<1>4. ASSUME NEW d, NEW i \in DOMAIN backlog', backlog'[i] = d, d # c
      PROVE  InBacklog(d)
  <2>1. i \in 1 .. Len(backlog) + 1
    BY <1>2, <1>3, SMT
  <2>2. i \in 1 .. Len(backlog)
    BY <2>1, <1>3, <1>4, <1>1, SMT
  <2> QED BY <2>2, <1>1, <1>3, <1>4, SMT DEF InBacklog
<1> QED BY <1>2, <1>4 DEF InBacklog

\* What is in the backlog after the server took the first.
LEMMA BacklogTail ==
    ASSUME RpcType, backlog # << >>, backlog' = Tail(backlog)
    PROVE  /\ backlog' \in Seq(Conns) /\ Head(backlog) \in Conns /\ InBacklog(Head(backlog))
           /\ \A d : InBacklog(d)' => InBacklog(d)
<1>1. backlog \in Seq(Conns) /\ Len(backlog) >= 1
  BY SMT DEF RpcType
<1>2. backlog' \in Seq(Conns) /\ Head(backlog) \in Conns
  BY <1>1, SMT
<1>3. Head(backlog) = backlog[1] /\ 1 \in DOMAIN backlog
  BY <1>1, SMT
<1>4. ASSUME NEW d, NEW i \in DOMAIN backlog', backlog'[i] = d
      PROVE  InBacklog(d)
  <2>1. i \in 1 .. Len(backlog) - 1 /\ backlog'[i] = backlog[i + 1]
    BY <1>1, SMT
  <2>2. i + 1 \in DOMAIN backlog
    BY <2>1, <1>1, SMT
  <2> QED BY <2>1, <2>2, <1>4 DEF InBacklog
<1> QED BY <1>2, <1>3, <1>4 DEF InBacklog

\* compute_u8 is called: its connection is new.
LEMMA StartKeeps ==
    ASSUME RpcInv, NEW c \in Conns, NEW op \in Ops, At(c, "none"),
           call' = [call EXCEPT ![c] = [pc |-> "connect", op |-> op]],
           UNCHANGED <<net, backlog, srv, served>>
    PROVE  RpcInv'
<1>1. /\ call'[c].pc = "connect" /\ call'[c] \in CallRec /\ call' \in [Conns -> CallRec]
      /\ \A d \in Conns \ {c} : call'[d] = call[d]
  BY DEF RpcInv, RpcType, CallRec
<1>2. RpcType'
  BY <1>1 DEF RpcInv, RpcType
<1>3. ConnInv(c)'
  <2>1. ConnOK(c, call[c], net[c], InBacklog(c), Turn(c), c \in served)
    BY DEF RpcInv, ConnInv
  <2>2. NoNet.rep.kind = "none" /\ NoNet.up = 0 /\ NoNet.down = 0
    BY DEF NoNet
  <2>3. ConnOK(c, call'[c], net[c], InBacklog(c), Turn(c), c \in served)
    BY <2>1, <2>2, <1>1 DEF ConnOK, Reading, At
  <2> QED BY <2>3, Zenon DEF ConnInv, InBacklog, Turn
<1> QED BY <1>1, <1>2, <1>3, OthersKeep DEF InBacklog, Turn

\* Every step of the client.
LEMMA ClientKeeps ==
    ASSUME RpcInv, NEW c \in Conns, ClientStep(c)
    PROVE  RpcInv'
<1>0. /\ call \in [Conns -> CallRec] /\ net \in [Conns -> NetRec] /\ call[c] \in CallRec
      /\ net[c] \in NetRec
  BY DEF RpcInv, RpcType
<1>c. ConnOK(c, call[c], net[c], InBacklog(c), Turn(c), c \in served)
  BY DEF RpcInv, ConnInv
<1>n. NoNet.rep.kind = "none" /\ NoNet.up = 0 /\ NoNet.down = 0 /\ NoNet.gone = FALSE
  BY DEF NoNet
<1>1. CASE Connect(c)
  <2>1. call' = [call EXCEPT ![c].pc = "send"] /\ backlog' = Append(backlog, c)
        /\ At(c, "connect") /\ UNCHANGED <<net, srv, served>>
    BY <1>1 DEF Connect, Then
  <2>2. /\ call'[c].pc = "send" /\ call'[c] \in CallRec /\ call' \in [Conns -> CallRec]
        /\ \A d \in Conns \ {c} : call'[d] = call[d]
    BY <2>1, <1>0 DEF CallRec
  <2>3. RpcType' /\ \A d : InBacklog(d)' => InBacklog(d) \/ d = c
    BY <2>1, <2>2, BacklogAppend DEF RpcInv, RpcType
  <2>4. ConnOK(c, call'[c], net[c], InBacklog(c)', Turn(c), c \in served)
    BY <2>1, <2>2, <1>c, <1>n DEF ConnOK, Reading, At
  <2>5. ConnInv(c)'
    BY <2>4, <2>1, Zenon DEF ConnInv, Turn
  <2> QED BY <2>1, <2>2, <2>3, <2>5, OthersKeep DEF Turn
<1>2. CASE ConnectFails(c)
  <2>1. call' = [call EXCEPT ![c] = [NoCall EXCEPT !.pc = "failed"]]
        /\ At(c, "connect") /\ UNCHANGED <<net, backlog, srv, served>>
    BY <1>2 DEF ConnectFails
  <2>2. /\ call'[c].pc = "failed" /\ call'[c] \in CallRec /\ call' \in [Conns -> CallRec]
        /\ \A d \in Conns \ {c} : call'[d] = call[d]
    BY <2>1, <1>0 DEF CallRec, NoCall, Ops
  <2>3. RpcType'
    BY <2>1, <2>2 DEF RpcInv, RpcType
  <2>4. ConnOK(c, call'[c], net[c], InBacklog(c), Turn(c), c \in served)
    BY <2>1, <2>2, <1>c, <1>n DEF ConnOK, Reading, At
  <2>5. ConnInv(c)'
    BY <2>4, <2>1, Zenon DEF ConnInv, Turn, InBacklog
  <2> QED BY <2>1, <2>2, <2>3, <2>5, OthersKeep DEF Turn, InBacklog
<1>3. CASE SendHeader(c)
  <2>1. net' = [net EXCEPT ![c].up = 1] /\ At(c, "send") /\ UNCHANGED <<call, backlog, srv, served>>
    BY <1>3 DEF SendHeader
  <2>2. /\ net'[c].up = 1 /\ net'[c].rep = net[c].rep /\ net'[c].down = net[c].down
        /\ net'[c].gone = net[c].gone /\ net'[c] \in NetRec /\ net' \in [Conns -> NetRec]
        /\ \A d \in Conns \ {c} : net'[d] = net[d]
    BY <2>1, <1>0, SMT DEF NetRec
  <2>3. RpcType'
    BY <2>1, <2>2 DEF RpcInv, RpcType
  <2>4. ConnOK(c, call[c], net'[c], InBacklog(c), Turn(c), c \in served)
    BY <2>1, <2>2, <1>c, SMT DEF ConnOK, Reading, At
  <2>5. ConnInv(c)'
    BY <2>4, <2>1, Zenon DEF ConnInv, Turn, InBacklog
  <2> QED BY <2>1, <2>2, <2>3, <2>5, OthersKeep DEF Turn, InBacklog
<1>4. CASE SendWords(c)
  <2>1. /\ net' = [net EXCEPT ![c].up = 2] /\ At(c, "send") /\ UNCHANGED <<backlog, srv, served>>
        /\ call' = [call EXCEPT ![c].pc = "header"]
    BY <1>4 DEF SendWords, Then
  <2>2. /\ net'[c].up = 2 /\ net'[c].rep = net[c].rep /\ net'[c].down = net[c].down
        /\ net'[c].gone = net[c].gone /\ net'[c] \in NetRec /\ net' \in [Conns -> NetRec]
        /\ \A d \in Conns \ {c} : net'[d] = net[d]
    BY <2>1, <1>0, SMT DEF NetRec
  <2>3. /\ call'[c].pc = "header" /\ call'[c].op = call[c].op /\ call'[c] \in CallRec
        /\ call' \in [Conns -> CallRec]
        /\ \A d \in Conns \ {c} : call'[d] = call[d]
    BY <2>1, <1>0 DEF CallRec
  <2>4. RpcType'
    BY <2>1, <2>2, <2>3 DEF RpcInv, RpcType
  <2>5. ConnOK(c, call'[c], net'[c], InBacklog(c), Turn(c), c \in served)
    BY <2>1, <2>2, <2>3, <1>c DEF ConnOK, Reading, At
  <2>6. ConnInv(c)'
    BY <2>5, <2>1, Zenon DEF ConnInv, Turn, InBacklog
  <2> QED BY <2>1, <2>2, <2>3, <2>4, <2>6, OthersKeep DEF Turn, InBacklog
<1>5. CASE ReceiveHeader(c)
  <2>1. CASE HeaderIsMine(c)
    BY <1>5, <2>1, ThenKeeps DEF ReceiveHeader, At, Reading
  <2>2. CASE ~HeaderIsMine(c)
    BY <1>5, <2>2, ReturnKeeps DEF ReceiveHeader
  <2> QED BY <2>1, <2>2
<1>6. CASE ReceiveWords(c)
  BY <1>6, ThenKeeps DEF ReceiveWords, At, Reading
<1>7. CASE ReceiveTrailer(c)
  BY <1>7, <1>c, ReturnKeeps DEF ReceiveTrailer, ConnOK
<1>8. CASE GiveUp(c)
  BY <1>8, ReturnKeeps DEF GiveUp
<1> QED BY <1>1, <1>2, <1>3, <1>4, <1>5, <1>6, <1>7, <1>8 DEF ClientStep

\* The server is done with a connection, whatever became of it.
LEMMA HangUpKeeps ==
    ASSUME RpcInv, NEW c \in Conns, srv.conn = c, NEW n \in NetRec,
           n.gone = net[c].gone,
           ~n.gone => /\ call[c].pc \notin {"none", "connect"}
                      /\ n.rep.kind = "response" =>
                            /\ n.rep.conn = c /\ n.rep.words = ResultWords(n.rep.op)
                            /\ call[c].pc \in Reading /\ n.rep.op = call[c].op
                      /\ n.down = 3 => c \in served',
           n.gone => call[c].pc \notin {"none", "connect"},
           srv' = Waiting, net' = [net EXCEPT ![c] = ClosedByServer(n)],
           call' = call, backlog' = backlog, served' \in {served, served \cup {c}}
    PROVE  RpcInv'
<1>0. net \in [Conns -> NetRec] /\ call[c] \in CallRec
  BY DEF RpcInv, RpcType
<1>c. ConnOK(c, call[c], net[c], InBacklog(c), Turn(c), c \in served)
  BY DEF RpcInv, ConnInv
<1>1. /\ net'[c] = ClosedByServer(n) /\ net' \in [Conns -> NetRec]
      /\ \A d \in Conns \ {c} : net'[d] = net[d]
  BY <1>0, ClosedIs
<1>2. RpcType'
  BY <1>1 DEF RpcInv, RpcType, Waiting
<1>3. \A d : Turn(d)' = "accept"
  BY DEF Turn, Waiting
<1>4. c \in served => c \in served'
  OBVIOUS
<1>5. n.gone \in BOOLEAN
  BY DEF NetRec
<1>6. ConnOK(c, call[c], net'[c], InBacklog(c), "accept", c \in served')
  <2>1. CASE n.gone
    <3>1. net'[c].gone /\ net'[c].rep.kind = "none" /\ net'[c].down = 0
      BY <2>1, <1>1, ClosedIs
    <3> QED BY <2>1, <3>1, <1>c, <1>4, SMT DEF ConnOK, Busy
  <2>2. CASE ~n.gone
    <3>1. /\ ~net'[c].gone /\ net'[c].rep = n.rep /\ net'[c].down = n.down /\ net'[c].up = 0
      BY <2>2, <1>1, ClosedIs
    <3> QED BY <2>2, <3>1, <1>c, <1>4, SMT DEF ConnOK, Busy
  <2> QED BY <2>1, <2>2, <1>5
<1>7. ConnInv(c)'
  BY <1>6, <1>3, Zenon DEF ConnInv, InBacklog
<1> QED BY <1>1, <1>2, <1>3, <1>7, OthersKeep DEF InBacklog

\* Every step of the server.
LEMMA ServerKeeps ==
    ASSUME RpcInv, ServerStep
    PROVE  RpcInv'
<1>1. CASE Accept
  <2>0. PICK c : c = Head(backlog)
    OBVIOUS
  <2>1. /\ srv.pc = "accept" /\ backlog # << >> /\ srv' = [pc |-> "read", conn |-> c]
        /\ backlog' = Tail(backlog) /\ UNCHANGED <<call, net, served>>
    BY <1>1, <2>0 DEF Accept, Serve
  <2>2. /\ backlog' \in Seq(Conns) /\ c \in Conns /\ InBacklog(c)
        /\ \A d : InBacklog(d)' => InBacklog(d)
    BY <2>0, <2>1, BacklogTail DEF RpcInv
  <2>3. RpcType'
    BY <2>1, <2>2 DEF RpcInv, RpcType
  <2>4. Turn(c)' = "read" /\ \A d : d # c => Turn(d)' = "accept"
    BY <2>1 DEF Turn
  <2>5. ConnOK(c, call[c], net[c], InBacklog(c), Turn(c), c \in served)
    BY <2>2 DEF RpcInv, ConnInv
  <2>6. Turn(c) = "accept"
    BY <2>1 DEF Turn
  <2>7. ConnOK(c, call[c], net[c], InBacklog(c)', "read", c \in served)
    BY <2>2, <2>5, <2>6 DEF ConnOK, Busy
  <2>8. ConnInv(c)'
    BY <2>1, <2>4, <2>7, Zenon DEF ConnInv
  <2> QED BY <2>1, <2>2, <2>3, <2>4, <2>8, OthersKeep
<1>2. ASSUME NEW c \in Conns,
             \/ ReadFrame(c) \/ ReadFails(c) \/ ProcessRequest(c) \/ ProcessFails(c)
             \/ WriteWords(c) \/ WriteTrailer(c)
      PROVE  RpcInv'
  <2>0. net \in [Conns -> NetRec] /\ net[c] \in NetRec /\ call[c] \in CallRec /\ call \in [Conns -> CallRec]
    BY DEF RpcInv, RpcType
  <2>c. ConnOK(c, call[c], net[c], InBacklog(c), Turn(c), c \in served)
    BY DEF RpcInv, ConnInv
  <2>s. srv.pc \in Busy /\ srv.conn = c /\ Turn(c) = srv.pc
    BY <1>2 DEF ReadFrame, ReadFails, ProcessRequest, ProcessFails, WriteWords, WriteTrailer, Turn, Busy
  <2>p. call[c].pc \notin {"none", "connect"}
    BY <2>c, <2>s DEF ConnOK
  <2>d. 1 \in 0 .. 3
    BY SMT
  <2>n. ASSUME NextConnection(c) PROVE RpcInv'
    BY <2>n, <2>0, <2>c, <2>s, <2>p, HangUpKeeps DEF NextConnection, ConnOK
  <2>1. CASE ReadFrame(c)
    <3>1. srv' = [pc |-> "process", conn |-> c] /\ net[c].up = 2 /\ UNCHANGED <<call, net, backlog, served>>
      BY <2>1 DEF ReadFrame, Serve
    <3>2. RpcType'
      BY <3>1 DEF RpcInv, RpcType
    <3>3. Turn(c)' = "process" /\ \A d : d # c => Turn(d)' = "accept"
      BY <3>1 DEF Turn
    <3>4. ConnOK(c, call[c], net[c], InBacklog(c), "process", c \in served)
      BY <3>1, <2>c, <2>s DEF ConnOK, Busy, Reading
    <3>5. ConnInv(c)'
      BY <3>1, <3>3, <3>4, Zenon DEF ConnInv, InBacklog
    <3> QED BY <3>1, <3>2, <3>3, <3>5, OthersKeep DEF InBacklog
  <2>2. CASE ReadFails(c)
    BY <2>2, <2>n DEF ReadFails
  <2>3. CASE ProcessRequest(c)
    <3>1. CASE net[c].gone
      BY <2>3, <3>1, <2>n DEF ProcessRequest
    <3>2. CASE ~net[c].gone
      <4> DEFINE r == [kind |-> "response", conn |-> c, op |-> call[c].op,
                       words |-> ResultWords(call[c].op)]
      <4>1. /\ srv' = [pc |-> "words", conn |-> c] /\ UNCHANGED <<call, backlog, served>>
            /\ net' = [net EXCEPT ![c].down = 1, ![c].rep = r] /\ srv.pc = "process"
        BY <2>3, <3>2 DEF ProcessRequest, Serve
      <4>2. r \in Reply /\ r.kind = "response" /\ r.conn = c /\ r.op = call[c].op
            /\ r.words = ResultWords(r.op)
        BY <2>0 DEF Reply, CallRec, ResultWords
      <4> HIDE DEF r
      <4>3. /\ net'[c].down = 1 /\ net'[c].rep = r /\ net'[c].gone = net[c].gone
            /\ net'[c].up = net[c].up /\ \A d \in Conns \ {c} : net'[d] = net[d]
        BY <4>1, <2>0 DEF NetRec
      <4>4. net' \in [Conns -> NetRec]
        <5>1. PICK n : n = [[net[c] EXCEPT !.down = 1] EXCEPT !.rep = r]
          OBVIOUS
        <5>2. n \in NetRec
          BY <5>1, <4>2, <2>0, <2>d, Zenon DEF NetRec
        <5>3. net' = [net EXCEPT ![c] = n]
          BY <4>1, <5>1, <2>0 DEF NetRec
        <5> QED BY <5>2, <5>3, <2>0
      <4>5. RpcType'
        BY <4>1, <4>4 DEF RpcInv, RpcType
      <4>6. Turn(c)' = "words" /\ \A d : d # c => Turn(d)' = "accept"
        BY <4>1 DEF Turn
      <4>7. ConnOK(c, call[c], net'[c], InBacklog(c), "words", c \in served)
        BY <3>2, <4>1, <4>2, <4>3, <2>c, <2>s, <2>p, SMT DEF ConnOK, Busy, Reading
      <4>8. ConnInv(c)'
        BY <4>1, <4>6, <4>7, Zenon DEF ConnInv, InBacklog
      <4> QED BY <4>1, <4>3, <4>5, <4>6, <4>8, OthersKeep DEF InBacklog
    <3> QED BY <3>1, <3>2
  <2>4. CASE ProcessFails(c)
    <3> DEFINE e == [kind |-> "error"]
               n == [net[c] EXCEPT !.down = 1, !.rep = e]
    <3>1. e \in Reply /\ e.kind = "error"
      BY DEF Reply
    <3>2. /\ srv' = Waiting /\ UNCHANGED <<call, backlog, served>>
          /\ net' = [net EXCEPT ![c] = IF net[c].gone THEN GoneNet ELSE ClosedByServer(n)]
      BY <2>4 DEF ProcessFails
    <3> HIDE DEF e
    <3>3. n \in NetRec /\ n.gone = net[c].gone /\ n.rep = e /\ n.down = 1
      <4>1. n.gone = net[c].gone /\ n.rep = e /\ n.down = 1
        BY <2>0 DEF NetRec
      <4>2. n \in NetRec
        BY <2>0, <3>1, <2>d, Zenon DEF NetRec
      <4> QED BY <4>1, <4>2
    <3> HIDE DEF n
    <3>4. n.gone => ClosedByServer(n) = GoneNet
      BY DEF ClosedByServer
    <3>5. net' = [net EXCEPT ![c] = ClosedByServer(n)]
      BY <3>2, <3>3, <3>4
    <3>6. n.rep.kind # "response" /\ n.down # 3 /\ served' \in {served, served \cup {c}}
      BY <3>1, <3>2, <3>3, SMT
    <3> QED BY <3>2, <3>3, <3>5, <3>6, <2>s, <2>p, HangUpKeeps, Zenon
  <2>5. CASE WriteWords(c)
    <3>1. CASE net[c].gone
      BY <2>5, <3>1, <2>n DEF WriteWords
    <3>2. CASE ~net[c].gone
      <4>1. /\ srv' = [pc |-> "trailer", conn |-> c] /\ UNCHANGED <<call, backlog, served>>
            /\ net' = [net EXCEPT ![c].down = 2] /\ srv.pc = "words"
        BY <2>5, <3>2 DEF WriteWords, Serve
      <4>2. /\ net'[c].down = 2 /\ net'[c].rep = net[c].rep /\ net'[c].gone = net[c].gone
            /\ net'[c].up = net[c].up /\ \A d \in Conns \ {c} : net'[d] = net[d]
            /\ net' \in [Conns -> NetRec]
        BY <4>1, <2>0, SMT DEF NetRec
      <4>3. RpcType'
        BY <4>1, <4>2 DEF RpcInv, RpcType
      <4>4. Turn(c)' = "trailer" /\ \A d : d # c => Turn(d)' = "accept"
        BY <4>1 DEF Turn
      <4>5. ConnOK(c, call[c], net'[c], InBacklog(c), "trailer", c \in served)
        BY <3>2, <4>1, <4>2, <2>c, <2>s, <2>p, SMT DEF ConnOK, Busy, Reading
      <4>6. ConnInv(c)'
        BY <4>1, <4>4, <4>5, Zenon DEF ConnInv, InBacklog
      <4> QED BY <4>1, <4>2, <4>3, <4>4, <4>6, OthersKeep DEF InBacklog
    <3> QED BY <3>1, <3>2
  <2>6. CASE WriteTrailer(c)
    <3> DEFINE n == [net[c] EXCEPT !.down = 3]
    <3>1. /\ srv' = Waiting /\ UNCHANGED <<call, backlog>> /\ served' = served \cup {c}
          /\ net' = [net EXCEPT ![c] = ClosedByServer(n)]
      BY <2>6 DEF WriteTrailer
    <3>2. n \in NetRec /\ n.gone = net[c].gone /\ n.rep = net[c].rep
      BY <2>0, SMT DEF NetRec
    <3> HIDE DEF n
    <3> QED BY <3>1, <3>2, <2>c, <2>s, <2>p, HangUpKeeps DEF ConnOK
  <2> QED BY <1>2, <2>1, <2>2, <2>3, <2>4, <2>5, <2>6
<1> QED BY <1>1, <1>2 DEF ServerStep

\* The server is gone, and with it every connection it had not taken yet.
LEMMA AcceptFailsKeeps ==
    ASSUME RpcInv, AcceptFails
    PROVE  RpcInv'
<1>1. /\ srv.pc = "accept" /\ srv' = [pc |-> "down", conn |-> NoConn] /\ backlog' = << >>
      /\ net' = [c \in Conns |-> IF c \in Range(backlog) THEN ClosedByServer(net[c]) ELSE net[c]]
      /\ UNCHANGED <<call, served>>
  BY DEF AcceptFails
<1>2. net \in [Conns -> NetRec]
  BY DEF RpcInv, RpcType
<1>3. net' \in [Conns -> NetRec]
  BY <1>1, <1>2, ClosedIs
<1>4. RpcType'
  BY <1>1, <1>3, SMT DEF RpcInv, RpcType
<1>5. ASSUME NEW c \in Conns PROVE ConnInv(c)'
  <2>1. ConnOK(c, call[c], net[c], InBacklog(c), Turn(c), c \in served)
    BY DEF RpcInv, ConnInv
  <2>2. InBacklog(c)' = FALSE /\ Turn(c)' \notin Busy
    BY <1>1, SMT DEF InBacklog, Turn, Busy
  <2>3. c \in Range(backlog) => InBacklog(c)
    BY DEF Range, InBacklog
  <2>4. net[c] \in NetRec /\ net[c].gone \in BOOLEAN
    BY <1>2 DEF NetRec
  <2>5. net'[c] = net[c] \/ (InBacklog(c) /\ net'[c] = ClosedByServer(net[c]))
    <3>1. net'[c] = IF c \in Range(backlog) THEN ClosedByServer(net[c]) ELSE net[c]
      BY <1>1, Zenon
    <3> QED BY <3>1, <2>3, Zenon
  <2>6. /\ ClosedByServer(net[c]).gone = net[c].gone
        /\ net[c].gone => /\ ClosedByServer(net[c]).rep.kind = "none"
                          /\ ClosedByServer(net[c]).down = 0
        /\ ~net[c].gone => /\ ClosedByServer(net[c]).rep = net[c].rep
                           /\ ClosedByServer(net[c]).down = net[c].down
                           /\ ClosedByServer(net[c]).up = 0
    BY <2>4, ClosedIs
  <2>7. ConnOK(c, call[c], net'[c], FALSE, Turn(c)', c \in served)
    <3>1. CASE net'[c] = net[c]
      BY <3>1, <2>1, <2>2 DEF ConnOK
    <3>2. CASE InBacklog(c) /\ net'[c] = ClosedByServer(net[c]) /\ net[c].gone
      <4>1. net'[c].gone /\ net'[c].rep.kind = "none" /\ net'[c].down = 0
        BY <3>2, <2>6
      <4> QED BY <3>2, <4>1, <2>1, <2>2, SMT DEF ConnOK
    <3>3. CASE InBacklog(c) /\ net'[c] = ClosedByServer(net[c]) /\ ~net[c].gone
      <4>1. /\ ~net'[c].gone /\ net'[c].rep = net[c].rep /\ net'[c].down = net[c].down
            /\ net'[c].up = 0
        BY <3>3, <2>6
      <4> QED BY <3>3, <4>1, <2>1, <2>2, SMT DEF ConnOK
    <3> QED BY <2>4, <2>5, <3>1, <3>2, <3>3, Zenon
  <2> QED BY <1>1, <2>2, <2>7, Zenon DEF ConnInv
<1> QED BY <1>4, <1>5 DEF RpcInv

Inv ==
    /\ AppType /\ RpcInv /\ DOMAIN xfer = Procs
    /\ \A p \in Procs : XferInv(xfer[p]) /\ ProcInv(p) /\ LaterInv(p)

-----------------------------------------------------------------------------
(* The steps of an application, by what they do to it.                      *)

\* p alone goes to one of the states of T and is otherwise the same.
Jump(p, T) ==
    /\ mix' = mix /\ app' \in [Procs -> App]
    /\ \A q \in Procs \ {p} : app'[q] = app[q]
    /\ Same(app[p], app'[p]) /\ app'[p].pc \in T
Still == xfer' = xfer /\ UNCHANGED rpcVars

\* What Goto does.
LEMMA GotoIs ==
    ASSUME AppType, NEW p \in Procs, NEW pc \in Pcs, NEW held \in SUBSET Flags, Goto(p, pc, held)
    PROVE  /\ app' \in [Procs -> App] /\ \A q \in Procs \ {p} : app'[q] = app[q]
           /\ Same(app[p], app'[p]) /\ app'[p].pc = pc /\ app'[p].held = held
<1>1. app \in [Procs -> App] /\ app[p] \in App
  BY DEF AppType
<1>2. PICK a : a = [[app[p] EXCEPT !.pc = pc] EXCEPT !.held = held]
  OBVIOUS
<1>3. a \in App
  BY <1>1, <1>2, Zenon DEF App
<1>4. a.run = app[p].run /\ a.part = app[p].part /\ a.status = app[p].status
  BY <1>1, <1>2 DEF App
<1>5. a.pc = pc /\ a.held = held
  BY <1>1, <1>2 DEF App
<1>6. app' = [app EXCEPT ![p] = a]
  BY <1>1, <1>2 DEF Goto, App
<1> QED BY <1>1, <1>3, <1>4, <1>5, <1>6 DEF Same

\* A step of the host alone.
LEMMA HostStepIs ==
    ASSUME AppType, NEW p \in Procs, NEW from, NEW to \in Pcs, NEW fail \in Pcs,
           HostStep(p, from, to, fail)
    PROVE  Pc(p) = from /\ Jump(p, {to, fail}) /\ Still
<1>1. Held(p) \in SUBSET Flags
  BY DEF AppType, App, Held
<1> QED BY <1>1, GotoIs DEF HostStep, Jump, Still

\* The devices are opened.
LEMMA OpenIs ==
    ASSUME AppType, NEW p \in Procs, NEW fail \in Pcs, Open(p, fail)
    PROVE  Pc(p) = "open" /\ Jump(p, {"input", fail}) /\ Still
<1>1. Held(p) \in SUBSET Flags /\ Held(p) \cup {"fd"} \in SUBSET Flags
  BY DEF AppType, App, Held, Flags
<1>2. "input" \in Pcs
  BY DEF Pcs
<1> QED BY <1>1, <1>2, GotoIs DEF Open, Jump, Still

\* A command of the set-up.
LEMMA CommandIs ==
    ASSUME AppType, NEW p \in Procs, NEW from, NEW to \in Pcs, NEW flag \in SUBSET Flags,
           NEW accepted, NEW after, Command(p, from, to, flag, accepted, after)
    PROVE  Pc(p) = from /\ Jump(p, {to, "clean"}) /\ Still
<1>1. Held(p) \in SUBSET Flags /\ Held(p) \cup flag \in SUBSET Flags
  BY DEF AppType, App, Held
<1>2. "clean" \in Pcs
  BY DEF Pcs
<1>3. \/ Goto(p, to, Held(p) \cup flag) \/ Goto(p, "clean", Held(p))
  BY DEF Command
<1>4. Pc(p) = from /\ mix' = mix /\ Still
  BY DEF Command, Still
<1> QED BY <1>1, <1>2, <1>3, <1>4, GotoIs DEF Jump

\* A command of the cleanup.
LEMMA TakeDownIs ==
    ASSUME AppType, NEW p \in Procs, NEW flag, NEW stop, TakeDown(p, flag, stop)
    PROVE  Jump(p, {Pc(p), "clean"}) /\ Still
<1>1. Held(p) \in SUBSET Flags /\ Held(p) \ {flag} \in SUBSET Flags /\ Pc(p) \in Pcs
  BY DEF AppType, App, Held, Pc
<1>2. "clean" \in Pcs
  BY DEF Pcs
<1>3. \/ Goto(p, Pc(p), Held(p) \ {flag}) \/ Goto(p, "clean", Held(p))
  BY DEF TakeDown
<1>4. mix' = mix /\ Still
  BY DEF TakeDown, Still
<1> QED BY <1>1, <1>2, <1>3, <1>4, GotoIs DEF Jump

\* The devices are closed.
LEMMA CloseIs ==
    ASSUME AppType, NEW p \in Procs, NEW from, NEW to \in Pcs, Close(p, from, to)
    PROVE  Pc(p) = from /\ Jump(p, {to}) /\ Still
<1>1. {} \in SUBSET Flags
  OBVIOUS
<1> QED BY <1>1, GotoIs DEF Close, Jump, Still

\* The last statement before the cleanup.
LEMMA SucceedIs ==
    ASSUME AppType, NEW p \in Procs, NEW from \in {"passed", "stored"}, NEW to \in Pcs,
           Succeed(p, from, to)
    PROVE  /\ Pc(p) = from /\ mix' = mix /\ Still /\ app' \in [Procs -> App]
           /\ \A q \in Procs \ {p} : app'[q] = app[q]
           /\ app'[p].run = app[p].run /\ app'[p].part = app[p].part /\ app'[p].pc = to
           /\ app'[p].status = from /\ app'[p].held = app[p].held
<1>1. app \in [Procs -> App] /\ app[p] \in App
  BY DEF AppType
<1>2. PICK a : a = [[app[p] EXCEPT !.pc = to] EXCEPT !.status = from]
  OBVIOUS
<1>3. a \in App
  BY <1>1, <1>2, Zenon DEF App
<1>4. a.run = app[p].run /\ a.part = app[p].part /\ a.held = app[p].held
  BY <1>1, <1>2 DEF App
<1>5. a.pc = to /\ a.status = from
  BY <1>1, <1>2 DEF App
<1>6. app' = [app EXCEPT ![p] = a]
  BY <1>1, <1>2 DEF Succeed, App
<1> QED BY <1>1, <1>3, <1>4, <1>5, <1>6, ZenonT(30) DEF Succeed, Still

Moves(p) ==
    /\ mix' = mix /\ app' \in [Procs -> App]
    /\ \A q \in Procs \ {p} : app'[q] = app[q]
    /\ Edge(Kind(p), app[p], app'[p], Whole(xfer[p]), call[Conn(p)].pc)
    /\ Still
Starts(p) ==
    /\ Pc(p) \in {"write", "read"} /\ Jump(p, {"writing", "reading"}) /\ UNCHANGED rpcVars
    /\ \E d \in Nat \ {0} : xfer' = [xfer EXCEPT ![p] = TransferOf(d)]
Works(p) ==
    /\ Pc(p) \in {"writing", "reading"} /\ UNCHANGED <<mix, app, rpcVars>>
    /\ \E w \in Workers(xfer[p]) :
          \E x \in WorkerStep(xfer[p], w) \cup WorkerInterrupted(xfer[p], w) \cup WorkerFails(xfer[p], w) :
             xfer' = [xfer EXCEPT ![p] = x]
Calls(p) ==
    /\ Kind(p) \in {"remote", "full", "elsewhere"}
    /\ Pc(p) = "call" /\ Jump(p, {"calling"}) /\ xfer' = xfer
    /\ \E op \in Ops : call' = [call EXCEPT ![Conn(p)] = [pc |-> "connect", op |-> op]]
    /\ UNCHANGED <<net, backlog, srv, served>>
Steps(p) == Moves(p) \/ Starts(p) \/ Works(p) \/ Calls(p) \/ CallStep(p)

\* The set-up goes from one of its states to another, or to the cleanup.
LEMMA SetUpMoves ==
    ASSUME AppType, NEW p \in Procs, NEW fill \in {"copy", "write"},
           SetUp(p, fill) \/ CopyFromSsd(p) \/ Open(p, "exit") \/ Open(p, "clean")
    PROVE  Moves(p)
<1> DEFINE T == SetUpPcs \cup {"clean", "exit"}
<1>1. /\ {"output", "copy", "write", "unstale", "load", "activate", "execute", "range"} \subseteq Pcs
      /\ {"exit", "clean"} \subseteq Pcs
  BY DEF Pcs
<1>2. /\ {} \in SUBSET Flags /\ {"in"} \in SUBSET Flags /\ {"out"} \in SUBSET Flags
      /\ {"rs"} \in SUBSET Flags /\ {"prog"} \in SUBSET Flags /\ {"act"} \in SUBSET Flags
  BY DEF Flags
<1>3. ASSUME SetUp(p, fill) PROVE Pc(p) \in SetUpPcs /\ Jump(p, T) /\ Still
  <2>1. CASE Command(p, "input", "output", {"in"}, TRUE, NsCreate(csd, Obj(p, "in")))
    BY <2>1, <1>1, <1>2, CommandIs DEF Jump, SetUpPcs
  <2>2. CASE Command(p, "output", fill, {"out"}, TRUE, NsCreate(csd, Obj(p, "out")))
    BY <2>2, <1>1, <1>2, CommandIs DEF Jump, SetUpPcs
  <2>3. CASE Command(p, "range", "unstale", {"rs"}, RangeSetFound(csd, Mems(p)),
                     RangeSetCreate(csd, Obj(p, "rs"), Mems(p)))
    BY <2>3, <1>1, <1>2, CommandIs DEF Jump, SetUpPcs
  <2>4. CASE Command(p, "unstale", "load", {}, TRUE, ProgramUnload(csd, Slot(p)))
    BY <2>4, <1>1, <1>2, CommandIs DEF Jump, SetUpPcs
  <2>5. CASE Command(p, "load", "activate", {"prog"}, LoadFits(csd, Slot(p)),
                     ProgramLoad(csd, Slot(p), Mine(p)))
    BY <2>5, <1>1, <1>2, CommandIs DEF Jump, SetUpPcs
  <2>6. CASE Command(p, "activate", "execute", {"act"}, LookupProgram(csd, Slot(p)),
                     ProgramActivate(csd, Slot(p), TRUE))
    BY <2>6, <1>1, <1>2, CommandIs DEF Jump, SetUpPcs
  <2> QED BY <1>3, <2>1, <2>2, <2>3, <2>4, <2>5, <2>6 DEF SetUp
<1>4. ASSUME CopyFromSsd(p) PROVE Pc(p) \in SetUpPcs /\ Jump(p, T) /\ Still
  BY <1>1, <1>2, <1>4, CommandIs DEF CopyFromSsd, Jump, SetUpPcs
<1>5. ASSUME Open(p, "exit") \/ Open(p, "clean") PROVE Pc(p) \in SetUpPcs /\ Jump(p, T) /\ Still
  BY <1>1, <1>5, OpenIs DEF Jump, SetUpPcs
<1>6. Pc(p) \in SetUpPcs /\ Jump(p, T) /\ Still
  BY <1>3, <1>4, <1>5
<1> QED BY <1>6 DEF Jump, Moves, Edge, Pc

\* The device is made to execute the program.
LEMMA ExecuteMoves ==
    ASSUME AppType, NEW p \in Procs, Execute(p) \/ ExecuteTimesOut(p)
    PROVE  Moves(p)
<1>1. Held(p) \in SUBSET Flags /\ "wait" \in Pcs /\ "clean" \in Pcs
  BY DEF AppType, App, Held, Pcs
<1>2. Goto(p, "wait", Held(p)) \/ Goto(p, "clean", Held(p))
  BY DEF Execute, ExecuteTimesOut
<1>3. Pc(p) \in SetUpPcs /\ mix' = mix /\ Still
  BY DEF Execute, ExecuteTimesOut, Still, SetUpPcs
<1>4. Jump(p, {"wait", "clean"})
  BY <1>1, <1>2, <1>3, GotoIs DEF Jump
<1> QED BY <1>3, <1>4 DEF Jump, Moves, Edge, Pc, SetUpPcs

\* A transfer starts, goes on, and ends; when it ends well it was whole.
LEMMA TransferSteps ==
    ASSUME AppType, NEW p \in Procs, XferInv(xfer[p]), NEW from, NEW busy, NEW which,
           NEW d \in Nat \ {0}, NEW to, Transfer(p, from, busy, which, d, to),
           \/ from = "write" /\ busy = "writing" /\ to = "range"
           \/ /\ from = "read" /\ busy = "reading"
              /\ to = IF Kind(p) = "full" /\ app[p].part = "dec" THEN "store" ELSE "verify"
    PROVE  Moves(p) \/ Starts(p) \/ Works(p)
<1>1. Held(p) \in SUBSET Flags /\ busy \in Pcs /\ "clean" \in Pcs /\ to \in Pcs
  BY DEF AppType, App, Held, Pcs
<1>2. CASE TransferStart(p, from, busy, d)
  <2>1. /\ Pc(p) = from /\ xfer' = [xfer EXCEPT ![p] = TransferOf(d)] /\ Goto(p, busy, Held(p))
        /\ mix' = mix /\ UNCHANGED rpcVars
    BY <1>2 DEF TransferStart
  <2>2. Jump(p, {"writing", "reading"})
    BY <2>1, <1>1, GotoIs DEF Jump
  <2> QED BY <2>1, <2>2 DEF Starts
<1>3. CASE TransferStep(p, busy, which)
  BY <1>3 DEF TransferStep, Works
<1>4. CASE TransferEnd(p, busy, to)
  <2>1. /\ Pc(p) = busy /\ Joined(xfer[p]) /\ mix' = mix /\ Still
        /\ Goto(p, IF TransferResult(xfer[p]) THEN to ELSE "clean", Held(p))
    BY <1>4 DEF TransferEnd, Still
  <2>2. CASE TransferResult(xfer[p])
    <3>1. Whole(xfer[p])
      BY <2>1, <2>2, XferExact
    <3>2. Goto(p, to, Held(p))
      BY <2>1, <2>2
    <3>3. Jump(p, {to})
      BY <3>2, <2>1, <1>1, GotoIs DEF Jump
    <3> QED BY <3>1, <3>3, <2>1 DEF Jump, Moves, Edge, Pc, SetUpPcs
  <2>3. CASE ~TransferResult(xfer[p])
    <3>1. Goto(p, "clean", Held(p))
      BY <2>1, <2>3
    <3>2. Jump(p, {"clean"})
      BY <3>1, <2>1, <1>1, GotoIs DEF Jump
    <3> QED BY <3>2, <2>1 DEF Jump, Moves, Edge, Pc
  <2> QED BY <2>2, <2>3
<1> QED BY <1>2, <1>3, <1>4 DEF Transfer

\* A step of the host goes on, or to the cleanup or the end.
LEMMA HostMoves ==
    ASSUME AppType, NEW p \in Procs, NEW from \in Pcs, NEW to \in Pcs, NEW fail \in {"clean", "exit"},
           HostStep(p, from, to, fail), <<Kind(p), from, to>> \in HostEdges
    PROVE  Moves(p)
<1>1. fail \in Pcs
  BY DEF Pcs
<1>2. Pc(p) = from /\ Jump(p, {to, fail}) /\ Still
  BY <1>1, HostStepIs
<1>3. app'[p].pc = to \/ app'[p].pc \in {"clean", "exit"}
  BY <1>2 DEF Jump
<1> QED BY <1>2, <1>3 DEF Jump, Moves, Edge, Pc

\* The cleanup and the release stay where they are, or go from the one to the other.
LEMMA CleanMoves ==
    ASSUME AppType, NEW p \in Procs, Clean(p) \/ Release(p)
    PROVE  Moves(p)
<1>1. ASSUME NEW flag, TakeDown(p, flag, FALSE) \/ TakeDown(p, flag, flag \in {"act", "prog"})
      PROVE  Jump(p, {Pc(p), "clean"}) /\ Still
  BY <1>1, TakeDownIs
<1>2. Jump(p, {Pc(p), "clean"}) /\ Still
  BY <1>1 DEF Clean, Release
<1> QED BY <1>2 DEF Jump, Moves, Edge, Pc

\* The devices are closed at the end, before the call, and before the comparison.
LEMMA CloseMoves ==
    ASSUME AppType, NEW p \in Procs, NEW from, NEW to \in {"exit", "call", "compare"}, Close(p, from, to),
           to = "call" => from = "release" /\ Kind(p) \in {"remote", "full"},
           to = "compare" => from = "clean" /\ Kind(p) = "full" /\ app[p].part = "dec" /\ app[p].status = "stored"
    PROVE  Moves(p)
<1>1. to \in Pcs
  BY DEF Pcs
<1>2. Pc(p) = from /\ Jump(p, {to}) /\ Still
  BY <1>1, CloseIs
<1> QED BY <1>2 DEF Jump, Moves, Edge, Pc, HostEdges

\* Success is reported.
LEMMA SucceedMoves ==
    ASSUME AppType, NEW p \in Procs, NEW from \in {"passed", "stored"}, NEW to \in {"clean", "exit"},
           Succeed(p, from, to), from = "stored" => Kind(p) = "full"
    PROVE  Moves(p)
<1>1. to \in Pcs
  BY DEF Pcs
<1>2. /\ Pc(p) = from /\ mix' = mix /\ Still /\ app' \in [Procs -> App]
      /\ \A q \in Procs \ {p} : app'[q] = app[q]
      /\ app'[p].run = app[p].run /\ app'[p].part = app[p].part /\ app'[p].pc = to
      /\ app'[p].status = from
  BY <1>1, SucceedIs
<1> QED BY <1>2 DEF Moves, Edge, Pc

\* The remote call.
LEMMA CallSteps ==
    ASSUME AppType, NEW p \in Procs, NEW ops \in SUBSET Ops, NEW to \in Pcs, Call(p, ops, to),
           <<Kind(p), to>> \in CallEdges
    PROVE  Moves(p) \/ Calls(p) \/ CallStep(p)
<1>1. Held(p) \in SUBSET Flags /\ "calling" \in Pcs /\ "clean" \in Pcs
  BY DEF AppType, App, Held, Pcs
<1>2. Kind(p) \in {"remote", "full", "elsewhere"}
  BY DEF CallEdges
<1>3. CASE CallStart(p, ops)
  <2>1. /\ Pc(p) = "call" /\ Goto(p, "calling", Held(p)) /\ mix' = mix /\ xfer' = xfer
        /\ \E op \in Ops : call' = [call EXCEPT ![Conn(p)] = [pc |-> "connect", op |-> op]]
        /\ UNCHANGED <<net, backlog, srv, served>>
    BY <1>3 DEF CallStart
  <2>2. Jump(p, {"calling"})
    BY <2>1, <1>1, GotoIs DEF Jump
  <2> QED BY <2>1, <2>2, <1>2 DEF Calls
<1>4. CASE CallEnd(p, to)
  <2>1. /\ Pc(p) = "calling" /\ mix' = mix /\ Still
        /\ Goto(p, IF call[Conn(p)].pc = "ok" THEN to ELSE "clean", Held(p))
    BY <1>4 DEF CallEnd, Still
  <2>2. CASE call[Conn(p)].pc = "ok"
    <3>1. Goto(p, to, Held(p))
      BY <2>1, <2>2
    <3>2. Jump(p, {to})
      BY <3>1, <2>1, <1>1, GotoIs DEF Jump
    <3> QED BY <3>2, <2>1, <2>2 DEF Jump, Moves, Edge, Pc
  <2>3. CASE call[Conn(p)].pc # "ok"
    <3>1. Goto(p, "clean", Held(p))
      BY <2>1, <2>3
    <3>2. Jump(p, {"clean"})
      BY <3>1, <2>1, <1>1, GotoIs DEF Jump
    <3> QED BY <3>2, <2>1 DEF Jump, Moves, Edge, Pc
  <2> QED BY <2>2, <2>3
<1> QED BY <1>3, <1>4 DEF Call

\* The steps of the applications, with the arguments they are taken with.
ReadTo(p) == IF Kind(p) = "full" /\ app[p].part = "dec" THEN "store" ELSE "verify"
FailTo(p, from) == IF Kind(p) = "full" /\ from \in {"compare", "save"} THEN "exit" ELSE "clean"
Answered(p) ==
    /\ Kind(p) = "full" /\ Pc(p) = "answered"
    /\ app' = [app EXCEPT ![p].pc = "open", ![p].part = "dec"]
    /\ UNCHANGED <<mix, xfer, csd, exe, faults, excused, adrift, rpcVars>>
DeviceStep(p) ==
    \/ Open(p, "exit") \/ Open(p, "clean") \/ SetUp(p, "copy") \/ SetUp(p, "write")
    \/ CopyFromSsd(p) \/ Execute(p) \/ ExecuteTimesOut(p)
    \/ Transfer(p, "write", "writing", "in", 1, "range")
    \/ \E d \in Nat \ {0} : Transfer(p, "read", "reading", "out", d, ReadTo(p))
    \/ Clean(p) \/ Release(p)
ForwardStep(p) ==
    \/ \E from, to \in Pcs :
          /\ <<Kind(p), from, to>> \in HostEdges /\ to # "call"
          /\ HostStep(p, from, to, FailTo(p, from))
    \/ \E ops \in SUBSET Ops, to \in Pcs : <<Kind(p), to>> \in CallEdges /\ Call(p, ops, to)
    \/ Answered(p)
EndStep(p) ==
    \/ Close(p, "clean", "exit")
    \/ Close(p, "release", "call") /\ Kind(p) \in {"remote", "full"}
    \/ /\ Close(p, "clean", "compare")
       /\ Kind(p) = "full" /\ app[p].part = "dec" /\ app[p].status = "stored"
    \/ Succeed(p, "passed", "clean")
    \/ Succeed(p, "passed", "exit") /\ Kind(p) \in {"full", "elsewhere"}
    \/ Succeed(p, "stored", "clean") /\ Kind(p) = "full"

\* Every step of an application is one of these.
LEMMA AppStepCases ==
    ASSUME NEW p \in Procs, AppStep(p)
    PROVE  DeviceStep(p) \/ ForwardStep(p) \/ EndStep(p)
<1>d. Depth \in Nat \ {0} /\ 1 \in Nat \ {0}
  BY OffloadConstants, SMT
<1>h. ASSUME NEW from \in Pcs, NEW to \in Pcs, <<Kind(p), from, to>> \in HostEdges, to # "call",
             HostStep(p, from, to, FailTo(p, from))
      PROVE  ForwardStep(p)
  BY <1>h DEF ForwardStep
<1>c. ASSUME NEW ops \in SUBSET Ops, NEW to \in Pcs, <<Kind(p), to>> \in CallEdges, Call(p, ops, to)
      PROVE  ForwardStep(p)
  BY <1>c DEF ForwardStep
<1>1. CASE EncryptOffload(p)
  <2>1. Kind(p) = "encrypt"
    BY <1>1 DEF EncryptOffload
  <2>2. CASE EncryptPrepare(p) \/ EncryptRun(p)
    BY <2>1, <2>2, <1>d DEF EncryptPrepare, EncryptRun, DeviceStep, ReadTo
  <2>3. CASE EncryptFinish(p)
    BY <2>1, <2>3, <1>h, SMT DEF EncryptFinish, FailTo, HostEdges, Pcs
  <2>4. CASE EncryptCleanup(p)
    BY <2>4 DEF EncryptCleanup, DeviceStep, EndStep
  <2> QED BY <1>1, <2>2, <2>3, <2>4 DEF EncryptOffload
<1>2. CASE DecryptOffload(p)
  <2>1. Kind(p) = "decrypt"
    BY <1>2 DEF DecryptOffload
  <2>2. CASE DecryptPrepare(p) \/ DecryptRun(p)
    BY <2>1, <2>2, <1>d DEF DecryptPrepare, DecryptRun, DeviceStep, ReadTo
  <2>3. CASE DecryptFinish(p)
    BY <2>1, <2>3, <1>h, SMT DEF DecryptFinish, FailTo, HostEdges, Pcs
  <2>4. CASE DecryptCleanup(p)
    BY <2>4 DEF DecryptCleanup, DeviceStep, EndStep
  <2> QED BY <1>2, <2>2, <2>3, <2>4 DEF DecryptOffload
<1>3. CASE RemoteOffload(p)
  <2>1. Kind(p) = "remote"
    BY <1>3 DEF RemoteOffload
  <2>2. ASSUME HostStep(p, "verify", "release", "clean") PROVE ForwardStep(p)
    BY <2>1, <2>2, <1>h, SMT DEF FailTo, HostEdges, Pcs
  <2>3. CASE RemotePrepare(p) \/ RemoteRun(p)
    BY <2>1, <2>2, <2>3, <1>d DEF RemotePrepare, RemoteRun, DeviceStep, ReadTo
  <2>4. CASE RemoteRelease(p)
    BY <2>1, <2>4 DEF RemoteRelease, DeviceStep, EndStep
  <2>5. CASE RemoteCall(p)
    <3>1. ASSUME Call(p, {"echo", "adds_native"}, "check") PROVE ForwardStep(p)
      BY <3>1, <2>1, <1>c DEF CallEdges, Pcs, Ops
    <3>2. ASSUME HostStep(p, "check", "dump", "clean") \/ HostStep(p, "dump", "passed", "clean")
          PROVE  ForwardStep(p)
      BY <3>2, <2>1, <1>h, SMT DEF FailTo, HostEdges, Pcs
    <3> QED BY <2>5, <3>1, <3>2 DEF RemoteCall
  <2>6. CASE RemoteCleanup(p)
    BY <2>6 DEF RemoteCleanup, DeviceStep, EndStep
  <2> QED BY <1>3, <2>3, <2>4, <2>5, <2>6 DEF RemoteOffload
<1>4. CASE FullPipeline(p)
  <2>1. Kind(p) = "full"
    BY <1>4 DEF FullPipeline
  <2>2. CASE FullPrepare(p) \/ FullRun(p)
    <3>1. ASSUME HostStep(p, "verify", "release", "clean") PROVE ForwardStep(p)
      BY <3>1, <2>1, <1>h, SMT DEF FailTo, HostEdges, Pcs
    <3> QED BY <2>1, <2>2, <3>1, <1>d DEF FullPrepare, FullRun, Part, DeviceStep, ReadTo
  <2>3. CASE FullRelease(p)
    BY <2>1, <2>3 DEF FullRelease, DeviceStep, EndStep
  <2>4. CASE FullCall(p)
    <3>1. ASSUME Call(p, {"echo", "roundtrip"}, "answered") PROVE ForwardStep(p)
      BY <3>1, <2>1, <1>c DEF CallEdges, Pcs, Ops
    <3> QED BY <2>1, <2>4, <3>1 DEF FullCall, Answered, ForwardStep
  <2>5. CASE DecryptStorePrepare(p) \/ DecryptStoreRun(p)
    <3>1. ASSUME HostStep(p, "store", "stored", "clean") PROVE ForwardStep(p)
      BY <3>1, <2>1, <1>h, SMT DEF FailTo, HostEdges, Pcs
    <3> QED BY <2>1, <2>5, <3>1, <1>d
            DEF DecryptStorePrepare, DecryptStoreRun, Part, DeviceStep, ReadTo
  <2>6. CASE DecryptStoreCleanup(p)
    <3>1. ASSUME Part(p, "dec"), Close(p, "clean", IF app[p].status = "stored" THEN "compare" ELSE "exit")
          PROVE  EndStep(p)
      BY <3>1, <2>1 DEF Part, EndStep
    <3> QED BY <2>1, <2>6, <3>1 DEF DecryptStoreCleanup, DeviceStep, EndStep
  <2>7. CASE FullFinish(p)
    <3>1. ASSUME HostStep(p, "compare", "save", "exit") \/ HostStep(p, "save", "passed", "exit")
          PROVE  ForwardStep(p)
      BY <3>1, <2>1, <1>h, SMT DEF FailTo, HostEdges, Pcs
    <3> QED BY <2>1, <2>7, <3>1 DEF FullFinish, EndStep
  <2>8. CASE FullCleanup(p)
    BY <2>8 DEF FullCleanup, DeviceStep, EndStep
  <2> QED BY <1>4, <2>2, <2>3, <2>4, <2>5, <2>6, <2>7, <2>8 DEF FullPipeline
<1>5. CASE Elsewhere(p)
  <2>1. ASSUME Call(p, {"adds_native"}, "passed"), Kind(p) = "elsewhere" PROVE ForwardStep(p)
    BY <2>1, <1>c DEF CallEdges, Pcs, Ops
  <2> QED BY <1>5, <2>1 DEF Elsewhere, EndStep
<1> QED BY <1>1, <1>2, <1>3, <1>4, <1>5 DEF AppStep

\* The answer goes to the second part.
LEMMA AnsweredIs ==
    ASSUME AppType, NEW p \in Procs, Answered(p)
    PROVE  /\ mix' = mix /\ Still /\ app' \in [Procs -> App]
           /\ \A q \in Procs \ {p} : app'[q] = app[q]
           /\ app'[p].run = app[p].run /\ app'[p].part = "dec" /\ app'[p].pc = "open"
           /\ app'[p].status = app[p].status /\ app'[p].held = app[p].held
<1>1. app \in [Procs -> App] /\ app[p] \in App
  BY DEF AppType
<1>2. PICK a : a = [[app[p] EXCEPT !.pc = "open"] EXCEPT !.part = "dec"]
  OBVIOUS
<1>3. a \in App
  <2>1. "open" \in Pcs /\ "dec" \in Parts
    BY DEF Pcs, Parts
  <2> QED BY <1>1, <1>2, <2>1, Zenon DEF App
<1>4. /\ a.run = app[p].run /\ a.status = app[p].status /\ a.pc = "open" /\ a.part = "dec"
      /\ a.held = app[p].held
  BY <1>1, <1>2 DEF App
<1>5. app' = [app EXCEPT ![p] = a]
  BY <1>1, <1>2, Zenon DEF App, Answered
<1>6. app' \in [Procs -> App] /\ app'[p] = a /\ \A q \in Procs \ {p} : app'[q] = app[q]
  BY <1>1, <1>3, <1>5
<1> QED BY <1>4, <1>6 DEF Answered, Still

\* What a step of an application does to the application, its transfer and its call.
LEMMA AppStepIs ==
    ASSUME AppType, NEW p \in Procs, XferInv(xfer[p]), AppStep(p)
    PROVE  Steps(p)
<1>1. CASE DeviceStep(p)
  <2>1. 1 \in Nat \ {0}
    BY SMT
  <2>2. ASSUME Transfer(p, "write", "writing", "in", 1, "range") PROVE Steps(p)
    BY <2>1, <2>2, TransferSteps DEF Steps
  <2>3. ASSUME NEW d \in Nat \ {0}, Transfer(p, "read", "reading", "out", d, ReadTo(p)) PROVE Steps(p)
    BY <2>3, TransferSteps DEF Steps, ReadTo
  <2> QED BY <1>1, <2>2, <2>3, SetUpMoves, ExecuteMoves, CleanMoves DEF DeviceStep, Steps
<1>2. CASE ForwardStep(p)
  <2>1. ASSUME NEW from \in Pcs, NEW to \in Pcs, <<Kind(p), from, to>> \in HostEdges,
               HostStep(p, from, to, FailTo(p, from))
        PROVE  Moves(p)
    BY <2>1, HostMoves DEF FailTo
  <2>2. ASSUME Answered(p) PROVE Moves(p)
    <3>1. Kind(p) = "full" /\ app[p].pc = "answered"
      BY <2>2 DEF Answered, Pc
    <3> QED BY <2>2, <3>1, AnsweredIs DEF Moves, Edge
  <2> QED BY <1>2, <2>1, <2>2, CallSteps DEF ForwardStep, Steps
<1>3. CASE EndStep(p)
  BY <1>3, CloseMoves, SucceedMoves DEF EndStep, Steps
<1> QED BY <1>1, <1>2, <1>3, AppStepCases

-----------------------------------------------------------------------------
(* The invariant.                                                           *)

\* What a step of p that leaves the others alone has to keep.
LEMMA ProcKeeps ==
    ASSUME Inv, NEW p \in Procs, mix' = mix, AppType', RpcInv',
           \A q \in Procs \ {p} : /\ app'[q] = app[q] /\ xfer'[q] = xfer[q]
                                  /\ \A r \in 1 .. MaxRuns : call'[<<q, r>>] = call[<<q, r>>],
           DOMAIN xfer' = Procs, XferInv(xfer'[p]), ProcInv(p)', LaterInv(p)'
    PROVE  Inv'
<1> SUFFICES ASSUME NEW q \in Procs, q # p
             PROVE  XferInv(xfer'[q]) /\ ProcInv(q)' /\ LaterInv(q)'
  BY DEF Inv
<1>1. app[q].run \in 1 .. MaxRuns
  BY DEF Inv, AppType, App
<1>2. XferInv(xfer[q]) /\ ProcInv(q) /\ LaterInv(q)
  BY DEF Inv
<1>3. call'[<<q, app[q].run>>] = call[<<q, app[q].run>>]
  BY <1>1
<1>4. ProcInv(q)'
  BY <1>2, <1>3 DEF ProcInv, Kind, Conn
<1>5. LaterInv(q)'
  BY <1>2 DEF LaterInv, At
<1> QED BY <1>2, <1>4, <1>5

\* The calls of an application are its own.
LEMMA ConnsApart ==
    ASSUME AppType, NEW p \in Procs
    PROVE  /\ Conn(p) \in Conns
           /\ \A q \in Procs, r \in 1 .. MaxRuns :
                 /\ <<q, r>> \in Conns
                 /\ <<q, r>> = Conn(p) => q = p /\ r = app[p].run
<1>1. app[p].run \in 1 .. MaxRuns
  BY DEF AppType, App
<1> QED BY <1>1, OffloadConstants DEF Conn

\* The steps of an application.
LEMMA StepsKeep ==
    ASSUME Inv, NEW p \in Procs, Steps(p)
    PROVE  Inv'
<1>0. /\ AppType /\ RpcInv /\ DOMAIN xfer = Procs /\ XferInv(xfer[p]) /\ ProcInv(p) /\ LaterInv(p)
      /\ app[p] \in App /\ Kind(p) \in Kinds
  BY OffloadConstants DEF Inv, AppType, Kind, Kinds
<1>1. CASE Moves(p)
  <2>1. /\ mix' = mix /\ app' \in [Procs -> App] /\ xfer' = xfer /\ UNCHANGED rpcVars
        /\ \A q \in Procs \ {p} : app'[q] = app[q]
        /\ Edge(Kind(p), app[p], app'[p], Whole(xfer[p]), call[Conn(p)].pc)
    BY <1>1 DEF Moves, Still
  <2>2. AppType' /\ RpcInv'
    BY <2>1, <1>0 DEF AppType, RpcInv, RpcType, ConnInv, InBacklog, Turn, rpcVars
  <2>3. app'[p] \in App /\ app'[p].run = app[p].run
    BY <2>1 DEF Edge, Same
  <2>4. ProcOK(Kind(p), app'[p], Whole(xfer[p]), call[Conn(p)].pc)
    BY <2>1, <2>3, <1>0, EdgeKeeps DEF ProcInv
  <2>5. ProcInv(p)' /\ LaterInv(p)'
    BY <2>1, <2>3, <2>4, <1>0 DEF ProcInv, LaterInv, Kind, Conn, At, rpcVars
  <2> QED BY <2>1, <2>2, <2>5, <1>0, ProcKeeps DEF rpcVars
<1>2. CASE Starts(p)
  <2>1. /\ mix' = mix /\ app' \in [Procs -> App] /\ UNCHANGED rpcVars
        /\ \A q \in Procs \ {p} : app'[q] = app[q]
        /\ Same(app[p], app'[p]) /\ app[p].pc \in {"write", "read"}
        /\ app'[p].pc \in {"writing", "reading"}
    BY <1>2 DEF Starts, Jump, Pc
  <2>2. PICK d \in Nat \ {0} : xfer' = [xfer EXCEPT ![p] = TransferOf(d)]
    BY <1>2 DEF Starts
  <2>3. /\ xfer'[p] = TransferOf(d) /\ \A q \in Procs \ {p} : xfer'[q] = xfer[q]
        /\ DOMAIN xfer' = Procs
    BY <2>2, <1>0
  <2>4. AppType' /\ RpcInv'
    BY <2>1, <1>0 DEF AppType, RpcInv, RpcType, ConnInv, InBacklog, Turn, rpcVars
  <2>5. XferInv(xfer'[p])
    BY <2>3, XferFresh
  <2>6. ProcOK(Kind(p), app[p], Whole(xfer[p]), call[Conn(p)].pc)
    BY <1>0 DEF ProcInv
  <2>7. ProcOK(Kind(p), app'[p], Whole(xfer'[p]), call[Conn(p)].pc)
    BY <2>1, <2>6
       DEF ProcOK, FlowOK, WholeOK, CallOK, AnswerOK, Same, AfterRead, BeforeCall, SetUpPcs
  <2>8. ProcInv(p)' /\ LaterInv(p)'
    BY <2>1, <2>7, <1>0 DEF ProcInv, LaterInv, Kind, Conn, At, rpcVars, Same
  <2> QED BY <2>1, <2>3, <2>4, <2>5, <2>8, <1>0, ProcKeeps DEF rpcVars
<1>3. CASE Works(p)
  <2>1. UNCHANGED <<mix, app, rpcVars>> /\ app[p].pc \in {"writing", "reading"}
    BY <1>3 DEF Works, Pc
  <2>2. PICK w \in Workers(xfer[p]) :
          \E x \in WorkerStep(xfer[p], w) \cup WorkerInterrupted(xfer[p], w) \cup WorkerFails(xfer[p], w) :
             xfer' = [xfer EXCEPT ![p] = x]
    BY <1>3 DEF Works
  <2>3. PICK x \in WorkerStep(xfer[p], w) \cup WorkerInterrupted(xfer[p], w) \cup WorkerFails(xfer[p], w) :
             xfer' = [xfer EXCEPT ![p] = x]
    BY <2>2
  <2>4. XferInv(x)
    BY <1>0, XferStep
  <2>5. /\ xfer'[p] = x /\ \A q \in Procs \ {p} : xfer'[q] = xfer[q]
        /\ DOMAIN xfer' = Procs
    BY <2>3, <1>0
  <2>6. AppType' /\ RpcInv'
    BY <2>1, <1>0 DEF AppType, RpcInv, RpcType, ConnInv, InBacklog, Turn, rpcVars
  <2>7. ProcOK(Kind(p), app[p], Whole(xfer[p]), call[Conn(p)].pc)
    BY <1>0 DEF ProcInv
  <2>8. ProcOK(Kind(p), app[p], Whole(xfer'[p]), call[Conn(p)].pc)
    BY <2>1, <2>7 DEF ProcOK, FlowOK, WholeOK, AfterRead
  <2>9. ProcInv(p)' /\ LaterInv(p)'
    BY <2>1, <2>8, <1>0 DEF ProcInv, LaterInv, Kind, Conn, At, rpcVars
  <2> QED BY <2>1, <2>4, <2>5, <2>6, <2>9, <1>0, ProcKeeps DEF rpcVars
<1>4. CASE Calls(p)
  <2>1. /\ mix' = mix /\ app' \in [Procs -> App] /\ xfer' = xfer
        /\ \A q \in Procs \ {p} : app'[q] = app[q]
        /\ Same(app[p], app'[p]) /\ app[p].pc = "call" /\ app'[p].pc = "calling"
        /\ Kind(p) \in {"remote", "full", "elsewhere"}
        /\ UNCHANGED <<net, backlog, srv, served>>
    BY <1>4 DEF Calls, Jump, Pc
  <2>2. PICK op \in Ops : call' = [call EXCEPT ![Conn(p)] = [pc |-> "connect", op |-> op]]
    BY <1>4 DEF Calls
  <2>3. ProcOK(Kind(p), app[p], Whole(xfer[p]), call[Conn(p)].pc)
    BY <1>0 DEF ProcInv
  <2>4. app[p].part = "enc"
    BY <2>1, <2>3 DEF ProcOK, FlowOK
  <2>5. At(Conn(p), "none")
    BY <2>1, <2>3, <2>4 DEF ProcOK, CallOK, BeforeCall, At
  <2>6. RpcInv'
    BY <2>1, <2>2, <2>5, <1>0, ConnsApart, StartKeeps
  <2>7. AppType'
    BY <2>1, <1>0 DEF AppType
  <2>8. \A q \in Procs, r \in 1 .. MaxRuns : ~(q = p /\ r = app[p].run) => call'[<<q, r>>] = call[<<q, r>>]
    BY <2>2, <1>0, ConnsApart, SMT DEF RpcInv, RpcType
  <2>9. ProcOK(Kind(p), app'[p], Whole(xfer[p]), call'[Conn(p)].pc)
    BY <2>1, <2>3, <2>4
       DEF ProcOK, FlowOK, WholeOK, CallOK, AnswerOK, Same, AfterRead, BeforeCall, SetUpPcs
  <2>10. ProcInv(p)'
    BY <2>1, <2>9 DEF ProcInv, Kind, Conn, Same
  <2>11. LaterInv(p)'
    BY <2>1, <2>8, <1>0, SMT DEF LaterInv, At, Same
  <2> QED BY <2>1, <2>6, <2>7, <2>8, <2>10, <2>11, <1>0, ProcKeeps
<1>5. CASE CallStep(p)
  <2>1. app[p].pc = "calling" /\ ClientStep(Conn(p)) /\ UNCHANGED <<mix, app, xfer>>
    BY <1>5 DEF CallStep, Pc, appVars
  <2>2. RpcInv'
    BY <2>1, <1>0, ConnsApart, ClientKeeps
  <2>3. \A c \in Conns \ {Conn(p)} : call'[c] = call[c]
    BY <2>1, <1>0 DEF ClientStep, Connect, ConnectFails, SendHeader, SendWords, ReceiveHeader,
          ReceiveWords, ReceiveTrailer, GiveUp, Return, Then, RpcInv, RpcType
  <2>4. \A q \in Procs, r \in 1 .. MaxRuns : ~(q = p /\ r = app[p].run) => call'[<<q, r>>] = call[<<q, r>>]
    BY <2>3, <1>0, ConnsApart
  <2>5. ProcOK(Kind(p), app[p], Whole(xfer[p]), call[Conn(p)].pc)
    BY <1>0 DEF ProcInv
  <2>6. ProcOK(Kind(p), app[p], Whole(xfer[p]), call'[Conn(p)].pc)
    BY <2>1, <2>5 DEF ProcOK, FlowOK, CallOK, AnswerOK, BeforeCall, SetUpPcs
  <2>7. ProcInv(p)'
    BY <2>1, <2>6 DEF ProcInv, Kind, Conn
  <2>8. LaterInv(p)'
    BY <2>1, <2>4, <1>0, SMT DEF LaterInv, At
  <2> QED BY <2>1, <2>2, <2>4, <2>7, <2>8, <1>0, ProcKeeps DEF AppType
<1> QED BY <1>1, <1>2, <1>3, <1>4, <1>5 DEF Steps

\* A started application is where it has to be.
LEMMA NewAppIs ==
    ASSUME NEW run \in 1 .. MaxRuns, NEW k \in Kinds, NEW w
    PROVE  /\ NewApp(run, k) \in App /\ NewApp(run, k).run = run
           /\ ProcOK(k, NewApp(run, k), w, "none")
<1> DEFINE a == NewApp(run, k)
<1>1. /\ a.pc = CASE k = "none" -> "exit" [] k = "elsewhere" -> "call" [] OTHER -> "open"
      /\ a.part = (IF k = "decrypt" THEN "dec" ELSE "enc") /\ a.held = {} /\ a.run = run
      /\ a.status = "failed"
  BY DEF NewApp
<1>2. a.pc = IF k = "none" THEN "exit" ELSE IF k = "elsewhere" THEN "call" ELSE "open"
  BY <1>1
<1>3. a \in App
  <2>1. a.pc \in Pcs /\ a.part \in Parts /\ a.held \in SUBSET Flags
    BY <1>1, <1>2 DEF Pcs, Parts
  <2>2. a = [pc |-> a.pc, part |-> a.part, held |-> a.held, run |-> a.run, status |-> a.status]
    BY DEF NewApp
  <2> QED BY <1>1, <2>1, <2>2 DEF App
<1> HIDE DEF a
<1>4. ProcOK(k, a, w, "none")
  BY <1>1, <1>2
     DEF ProcOK, FlowOK, WholeOK, CallOK, AnswerOK, AfterRead, BeforeCall, SetUpPcs, Kinds
<1> QED BY <1>1, <1>3, <1>4 DEF a

\* It holds at the start.
LEMMA InitInv ==
    ASSUME Init PROVE Inv
<1>1. mix \in Mixes /\ \A p \in Procs : mix.kind[p] \in Kinds
  BY OffloadConstants DEF Init, Kinds
<1>2. 1 \in 1 .. MaxRuns /\ 1 \in Nat \ {0}
  BY OffloadConstants, SMT
<1>3. /\ app = [p \in Procs |-> NewApp(1, mix.kind[p])] /\ xfer = [p \in Procs |-> TransferOf(1)]
      /\ call = [c \in Conns |-> NoCall] /\ net = [c \in Conns |-> NoNet]
      /\ backlog = << >> /\ srv = Waiting /\ served = {}
  BY DEF Init, RpcInit
<1>4. AppType
  <2>1. \A p \in Procs : NewApp(1, mix.kind[p]) \in App
    BY <1>1, <1>2, NewAppIs
  <2> QED BY <1>1, <1>3, <2>1 DEF AppType
<1>5. RpcInv
  <2>1. NoCall \in CallRec /\ NoCall.pc = "none"
    BY DEF NoCall, CallRec, Ops
  <2>2. NoNet \in NetRec /\ NoNet.rep.kind = "none" /\ NoNet.up = 0 /\ NoNet.down = 0
    BY SMT DEF NoNet, NetRec, Reply
  <2>3. RpcType
    BY <1>3, <2>1, <2>2, SMT DEF RpcType, Waiting
  <2>4. ASSUME NEW c \in Conns PROVE ConnInv(c)
    <3>1. ~InBacklog(c) /\ Turn(c) = "accept"
      BY <1>3, SMT DEF InBacklog, Turn, Waiting
    <3>2. call[c] = NoCall /\ net[c] = NoNet
      BY <1>3
    <3> QED BY <2>1, <2>2, <3>1, <3>2, SMT DEF ConnInv, ConnOK, Busy, Reading
  <2> QED BY <2>3, <2>4 DEF RpcInv
<1>6. ASSUME NEW p \in Procs PROVE XferInv(xfer[p]) /\ ProcInv(p) /\ LaterInv(p)
  <2>1. xfer[p] = TransferOf(1) /\ app[p] = NewApp(1, Kind(p)) /\ Kind(p) \in Kinds
    BY <1>1, <1>3 DEF Kind
  <2>2. call[Conn(p)].pc = "none"
    BY <1>3, <1>4, ConnsApart DEF NoCall
  <2>3. LaterInv(p)
    BY <1>3, <1>4, ConnsApart DEF NoCall, LaterInv, At
  <2> QED BY <1>2, <2>1, <2>2, <2>3, XferFresh, NewAppIs DEF ProcInv
<1> QED BY <1>3, <1>4, <1>5, <1>6 DEF Inv

\* Killed, and started again.
LEMMA KilledKeeps ==
    ASSUME Inv, NEW p \in Procs, Killed(p)
    PROVE  Inv'
<1>0. /\ AppType /\ RpcInv /\ DOMAIN xfer = Procs /\ LaterInv(p)
      /\ app[p] \in App /\ Kind(p) \in Kinds /\ MaxRuns \in Nat
  BY OffloadConstants DEF Inv, AppType, Kind, Kinds
<1>1. /\ app[p].run < MaxRuns /\ mix' = mix
      /\ app' = [app EXCEPT ![p] = NewApp(app[p].run + 1, Kind(p))]
      /\ xfer' = [xfer EXCEPT ![p] = TransferOf(1)]
      /\ Return(Conn(p), "failed") \/ UNCHANGED rpcVars
  BY DEF Killed
<1>2. app[p].run + 1 \in 1 .. MaxRuns /\ app[p].run + 1 > app[p].run /\ app[p].run \in Nat
      /\ 1 \in Nat \ {0}
  BY <1>0, <1>1, SMT DEF App
<1>3. /\ app'[p] = NewApp(app[p].run + 1, Kind(p)) /\ app' \in [Procs -> App]
      /\ \A q \in Procs \ {p} : app'[q] = app[q]
      /\ app'[p].run = app[p].run + 1
  BY <1>0, <1>1, <1>2, NewAppIs DEF AppType
<1>4. /\ xfer'[p] = TransferOf(1) /\ \A q \in Procs \ {p} : xfer'[q] = xfer[q] /\ DOMAIN xfer' = Procs
  BY <1>0, <1>1
<1>5. RpcInv'
  <2>1. CASE Return(Conn(p), "failed")
    BY <1>0, <2>1, ConnsApart, ReturnKeeps
  <2>2. CASE UNCHANGED rpcVars
    BY <1>0, <2>2, Zenon DEF RpcInv, RpcType, ConnInv, InBacklog, Turn, rpcVars
  <2> QED BY <1>1, <2>1, <2>2
<1>6. \A q \in Procs, r \in 1 .. MaxRuns : ~(q = p /\ r = app[p].run) => call'[<<q, r>>] = call[<<q, r>>]
  <2>1. \A c \in Conns \ {Conn(p)} : call'[c] = call[c]
    BY <1>0, <1>1 DEF Return, RpcInv, RpcType, rpcVars
  <2> QED BY <2>1, <1>0, ConnsApart
<1>7. DOMAIN xfer' = Procs
  BY <1>0, <1>1
<1>8. XferInv(xfer'[p])
  BY <1>2, <1>4, XferFresh
<1>9. call'[<<p, app[p].run + 1>>].pc = "none"
  <2>1. app[p].run + 1 # app[p].run
    BY <1>2, SMT
  <2> QED BY <1>0, <1>2, <1>6, <2>1 DEF LaterInv, At
<1>10. ProcInv(p)'
  <2>1. ProcOK(Kind(p), app'[p], Whole(xfer'[p]), "none")
    BY <1>0, <1>2, <1>3, NewAppIs
  <2> QED BY <1>1, <1>3, <1>9, <2>1 DEF ProcInv, Kind, Conn
<1>11. LaterInv(p)'
  <2> SUFFICES ASSUME NEW r \in 1 .. MaxRuns, r > app[p].run + 1 PROVE call'[<<p, r>>].pc = "none"
    BY <1>3 DEF LaterInv, At
  <2>1. r > app[p].run /\ r # app[p].run
    BY <1>2, SMT
  <2> QED BY <2>1, <1>0, <1>6 DEF LaterInv, At
<1>12. AppType'
  BY <1>0, <1>1, <1>3 DEF AppType
<1> QED BY <1>1, <1>3, <1>4, <1>5, <1>6, <1>7, <1>8, <1>10, <1>11, <1>12, ProcKeeps, SMT

\* The device has done a request.
LEMMA DoneKeeps ==
    ASSUME Inv, NEW e \in exe, ExecuteDoneFor(e)
    PROVE  Inv'
<1>0. AppType /\ app \in [Procs -> App]
  BY DEF Inv, AppType
<1>1. PICK p : p = e.of[1]
  OBVIOUS
<1>2. /\ mix' = mix /\ xfer' = xfer /\ UNCHANGED rpcVars
      /\ app' = app \/ (Pc(p) = "wait" /\ (Goto(p, "read", Held(p)) \/ Goto(p, "clean", Held(p))))
  BY <1>1 DEF ExecuteDoneFor
<1>3. CASE app' = app
  BY <1>2, <1>3, Zenon DEF Inv, AppType, RpcInv, RpcType, ConnInv, InBacklog, Turn, ProcInv, LaterInv,
       Kind, Conn, At, rpcVars
<1>4. CASE p \in Procs /\ Pc(p) = "wait" /\ (Goto(p, "read", Held(p)) \/ Goto(p, "clean", Held(p)))
  <2>1. Held(p) \in SUBSET Flags /\ "read" \in Pcs /\ "clean" \in Pcs
    BY <1>0, <1>4 DEF App, Held, Pcs
  <2>2. Jump(p, {"read", "clean"}) /\ Still
    BY <1>0, <1>2, <1>4, <2>1, GotoIs DEF Jump, Still
  <2>3. Moves(p)
    BY <1>4, <2>2 DEF Jump, Moves, Edge, Pc, SetUpPcs
  <2> QED BY <1>4, <2>3, StepsKeep DEF Steps
<1>5. CASE p \notin Procs /\ (Goto(p, "read", Held(p)) \/ Goto(p, "clean", Held(p)))
  <2>1. app' = app
    BY <1>0, <1>5, SMT DEF Goto
  <2> QED BY <2>1, <1>3
<1> QED BY <1>2, <1>3, <1>4, <1>5

\* Every step keeps the invariant.
LEMMA NextInv ==
    ASSUME Inv, [Next]_vars PROVE Inv'
<1>1. ASSUME NEW p \in Procs, AppStep(p) PROVE Inv'
  <2>1. AppType /\ XferInv(xfer[p])
    BY DEF Inv
  <2> QED BY <1>1, <2>1, AppStepIs, StepsKeep
<1>2. ASSUME NEW p \in Procs, Killed(p) PROVE Inv'
  BY <1>2, KilledKeeps
<1>3. ASSUME NEW e \in exe, ExecuteDoneFor(e) PROVE Inv'
  BY <1>3, DoneKeeps
<1>4. ASSUME RpcInv', UNCHANGED <<mix, app, xfer, call>> PROVE Inv'
  BY <1>4, Zenon DEF Inv, AppType, ProcInv, LaterInv, Kind, Conn, At
<1>5. CASE Server
  <2>1. RpcInv'
    BY <1>5, ServerKeeps DEF Server, Inv
  <2>2. call' = call
    BY <1>5 DEF Server, ServerStep, Accept, ReadFrame, ReadFails, ProcessRequest, ProcessFails,
          WriteWords, WriteTrailer, NextConnection
  <2> QED BY <1>4, <1>5, <2>1, <2>2 DEF Server, appVars
<1>6. CASE ServerFails
  <2>1. RpcInv'
    BY <1>6, AcceptFailsKeeps DEF ServerFails, Inv
  <2>2. UNCHANGED <<mix, app, xfer, call>>
    BY <1>6 DEF ServerFails, AcceptFails
  <2> QED BY <1>4, <2>1, <2>2
<1>7. CASE UNCHANGED vars
  <2>1. RpcInv'
    BY <1>7, Zenon DEF vars, rpcVars, Inv, RpcInv, RpcType, ConnInv, InBacklog, Turn
  <2> QED BY <1>4, <1>7, <2>1 DEF vars, appVars, rpcVars
<1> QED BY <1>1, <1>2, <1>3, <1>5, <1>6, <1>7 DEF Next

\* The applications, their transfers and their calls are where the invariant has them.
THEOREM OffloadInvariant == Spec => []Inv
BY InitInv, NextInv, PTL DEF Spec

\* However the workers of a transfer interleave, are interrupted and fail: no request is
\* moved twice, and the result is success just when every request was moved.
THEOREM TransfersExact == Spec => []TransferExact
<1>1. Inv => TransferExact
  <2> SUFFICES ASSUME Inv, NEW p \in Procs
               PROVE  /\ \A i \in Requests : xfer[p].moved[i] <= 1
                      /\ Joined(xfer[p]) =>
                            (TransferResult(xfer[p]) <=> \A i \in Requests : xfer[p].moved[i] = 1)
    BY DEF TransferExact
  <2>1. XferInv(xfer[p])
    BY DEF Inv
  <2> QED BY <2>1, XferExact DEF Whole
<1> QED BY <1>1, OffloadInvariant, PTL

\* A call that returned an answer was answered to the end by the server; and the header of
\* any response that reaches a client passes the client's checks.
THEOREM AnswersAreMine == Spec => []AnswerIsMine
<1>1. Inv => AnswerIsMine
  <2> SUFFICES ASSUME Inv, NEW c \in Conns
               PROVE  /\ At(c, "ok") => c \in served
                      /\ At(c, "header") /\ net[c].rep.kind = "response" => HeaderIsMine(c)
    BY DEF AnswerIsMine
  <2>1. ConnOK(c, call[c], net[c], InBacklog(c), Turn(c), c \in served)
    BY DEF Inv, RpcInv, ConnInv
  <2>2. call[c].op \in Ops
    BY DEF Inv, RpcInv, RpcType, CallRec
  <2>3. ResultWords(call[c].op) = ExpectedWords(call[c].op)
    BY <2>2 DEF ResultWords, ExpectedWords, Ops
  <2> QED BY <2>1, <2>3 DEF ConnOK, At, HeaderIsMine
<1> QED BY <1>1, OffloadInvariant, PTL

\* Success is reported only after a whole transfer and, where there is one, an answered
\* call, in whatever order commands fail and applications are killed and started again.
THEOREM SuccessEarned == Spec => []SuccessIsEarned
<1>1. Inv => SuccessIsEarned
  <2> SUFFICES ASSUME Inv, NEW p \in Procs, app[p].status = "passed"
               PROVE  /\ Kind(p) # "elsewhere" => \A i \in Requests : xfer[p].moved[i] = 1
                      /\ Kind(p) \in {"remote", "full", "elsewhere"} => At(Conn(p), "ok")
    BY DEF SuccessIsEarned
  <2>1. ProcOK(Kind(p), app[p], Whole(xfer[p]), call[Conn(p)].pc)
    BY DEF Inv, ProcInv
  <2> QED BY <2>1 DEF ProcOK, FlowOK, WholeOK, AnswerOK, Whole, At
<1> QED BY <1>1, OffloadInvariant, PTL
=============================================================================
