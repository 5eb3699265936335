------------------------------- MODULE Offload -------------------------------
(***************************************************************************)
(* The host applications that offload LWE encryption and decryption to the *)
(* computational storage device, running side by side on one device:       *)
(*   "encrypt"  vscode-lwe-encrypt-offload                                 *)
(*   "decrypt"  vscode-lwe-decrypt-offload                                 *)
(*   "remote"   vscode-lwe-encrypt-remote-offload                          *)
(*   "full"     vscode-lwe-full-pipeline                                   *)
(* Each one sets up memory, a range set and a program on the device, runs  *)
(* the program, reads the result, and takes down what it set up on every   *)
(* way out; "remote" and "full" release the device before they call the    *)
(* remote HPU, and "full" sets it up again to decrypt the answer.  A       *)
(* command may be refused, and it may be carried out although its answer   *)
(* is lost; an application may be killed at any point and started again.   *)
(* Concurrent applications are given different program ids.                *)
(***************************************************************************)
EXTENDS CsdTables, SlmTransfer, LweRpc

CONSTANTS Procs,
          Mixes,        \* what runs side by side: kind (Procs -> kind, or "none"), and how
                        \* many faults (commands and host steps that fail, applications
                        \* that are killed) there may be in all
          Depth,        \* --slm-read-queue-depth of "encrypt"; the others read with 1
          MaxRuns       \* starts of an application: one more than it is killed

ASSUME OffloadConstants ==
    /\ Chunks \in Nat /\ MaxRetries \in Nat /\ Depth \in Nat \ {0} /\ MaxRuns \in Nat \ {0}
    /\ Conns = Procs \X (1 .. MaxRuns) /\ Slots = Procs \X {"enc", "dec"}
    /\ \A m \in Mixes : m.kind \in [Procs -> {"encrypt", "decrypt", "remote", "full",
                                              "elsewhere", "none"}]
    /\ NoProgram \notin [by : Procs \X (1 .. MaxRuns) \X {"enc", "dec"}, activated : BOOLEAN]

VARIABLES mix,
          app,       \* Procs -> pc, part (enc or dec), held (the cleanup flags), run, status
          xfer,      \* Procs -> the transfer in progress
          csd,       \* the tables of the device
          exe,       \* requests the device is executing, by object
          faults,
          excused,   \* objects left behind because a command failed under way
          adrift     \* an application gave up on a request the device still executes

appVars == <<mix, app, xfer, csd, exe, faults, excused, adrift>>
vars == <<appVars, rpcVars>>

Kind(p) == mix.kind[p]
Pc(p) == app[p].pc
Held(p) == app[p].held
Conn(p) == <<p, app[p].run>>

\* Mutant: the two applications are given the same program id.
SlotShared(p) == <<CHOOSE q \in Procs : TRUE, "enc">>

\* The objects of this run on the device, and the program slot of this part.
Obj(p, which) == <<p, app[p].run, app[p].part, which>>
Mems(p) == {Obj(p, "in"), Obj(p, "out")}
Slot(p) == <<p, app[p].part>>
Mine(p) == <<p, app[p].run, app[p].part>>

NewApp(run, kind) ==
    [pc |-> CASE kind = "none" -> "exit" [] kind = "elsewhere" -> "call" [] OTHER -> "open",
     part |-> IF kind = "decrypt" THEN "dec" ELSE "enc",
     held |-> {}, run |-> run, status |-> "failed"]

Init ==
    /\ mix \in Mixes
    /\ app = [p \in Procs |-> NewApp(1, mix.kind[p])]
    /\ xfer = [p \in Procs |-> TransferOf(1)]
    /\ csd = NoTables
    /\ exe = {}
    /\ faults = 0 /\ excused = {} /\ adrift = FALSE
    /\ RpcInit

-----------------------------------------------------------------------------
Goto(p, pc, held) == app' = [app EXCEPT ![p].pc = pc, ![p].held = held]
Fault == faults < mix.faults /\ faults' = faults + 1

\* A step of the host alone (open, verify, write a file): it may fail.
HostStep(p, from, to, fail) ==
    /\ Pc(p) = from
    /\ \/ Goto(p, to, Held(p)) /\ UNCHANGED faults
       \/ Fault /\ Goto(p, fail, Held(p))
    /\ UNCHANGED <<mix, xfer, csd, exe, excused, adrift, rpcVars>>

\* A command that sets flag: carried out or refused by the device as it finds the
\* tables; or failed on the way; or carried out but not answered.
Command(p, from, to, flag, accepted, after) ==
    /\ Pc(p) = from
    /\ \/ /\ csd' = after
          /\ IF accepted THEN Goto(p, to, Held(p) \cup flag) ELSE Goto(p, "clean", Held(p))
          /\ UNCHANGED <<faults, excused>>
       \/ /\ Fault
          /\ Goto(p, "clean", Held(p))
          /\ UNCHANGED <<csd, excused>>
       \/ /\ Fault
          /\ csd' = after
          /\ Goto(p, "clean", Held(p))
          /\ excused' = excused \cup {Obj(p, f) : f \in flag}
    /\ UNCHANGED <<mix, xfer, exe, adrift, rpcVars>>

\* nvme_open of the admin and the I/O device.
Open(p, fail) ==
    /\ Pc(p) = "open"
    /\ \/ Goto(p, "input", Held(p) \cup {"fd"}) /\ UNCHANGED faults
       \/ Fault /\ Goto(p, fail, Held(p))
    /\ UNCHANGED <<mix, xfer, csd, exe, excused, adrift, rpcVars>>

\* From the first namespace to the activated program; fill is how the input gets
\* into the memory.
SetUp(p, fill) ==
    \/ Command(p, "input", "output", {"in"}, TRUE, NsCreate(csd, Obj(p, "in")))
    \/ Command(p, "output", fill, {"out"}, TRUE, NsCreate(csd, Obj(p, "out")))
    \/ Command(p, "range", "unstale", {"rs"}, RangeSetFound(csd, Mems(p)),
               RangeSetCreate(csd, Obj(p, "rs"), Mems(p)))
    \/ Command(p, "unstale", "load", {}, TRUE, ProgramUnload(csd, Slot(p)))
    \/ Command(p, "load", "activate", {"prog"}, LoadFits(csd, Slot(p)),
               ProgramLoad(csd, Slot(p), Mine(p)))
    \/ Command(p, "activate", "execute", {"act"}, LookupProgram(csd, Slot(p)),
               ProgramActivate(csd, Slot(p), TRUE))

\* nvme_slm_copy from the SSD.
CopyFromSsd(p) == Command(p, "copy", "range", {}, TRUE, SlmUse(csd, Obj(p, "in")))

-----------------------------------------------------------------------------
\* nvme_execute_hlsacc_program: the command waits for the device.
Execute(p) ==
    /\ Pc(p) = "execute"
    /\ IF ExecuteStarts(csd, Slot(p), Obj(p, "rs"))
       THEN /\ exe' = exe \cup {[of |-> Mine(p),
                                 req |-> ExecuteRequest(csd, Slot(p), Obj(p, "rs"))]}
            /\ Goto(p, "wait", Held(p))
       ELSE Goto(p, "clean", Held(p)) /\ UNCHANGED exe
    /\ UNCHANGED <<mix, xfer, csd, faults, excused, adrift, rpcVars>>

\* The device is done with a request, and answers the application that waits for it:
\* with the bytes it asked for, or with fewer after an error of the operator.
ExecuteDoneFor(e) ==
    /\ e \in exe
    /\ exe' = exe \ {e}
    /\ csd' = ExecuteDone(csd, e.req)
    /\ LET p == e.of[1] IN
       IF Pc(p) = "wait" /\ Mine(p) = e.of
       THEN \/ Goto(p, "read", Held(p)) /\ UNCHANGED faults
            \/ Fault /\ Goto(p, "clean", Held(p))
       ELSE UNCHANGED <<app, faults>>
    /\ UNCHANGED <<mix, xfer, excused, adrift, rpcVars>>

\* The driver's timeout ends the command, not the request on the device.
ExecuteTimesOut(p) ==
    /\ Pc(p) = "wait"
    /\ Fault
    /\ Goto(p, "clean", Held(p))
    /\ adrift' = TRUE
    /\ UNCHANGED <<mix, xfer, csd, exe, excused, rpcVars>>

\* One transfer between the host and the memory (busy is the pc while it lasts): it
\* starts with fresh records, its workers move the requests, and its result sends the
\* application on.
TransferStart(p, from, busy, depth) ==
    /\ Pc(p) = from
    /\ xfer' = [xfer EXCEPT ![p] = TransferOf(depth)]
    /\ Goto(p, busy, Held(p))
    /\ UNCHANGED <<mix, csd, exe, faults, excused, adrift, rpcVars>>
TransferStep(p, busy, which) ==
    /\ Pc(p) = busy
    /\ \E w \in Workers(xfer[p]) :
          \/ \E x \in WorkerStep(xfer[p], w) : xfer' = [xfer EXCEPT ![p] = x] /\ UNCHANGED faults
          \/ /\ Fault
             /\ \E x \in WorkerInterrupted(xfer[p], w) \cup WorkerFails(xfer[p], w) :
                   xfer' = [xfer EXCEPT ![p] = x]
    /\ csd' = SlmUse(csd, Obj(p, which))
    /\ UNCHANGED <<mix, app, exe, excused, adrift, rpcVars>>
TransferEnd(p, busy, to) ==
    /\ Pc(p) = busy
    /\ Joined(xfer[p])
    /\ Goto(p, IF TransferResult(xfer[p]) THEN to ELSE "clean", Held(p))
    /\ UNCHANGED <<mix, xfer, csd, exe, faults, excused, adrift, rpcVars>>
Transfer(p, from, busy, which, depth, to) ==
    \/ TransferStart(p, from, busy, depth)
    \/ TransferStep(p, busy, which)
    \/ TransferEnd(p, busy, to)

-----------------------------------------------------------------------------
\* Mutant: the input memory has no place in the cleanup.
HoldsObjectsNoInput(p) == Held(p) \cap {"act", "prog", "rs", "out"} # {}

\* The order in which everything is taken down.
Order == <<"act", "prog", "rs", "out", "in">>
Undo(p, flag) ==
    CASE flag = "act"  -> ProgramActivate(csd, Slot(p), FALSE)
      [] flag = "prog" -> ProgramUnload(csd, Slot(p))
      [] flag = "rs"   -> RangeSetDelete(csd, Obj(p, "rs"))
      [] OTHER         -> NsDelete(csd, Obj(p, flag))
IsNext(p, flag) == flag \in Held(p) /\ \A i, j \in 1 .. 5 :
                       Order[i] = flag /\ j < i => Order[j] \notin Held(p)
HoldsObjects(p) == Held(p) \cap {"act", "prog", "rs", "out", "in"} # {}

\* Mutant: a failed command of the cleanup keeps its flag for another attempt.
TakeDownAgain(p, flag, stop) ==
    /\ IsNext(p, flag)
    /\ \/ csd' = Undo(p, flag) /\ Goto(p, Pc(p), Held(p) \ {flag}) /\ UNCHANGED <<faults, excused>>
       \/ Fault /\ csd' \in {csd, Undo(p, flag)} /\ Goto(p, "clean", Held(p)) /\ UNCHANGED excused
    /\ UNCHANGED <<mix, xfer, exe, adrift, rpcVars>>

\* A command of the cleanup: what it does not undo is left behind.
TakeDown(p, flag, stop) ==
    /\ IsNext(p, flag)
    /\ \/ csd' = Undo(p, flag) /\ Goto(p, Pc(p), Held(p) \ {flag}) /\ UNCHANGED <<faults, excused>>
       \/ /\ Fault
          /\ csd' \in {csd, Undo(p, flag)}
          /\ IF stop THEN Goto(p, "clean", Held(p)) /\ UNCHANGED excused
             ELSE /\ Goto(p, Pc(p), Held(p) \ {flag})
                  /\ excused' = IF csd' = csd THEN excused \cup {Obj(p, flag)} ELSE excused
    /\ UNCHANGED <<mix, xfer, exe, adrift, rpcVars>>

\* The cleanup at the end goes on after a failure.
Clean(p) == Pc(p) = "clean" /\ \E flag \in Held(p) \ {"fd"} : TakeDown(p, flag, FALSE)

\* The release before the remote call stops at a program that cannot be deactivated
\* or unloaded, and ignores the result of the deletions.
Release(p) ==
    /\ Pc(p) = "release"
    /\ \E flag \in Held(p) \ {"fd"} : TakeDown(p, flag, flag \in {"act", "prog"})

\* The devices are closed last, when nothing is held.
Close(p, from, to) ==
    /\ Pc(p) = from /\ ~HoldsObjects(p)
    /\ Goto(p, to, {})
    /\ UNCHANGED <<mix, xfer, csd, exe, faults, excused, adrift, rpcVars>>

\* Mutant: the result of the call is not tested.
CallEndAnyway(p, to) ==
    /\ Pc(p) = "calling"
    /\ call[Conn(p)].pc \in {"ok", "failed"}
    /\ Goto(p, to, Held(p))
    /\ UNCHANGED <<mix, xfer, csd, exe, faults, excused, adrift, rpcVars>>

\* compute_u8 is called with an operation the application offers, and its result
\* sends the application on.
CallStart(p, ops) ==
    /\ Pc(p) = "call"
    /\ \E op \in ops : call' = [call EXCEPT ![Conn(p)] = [pc |-> "connect", op |-> op]]
    /\ Goto(p, "calling", Held(p))
    /\ UNCHANGED <<mix, xfer, csd, exe, faults, excused, adrift, net, backlog, srv, served>>
CallStep(p) ==
    /\ Pc(p) = "calling"
    /\ ClientStep(Conn(p))
    /\ UNCHANGED appVars
CallEnd(p, to) ==
    /\ Pc(p) = "calling"
    /\ call[Conn(p)].pc \in {"ok", "failed"}
    /\ Goto(p, IF call[Conn(p)].pc = "ok" THEN to ELSE "clean", Held(p))
    /\ UNCHANGED <<mix, xfer, csd, exe, faults, excused, adrift, rpcVars>>
Call(p, ops, to) == CallStart(p, ops) \/ CallStep(p) \/ CallEnd(p, to)

\* status = 0 (success = true in run_decrypt_and_store: "stored"), the last statement
\* before the cleanup.
Succeed(p, from, to) ==
    /\ Pc(p) = from
    /\ app' = [app EXCEPT ![p].pc = to, ![p].status = from]
    /\ UNCHANGED <<mix, xfer, csd, exe, faults, excused, adrift, rpcVars>>

-----------------------------------------------------------------------------
\* vscode-lwe-encrypt-offload.

EncryptPrepare(p) == Open(p, "exit") \/ SetUp(p, "copy") \/ CopyFromSsd(p)
EncryptRun(p) ==
    \/ Execute(p) \/ ExecuteTimesOut(p)
    \/ Transfer(p, "read", "reading", "out", Depth, "verify")
EncryptFinish(p) == HostStep(p, "verify", "dump", "clean") \/ HostStep(p, "dump", "passed", "clean")
EncryptCleanup(p) == Succeed(p, "passed", "clean") \/ Clean(p) \/ Close(p, "clean", "exit")

EncryptOffload(p) ==
    /\ Kind(p) = "encrypt"
    /\ EncryptPrepare(p) \/ EncryptRun(p) \/ EncryptFinish(p) \/ EncryptCleanup(p)

-----------------------------------------------------------------------------
\* vscode-lwe-decrypt-offload: the ciphertexts are written from the host.

DecryptPrepare(p) ==
    \/ Open(p, "exit") \/ SetUp(p, "write")
    \/ Transfer(p, "write", "writing", "in", 1, "range")
DecryptRun(p) ==
    \/ Execute(p) \/ ExecuteTimesOut(p)
    \/ Transfer(p, "read", "reading", "out", 1, "verify")
DecryptFinish(p) == HostStep(p, "verify", "save", "clean") \/ HostStep(p, "save", "passed", "clean")
DecryptCleanup(p) == Succeed(p, "passed", "clean") \/ Clean(p) \/ Close(p, "clean", "exit")

DecryptOffload(p) ==
    /\ Kind(p) = "decrypt"
    /\ DecryptPrepare(p) \/ DecryptRun(p) \/ DecryptFinish(p) \/ DecryptCleanup(p)

-----------------------------------------------------------------------------
\* vscode-lwe-encrypt-remote-offload.

RemotePrepare(p) == Open(p, "exit") \/ SetUp(p, "copy") \/ CopyFromSsd(p)
RemoteRun(p) ==
    \/ Execute(p) \/ ExecuteTimesOut(p)
    \/ Transfer(p, "read", "reading", "out", 1, "verify")
    \/ HostStep(p, "verify", "release", "clean")
RemoteRelease(p) == Release(p) \/ Close(p, "release", "call")
RemoteCall(p) ==
    \/ Call(p, {"echo", "adds_native"}, "check")
    \/ HostStep(p, "check", "dump", "clean") \/ HostStep(p, "dump", "passed", "clean")
RemoteCleanup(p) == Succeed(p, "passed", "clean") \/ Clean(p) \/ Close(p, "clean", "exit")

RemoteOffload(p) ==
    /\ Kind(p) = "remote"
    /\ \/ RemotePrepare(p) \/ RemoteRun(p) \/ RemoteRelease(p)
       \/ RemoteCall(p) \/ RemoteCleanup(p)

-----------------------------------------------------------------------------
\* vscode-lwe-full-pipeline: encrypt, release, call, and run_decrypt_and_store.

Part(p, part) == app[p].part = part

FullPrepare(p) == Part(p, "enc") /\ (Open(p, "exit") \/ SetUp(p, "copy") \/ CopyFromSsd(p))
FullRun(p) ==
    /\ Part(p, "enc")
    /\ \/ Execute(p) \/ ExecuteTimesOut(p)
       \/ Transfer(p, "read", "reading", "out", 1, "verify")
       \/ HostStep(p, "verify", "release", "clean")
FullRelease(p) == Release(p) \/ Close(p, "release", "call")

\* The answer goes to run_decrypt_and_store, which opens the device again.
FullCall(p) ==
    \/ Call(p, {"echo", "roundtrip"}, "answered")
    \/ /\ Pc(p) = "answered"
       /\ app' = [app EXCEPT ![p].pc = "open", ![p].part = "dec"]
       /\ UNCHANGED <<mix, xfer, csd, exe, faults, excused, adrift, rpcVars>>

DecryptStorePrepare(p) ==
    /\ Part(p, "dec")
    /\ \/ Open(p, "clean") \/ SetUp(p, "write")
       \/ Transfer(p, "write", "writing", "in", 1, "range")
DecryptStoreRun(p) ==
    /\ Part(p, "dec")
    /\ \/ Execute(p) \/ ExecuteTimesOut(p)
       \/ Transfer(p, "read", "reading", "out", 1, "store")
       \/ HostStep(p, "store", "stored", "clean")

\* success = true; the flags of run_decrypt_and_store are taken down either way, and
\* main compares and saves only what it returned as a success.
DecryptStoreCleanup(p) ==
    /\ Part(p, "dec")
    /\ \/ Succeed(p, "stored", "clean")
       \/ Clean(p)
       \/ Close(p, "clean", IF app[p].status = "stored" THEN "compare" ELSE "exit")
FullFinish(p) ==
    \/ HostStep(p, "compare", "save", "exit") \/ HostStep(p, "save", "passed", "exit")
    \/ Succeed(p, "passed", "exit")
FullCleanup(p) == Part(p, "enc") /\ (Clean(p) \/ Close(p, "clean", "exit"))

FullPipeline(p) ==
    /\ Kind(p) = "full"
    /\ \/ FullPrepare(p) \/ FullRun(p) \/ FullRelease(p) \/ FullCall(p)
       \/ DecryptStorePrepare(p) \/ DecryptStoreRun(p) \/ DecryptStoreCleanup(p)
       \/ FullFinish(p) \/ FullCleanup(p)

-----------------------------------------------------------------------------
\* The application is killed: no cleanup, its connection is closed; it is started
\* again from the beginning.
Killed(p) ==
    /\ Pc(p) # "exit" /\ app[p].run < MaxRuns
    /\ Fault
    /\ app' = [app EXCEPT ![p] = NewApp(app[p].run + 1, Kind(p))]
    /\ adrift' = (adrift \/ Pc(p) = "wait")
    /\ xfer' = [xfer EXCEPT ![p] = TransferOf(1)]
    /\ IF Pc(p) = "calling" THEN Return(Conn(p), "failed") ELSE UNCHANGED rpcVars
    /\ UNCHANGED <<mix, csd, exe, excused>>

\* An application of another host, with a device of its own: only its call is seen.
Elsewhere(p) ==
    /\ Kind(p) = "elsewhere"
    /\ Call(p, {"adds_native"}, "passed") \/ Succeed(p, "passed", "exit") \/ Close(p, "clean", "exit")

AppStep(p) ==
    \/ EncryptOffload(p) \/ DecryptOffload(p) \/ RemoteOffload(p) \/ FullPipeline(p)
    \/ Elsewhere(p)

Server == ServerStep /\ UNCHANGED appVars
ServerFails ==
    /\ Fault /\ AcceptFails
    /\ UNCHANGED <<mix, app, xfer, csd, exe, excused, adrift>>

Next ==
    \/ \E p \in Procs : AppStep(p)
    \/ \E p \in Procs : Killed(p)
    \/ \E e \in exe : ExecuteDoneFor(e)
    \/ Server
    \/ ServerFails

Spec == Init /\ [][Next]_vars

\* Somebody takes a step as long as anybody can: an application, the device or the
\* server. Nothing here runs for ever, so nothing stronger is needed.
FairSpec == Spec /\ WF_vars(Next)

-----------------------------------------------------------------------------
\* What is on the device for this run of p, under the names the commands gave it.
Owned(p) ==
    {o \in csd.mem \cup {r.id : r \in csd.rset} : o[1] = p /\ o[2] = app[p].run} \cup
    {<<p, app[p].run, s[2], "prog">> : s \in {s \in Slots :
        csd.prog[s] # NoProgram /\ csd.prog[s].by = <<p, app[p].run, s[2]>>}}

\* Whatever failed on the way, an application that has ended has left nothing on the
\* device but what a failed command created unseen or did not delete; nor does it
\* occupy anything, or hold a device open, while it waits for the remote HPU.
NothingLeftBehind ==
    \A p \in Procs :
        Pc(p) \in {"exit", "call", "calling"} => Held(p) = {} /\ Owned(p) \subseteq excused

\* The device never works on memory or programs that are gone, and nothing is freed
\* twice, unless an application gave up on a request that was still executing.
NoWildAccess == csd.wild => adrift

\* The program that executes for a waiting application is its own, over its own two
\* memories, whatever the other applications do; and a program that an earlier run
\* left behind when it was killed does not keep the slot from its successor.
RunsItsOwn ==
    \A p \in Procs :
        /\ Pc(p) = "wait" =>
              \E e \in exe : e.of = Mine(p) /\ e.req.by = Mine(p) /\ e.req.cache = Mems(p)
        /\ Pc(p) = "load" => LoadFits(csd, Slot(p))

\* A transfer that reports success moved every request, once; a failed one stopped at
\* a request that failed, and no request was moved twice.
TransferExact ==
    \A p \in Procs : LET x == xfer[p] IN
        /\ \A i \in Requests : x.moved[i] <= 1
        /\ Joined(x) => (TransferResult(x) <=> \A i \in Requests : x.moved[i] = 1)

\* An answer is accepted only if the server made it for this call and all of it came;
\* and a response, unlike an error frame, passes the checks of the client: the two
\* sides agree on the size of the answer to every operation.
AnswerIsMine ==
    \A c \in Conns :
        /\ At(c, "ok") => c \in served
        /\ At(c, "header") /\ net[c].rep.kind = "response" => HeaderIsMine(c)

\* An application reports success only if its last transfer was whole and its call,
\* if it made one, was answered.
SuccessIsEarned ==
    \A p \in Procs : app[p].status = "passed" =>
        /\ Kind(p) # "elsewhere" => \A i \in Requests : xfer[p].moved[i] = 1
        /\ Kind(p) \in {"remote", "full", "elsewhere"} => At(Conn(p), "ok")

\* Every application ends, whatever the device, the server and the other applications
\* do, unless it is killed: no wait is without an end.
AppsEnd == \A p \in Procs : <>(Pc(p) = "exit")

\* The server comes back to its accept loop from every connection, however its client
\* behaves.
ServerComesBack == srv.pc # "accept" ~> srv.pc \in {"accept", "down"}
=============================================================================
