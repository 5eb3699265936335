-------------------------------- MODULE LweRpc --------------------------------
(***************************************************************************)
(* LWERPC01: the client of the host applications (compute_u8) and the      *)
(* remote HPU server (lwe_remote_server.rs), over TCP.  A call opens a     *)
(* connection of its own, sends one request frame, and reads one response  *)
(* frame and the timing trailer, each wait bounded by a timeout.  The      *)
(* server serves one connection at a time, in the order the kernel         *)
(* accepted them; it answers what it could read with a response or an      *)
(* error frame and what it could not read with nothing.  A request does    *)
(* not fit the socket buffers: its last byte is sent only while the server *)
(* reads it.                                                               *)
(***************************************************************************)
EXTENDS Naturals, Sequences, Functions

CONSTANTS Conns, NoConn

VARIABLES call,      \* Conns -> the client's call: pc, op
          net,       \* Conns -> the connection
          backlog,   \* accepted by the kernel, not yet by the server
          srv,       \* the server: pc, the connection it serves
          served     \* connections whose answer the server has written to the end

rpcVars == <<call, net, backlog, srv, served>>

\* up: parts of the request on the wire; down: parts of the answer (1 header, 2 words,
\* 3 trailer); rep: the frame answered; gone, hung: closed by client, by server.
NoNet == [up |-> 0, down |-> 0, rep |-> [kind |-> "none"], gone |-> FALSE, hung |-> FALSE]
GoneNet == [NoNet EXCEPT !.gone = TRUE, !.hung = TRUE]
NoCall == [pc |-> "none", op |-> "echo"]
Waiting == [pc |-> "accept", conn |-> NoConn]

RpcInit ==
    /\ call = [c \in Conns |-> NoCall]
    /\ net = [c \in Conns |-> NoNet]
    /\ backlog = << >>
    /\ srv = Waiting
    /\ served = {}

\* Mutant: the reply is expected in the size of the request.
ExpectedWordsAsSent(op) == "native"

\* How many words a reply holds: an echo returns the native words it got, the
\* round trip too, the other operation the words of the CPU layout.
ExpectedWords(op) == IF op = "adds_native" THEN "cpu" ELSE "native"
ResultWords(op) == IF op \in {"echo", "roundtrip"} THEN "native" ELSE "cpu"

At(c, pc) == call[c].pc = pc
Then(c, pc) == call' = [call EXCEPT ![c].pc = pc]

\* The client closes: what it was sent is lost, what it sent the server may still read.
ClosedByClient(n) ==
    IF n.hung THEN GoneNet ELSE [NoNet EXCEPT !.up = n.up, !.gone = TRUE]
ClosedByServer(n) ==
    IF n.gone THEN GoneNet ELSE [n EXCEPT !.up = 0, !.hung = TRUE]

\* Every way out of compute_u8 after the connection closes it.
Return(c, pc) ==
    /\ call' = [call EXCEPT ![c] = [NoCall EXCEPT !.pc = pc]]
    /\ net' = [net EXCEPT ![c] = ClosedByClient(@)]
    /\ UNCHANGED <<backlog, srv, served>>

-----------------------------------------------------------------------------
\* The client, one step for each wait of compute_u8.

Connect(c) ==
    /\ At(c, "connect")
    /\ srv.pc # "down"
    /\ Then(c, "send")
    /\ backlog' = Append(backlog, c)
    /\ UNCHANGED <<net, srv, served>>

\* Refused or not answered in connect_timeout_ms.
ConnectFails(c) ==
    /\ At(c, "connect")
    /\ call' = [call EXCEPT ![c] = [NoCall EXCEPT !.pc = "failed"]]
    /\ UNCHANGED <<net, backlog, srv, served>>

SendHeader(c) ==
    /\ At(c, "send") /\ net[c].up = 0
    /\ net' = [net EXCEPT ![c].up = 1]
    /\ UNCHANGED <<call, backlog, srv, served>>

SendWords(c) ==
    /\ At(c, "send") /\ net[c].up = 1
    /\ srv.pc = "read" /\ srv.conn = c
    /\ net' = [net EXCEPT ![c].up = 2]
    /\ Then(c, "header")
    /\ UNCHANGED <<backlog, srv, served>>

\* The checks of the header: kind, request id, operation, metadata.
HeaderIsMine(c) ==
    LET r == net[c].rep IN
    /\ r.kind = "response"
    /\ r.conn = c /\ r.op = call[c].op
    /\ r.words = ExpectedWords(call[c].op)

ReceiveHeader(c) ==
    /\ At(c, "header") /\ net[c].down >= 1
    /\ IF HeaderIsMine(c) THEN Then(c, "words") /\ UNCHANGED <<net, backlog, srv, served>>
                          ELSE Return(c, "failed")

ReceiveWords(c) ==
    /\ At(c, "words") /\ net[c].down >= 2
    /\ Then(c, "trailer")
    /\ UNCHANGED <<net, backlog, srv, served>>

ReceiveTrailer(c) ==
    /\ At(c, "trailer") /\ net[c].down = 3
    /\ Return(c, "ok")

\* Mutant: sending has no timeout.
StuckReceiving(c) ==
    \/ At(c, "header") /\ net[c].down = 0
    \/ At(c, "words") /\ net[c].down < 2
    \/ At(c, "trailer") /\ net[c].down < 3

\* The connection ends, or io_timeout_secs pass, before the next part is there.
Stuck(c) ==
    \/ At(c, "send")
    \/ At(c, "header") /\ net[c].down = 0
    \/ At(c, "words") /\ net[c].down < 2
    \/ At(c, "trailer") /\ net[c].down < 3
GiveUp(c) == Stuck(c) /\ Return(c, "failed")

-----------------------------------------------------------------------------
\* The server.

Serve(pc, c) == srv' = [pc |-> pc, conn |-> c]

\* The connection is dropped at the end of its turn of the accept loop.
NextConnection(c) ==
    /\ srv' = Waiting
    /\ net' = [net EXCEPT ![c] = ClosedByServer(@)]
    /\ UNCHANGED <<call, backlog, served>>

Accept ==
    /\ srv.pc = "accept" /\ backlog # << >>
    /\ Serve("read", Head(backlog))
    /\ backlog' = Tail(backlog)
    /\ UNCHANGED <<call, net, served>>

\* configure_stream fails: run returns and the server is gone with its connections.
AcceptFails ==
    /\ srv.pc = "accept" /\ backlog # << >>
    /\ srv' = [pc |-> "down", conn |-> NoConn]
    /\ net' = [c \in Conns |-> IF c \in Range(backlog) THEN ClosedByServer(net[c]) ELSE net[c]]
    /\ backlog' = << >>
    /\ UNCHANGED <<call, served>>

\* Mutant: a read of a closed connection is tried again.
ReadFailsUnlessGone(c) ==
    /\ srv.pc = "read" /\ srv.conn = c /\ net[c].up < 2 /\ ~net[c].gone
    /\ NextConnection(c)

\* read_frame: the whole request, or an error when the client is gone or silent for
\* the read timeout; nothing is answered then.
ReadFrame(c) ==
    /\ srv.pc = "read" /\ srv.conn = c /\ net[c].up = 2
    /\ Serve("process", c)
    /\ UNCHANGED <<call, net, backlog, served>>
ReadFails(c) ==
    /\ srv.pc = "read" /\ srv.conn = c /\ net[c].up < 2
    /\ NextConnection(c)

\* process_request, then the response or the error frame.  A client that is gone
\* makes a write fail.
ProcessRequest(c) ==
    /\ srv.pc = "process" /\ srv.conn = c
    /\ IF net[c].gone THEN NextConnection(c)
       ELSE /\ net' = [net EXCEPT ![c].down = 1,
                         ![c].rep = [kind |-> "response", conn |-> c, op |-> call[c].op,
                                     words |-> ResultWords(call[c].op)]]
            /\ Serve("words", c)
            /\ UNCHANGED <<call, backlog, served>>
ProcessFails(c) ==
    /\ srv.pc = "process" /\ srv.conn = c
    /\ srv' = Waiting
    /\ net' = [net EXCEPT ![c] = IF @.gone THEN GoneNet
                                 ELSE ClosedByServer([@ EXCEPT !.down = 1, !.rep = [kind |-> "error"]])]
    /\ UNCHANGED <<call, backlog, served>>

\* The words, then the trailer (write_server_timing).
WriteWords(c) ==
    /\ srv.pc = "words" /\ srv.conn = c
    /\ IF net[c].gone THEN NextConnection(c)
       ELSE /\ net' = [net EXCEPT ![c].down = 2]
            /\ Serve("trailer", c)
            /\ UNCHANGED <<call, backlog, served>>
WriteTrailer(c) ==
    /\ srv.pc = "trailer" /\ srv.conn = c
    /\ srv' = Waiting
    /\ served' = served \cup {c}
    /\ net' = [net EXCEPT ![c] = ClosedByServer([@ EXCEPT !.down = 3])]
    /\ UNCHANGED <<call, backlog>>

ClientStep(c) ==
    \/ Connect(c) \/ ConnectFails(c) \/ SendHeader(c) \/ SendWords(c)
    \/ ReceiveHeader(c) \/ ReceiveWords(c) \/ ReceiveTrailer(c) \/ GiveUp(c)

ServerStep ==
    \/ Accept
    \/ \E c \in Conns :
          \/ ReadFrame(c) \/ ReadFails(c) \/ ProcessRequest(c) \/ ProcessFails(c)
          \/ WriteWords(c) \/ WriteTrailer(c)
=============================================================================
