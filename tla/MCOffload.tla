------------------------------ MODULE MCOffload ------------------------------
(* Two applications on one device.                                          *)
EXTENDS Offload, TLC
CONSTANTS p1, p2

MCConns == {p1, p2} \X (1 .. MaxRuns)
MCSlots == {p1, p2} \X {"enc", "dec"}

\* Two that use the device, and one that calls the remote HPU next to one of another
\* host, with one fault; each kind by itself, with two.
Mix(a, b, n) == [kind |-> (p1 :> a) @@ (p2 :> b), faults |-> n]
MCMixes == {Mix("encrypt", "decrypt", 1), Mix("remote", "elsewhere", 1),
            Mix("encrypt", "none", 2), Mix("remote", "none", 2), Mix("full", "none", 2)}
=============================================================================
