--------------------------- MODULE MCHlsAccCompute ---------------------------
(* The compute scheduler on small devices: two operator types A and B. *)
EXTENDS HlsAccCompute, TLC

CONSTANTS A, B, a1, b1, r1, r2, r3, rx1, rx2, tx1, tx2

OneOfEach == (a1 :> A) @@ (b1 :> B)
Single == {<<A>>, <<B>>}
OnA == {<<A>>}
Chains == {<<A>>, <<B>>, <<A, B>>}

Load(reqs, programs, prios, ways, uses, tx, rx) ==
    [reqs |-> reqs, programs |-> programs, prios |-> prios, ways |-> ways, uses |-> uses,
     tx |-> tx, rx |-> rx]
Hardware2(reqs, programs, prios, uses) ==
    Load(reqs, programs, prios, {2}, uses, {tx1, tx2}, {rx1, rx2})

\* Three requests without preemption, as many channels as operators.
Fcfs == {Hardware2({r1, r2, r3}, Chains, {100}, 1)}

\* Three priorities; two objects used twice; software and hardware mixed, with
\* one pair of channels, so that every shortage occurs.
Mixed == {Hardware2({r1, r2, r3}, Chains, {100, 150, 230}, 1),
          Hardware2({r1, r2}, Single, {100, 150}, 2),
          Load({r1, r2, r3}, Chains, {100}, {1, 2}, 1, {tx1}, {rx1})}

\* Two requests: of one preemptive priority; one that may preempt the other; in
\* software or in hardware.
EqualPriority == {Hardware2({r1, r2}, Single, {150}, 1)}
MayPreempt == {Hardware2({r1, r2}, Single, {100, 150}, 1)}
MaySoftware == {Load({r1, r2}, Single, {100}, {1, 2}, 1, {tx1, tx2}, {rx1, rx2})}
=============================================================================
