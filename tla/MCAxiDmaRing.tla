---------------------------- MODULE MCAxiDmaRing ----------------------------
(* One channel with a ring of a few BDs and a pool of a few I/O objects, of  *)
(* any of the kinds of channel the firmware creates.                         *)
EXTENDS AxiDmaRing
CONSTANTS a, b, c, d

Kind(dir, client, pool, lens, maxIov) ==
    [dir |-> dir, client |-> client, pool |-> pool, lens |-> lens, maxIov |-> maxIov]

\* The compute channels, both directions; the copy engine's send side; the
\* receive side of an NVMe queue pair. (Its send side differs from the copy
\* engine's only in that failed submissions leak their object for good.)
FittingChans == {Kind("tx", "compute", {a, b}, {1}, 2), Kind("rx", "compute", {a, b}, {2}, 2),
                 Kind("tx", "handc", {a, b, c, d}, {1}, 1),
                 Kind("rx", "qpair", {a, b}, {2}, 1)}

\* The copy engine's receive side, which submits lists.
HandcRx == {Kind("rx", "handc", {a, b}, {1}, 3)}
=============================================================================
