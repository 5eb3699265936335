----------------------------- MODULE PrpTransfer -----------------------------
(***************************************************************************)
(* How an SLM transfer finds the pages of a host buffer: the nvmq driver   *)
(* walks the buffer's scatter list and describes it with two PRP entries   *)
(* or a PRP list (nvme_qdma_setup_prps), and the device turns them into    *)
(* I/O vectors (the SLM_READ branch of nvmf_mcdma_request_process).  The   *)
(* applications' buffers are aligned to pages and their transfers are      *)
(* whole pages, so an address is the number of a physical page.  The       *)
(* prefix that nvme_qdma_req_get_addr_prefix adds to an address is left    *)
(* out.                                                                    *)
(***************************************************************************)
EXTENDS Integers, Sequences, FiniteSets, FiniteSetsExt, SequencesExt

CONSTANT MaxIovecs      \* entries of the device's I/O vector arrays (64)

\* External: the scatter list of a buffer whose pages are given.  A bio merges
\* pages that are contiguous in memory to one segment.
ScatterList(pages) ==
    FoldLeft(LAMBDA sg, p :
                IF sg # << >> /\ Last(sg).addr + Last(sg).len = p
                THEN [sg EXCEPT ![Len(sg)].len = @ + 1]
                ELSE Append(sg, [addr |-> p, len |-> 1]),
             << >>, pages)

\* Mutant: the walk moves to the next segment after every page.
WalkBySegment(sg, n) == [k \in 1 .. n |-> sg[Min({k, Len(sg)})].addr]

\* nvme_qdma_setup_prps: the addresses of the first n pages, found by walking the
\* segments; the walk goes on inside a segment while dma_len is left.
Walk(sg, n) ==
    FoldLeft(LAMBDA w, k :
                IF w.left > 1
                THEN [seg |-> w.seg, addr |-> w.addr + 1, left |-> w.left - 1,
                      out |-> Append(w.out, w.addr + 1)]
                ELSE LET next == sg[w.seg + 1] IN
                     [seg |-> w.seg + 1, addr |-> next.addr, left |-> next.len,
                      out |-> Append(w.out, next.addr)],
             [seg |-> 1, addr |-> sg[1].addr, left |-> sg[1].len, out |-> <<sg[1].addr>>],
             [k \in 1 .. n - 1 |-> k]).out

\* The command: prp1 is the first page; prp2 is nothing, the second page, or the
\* list of all pages but the first.
nvme_qdma_setup_prps(sg, n) ==
    LET pages == Walk(sg, n) IN
    [prp1 |-> pages[1],
     prp2 |-> IF n = 2 THEN pages[2] ELSE 0,
     list |-> IF n > 2 THEN Tail(pages) ELSE << >>]

\* The device: FETCH_DATA at once for one or two pages, else the list is fetched
\* first (FETCH_PRP) and the vectors are taken from it.
Iovecs(cmd, n) ==
    IF n = 1 THEN <<cmd.prp1>>
    ELSE IF n = 2 THEN <<cmd.prp1, cmd.prp2>>
    ELSE <<cmd.prp1>> \o SubSeq(cmd.list, 1, Min({n - 1, MaxIovecs - 1}))

\* One nvme_slm_read of n pages, from page first of the SLM, to the host pages given:
\* what each host page holds afterwards.  A page no vector names keeps nothing.
SlmRead(slm, first, n, pages) ==
    LET io == Iovecs(nvme_qdma_setup_prps(ScatterList(pages), n), n) IN
    [k \in 1 .. n |->
        LET hits == {j \in 1 .. Len(io) : io[j] = pages[k]} IN
        IF hits = {} THEN << >> ELSE slm[first + Max(hits) - 1]]

\* A buffer read in chunks: the chunks' pages in order.
ReadInChunks(slm, chunk, place) ==
    LET n == Len(slm)
        len(c) == Min({chunk, n - (c - 1) * chunk})
    IN  FlattenSeq([c \in 1 .. (n + chunk - 1) \div chunk |->
            SlmRead(slm, (c - 1) * chunk + 1, len(c),
                    [k \in 1 .. len(c) |-> place[(c - 1) * chunk + k]])])

=============================================================================
