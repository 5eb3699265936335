------------------------------ MODULE MCLweTask ------------------------------
(***************************************************************************)
(* Small instances of LweTask: 8 mask words, beats of 2 words, pages of 2  *)
(* beats, slots of 2 pages, 7-bit words, clear values of 2 blocks, noise   *)
(* of -1, 0 and 1.  The plaintexts need less than a page, exactly a page   *)
(* and more than a page; the output ends anywhere in a batch.              *)
(***************************************************************************)
EXTENDS LweTask

\* Two random streams: masks that wrap around, noise of every sign.
MCRngs == [a \in {11, 29} |->
    [c \in 0 .. 5 * RadixBlocks - 1 |->
        [mask |-> [i \in 0 .. MaskDim - 1 |-> (37 * i * i + a * c * (i + 3) + 5) % 2 ^ Width],
         noise |-> ((c + a) % 3) - 1]]]

MCKeys == [bits \in {{0, 1, 3, 6}, {2, 4, 5, 6, 7}, {1, 2, 7}} |->
    [i \in 0 .. MaskDim - 1 |-> IF i \in bits THEN 1 ELSE 0]]

\* The host buffer's pages: contiguous, backwards, and in runs of three.
MCPlaces == [p \in {"contiguous", "backwards", "runs"} |->
    [k \in 1 .. 64 |-> CASE p = "contiguous" -> k [] p = "backwards" -> 100 - k
                         [] p = "runs" -> k + 5 * (k \div 3)]]

MCCase(plain, layout, place, bits, a, whole, raw, short) ==
    [plain |-> plain, junk |-> 9, key |-> bits, rng |-> a, layout |-> layout,
     whole |-> whole, place |-> place, raw |-> raw, short |-> short]

MCCases ==
    {MCCase(plain, "native", place, {0, 1, 3, 6}, 11, whole, raw, "no") :
        plain \in {<<7>>, <<15, 0>>, <<0, 6, 9, 15>>, <<1, 14, 3, 8, 5>>},
        place \in DOMAIN MCPlaces, whole \in BOOLEAN, raw \in BOOLEAN}
    \cup
    {MCCase(plain, "cpu", place, {2, 4, 5, 6, 7}, 29, TRUE, FALSE, "no") :
        plain \in {<<12>>, <<3, 10>>, <<0, 6, 9>>, <<1, 14, 3, 8, 5>>},
        place \in DOMAIN MCPlaces}
    \cup
    {MCCase(<<1, 14, 3, 8, 5>>, layout, "contiguous", {1, 2, 7}, 11, TRUE, FALSE, "encrypt") :
        layout \in {"native", "cpu"}}
    \cup
    {MCCase(plain, "native", "contiguous", {1, 2, 7}, 29, TRUE, raw, "decrypt") :
        plain \in {<<2, 13>>, <<4, 4, 11>>}, raw \in BOOLEAN}

=============================================================================
